------------------------------ MODULE WakeupProofs ------------------------------
(***************************************************************************)
(* Proofs about the two places where a sleeper must not be overlooked.     *)
(*                                                                         *)
(* The scheduler: spinning threads are counted, no P and no goroutine is   *)
(* lost, and none waits in a queue beside an idle P, but for the cases     *)
(* that Sched.tla names.                                                   *)
(*                                                                         *)
(* notifyList and Cond: the tickets are consistent, no consumer sleeps     *)
(* beside an item, and the list implements CondQueue.                      *)
(***************************************************************************)
EXTENDS Cond, Sched, SequenceTheorems, FiniteSetTheorems, TLAPS

-----------------------------------------------------------------------------
(* The scheduler: counting the places in use. *)

\* What the lemmas ask of the function that is counted.
Small(f, S) == \A x \in S : f[x] \in 0..(NGoroutines + RunqLen)

\* The bounds are numbers, and half a queue is something.
LEMMA NumbersFit == NGoroutines \in Nat /\ RunqLen \in Nat /\ RunqLen > 1
<1>1. RunqLen \in Nat /\ RunqLen \div 2 > 0 /\ NGoroutines \in Nat
  BY SchedAssumption
<1>2. QED  BY <1>1

\* The places of one element are an interval.
LEMMA OnePlace ==
  ASSUME NEW x, NEW n \in Nat
  PROVE  IsFiniteSet({x} \X (1..n)) /\ Cardinality({x} \X (1..n)) = n
<1>1. IsFiniteSet({x}) /\ Cardinality({x}) = 1
  BY FS_Singleton
<1>2. IsFiniteSet(1..n) /\ Cardinality(1..n) = n
  BY FS_Interval
<1>3. IsFiniteSet({x} \X (1..n)) /\ Cardinality({x} \X (1..n)) = Cardinality({x}) * Cardinality(1..n)
  BY <1>1, <1>2, FS_Product
<1>4. 1 * n = n
  OBVIOUS
<1>5. QED  BY <1>1, <1>2, <1>3, <1>4

\* There are finitely many places.
LEMMA PlacesFinite ==
  ASSUME NEW f, NEW S, IsFiniteSet(S)
  PROVE  IsFiniteSet(Places(f, S)) /\ Cardinality(Places(f, S)) \in Nat
<1> DEFINE N == 1..(NGoroutines + RunqLen)
<1>1. IsFiniteSet(N)
  BY FS_Interval, NumbersFit
<1>2. IsFiniteSet(S \X N)
  BY <1>1, FS_Product
<1>3. Places(f, S) \subseteq S \X N
  BY DEF Places
<1>4. QED  BY <1>2, <1>3, FS_Subset, FS_CardinalityType

\* Places add up.
LEMMA PlacesAdd ==
  ASSUME NEW f, NEW S, IsFiniteSet(S), NEW y \in S, Small(f, S)
  PROVE  Cardinality(Places(f, S)) = Cardinality(Places(f, S \ {y})) + f[y]
<1> DEFINE A == Places(f, S \ {y})
           B == {y} \X (1..f[y])
<1>1. f[y] \in Nat /\ f[y] <= NGoroutines + RunqLen
  BY NumbersFit DEF Small
<1>2. IsFiniteSet(B) /\ Cardinality(B) = f[y]
  BY <1>1, OnePlace
<1>3. IsFiniteSet(S \ {y})
  BY FS_RemoveElement
<1>4. IsFiniteSet(A) /\ Cardinality(A) \in Nat
  BY <1>3, PlacesFinite
<1>5. Places(f, S) = A \cup B
  BY <1>1, NumbersFit DEF Places
<1>6. A \cap B = {}
  BY DEF Places
<1>7. Cardinality(A \cup B) = Cardinality(A) + Cardinality(B) - Cardinality(A \cap B)
  BY <1>2, <1>4, FS_Union
<1>8. Cardinality(A \cap B) = 0
  BY <1>6, FS_EmptySet
<1>9. QED  BY <1>1, <1>2, <1>4, <1>5, <1>7, <1>8

\* Only what the function is on S matters.
LEMMA PlacesSame ==
  ASSUME NEW f, NEW g, NEW S, \A x \in S : f[x] = g[x]
  PROVE  Places(f, S) = Places(g, S)
BY DEF Places

\* The function changes at one element.
LEMMA PlacesMove ==
  ASSUME NEW f, NEW g, NEW S, IsFiniteSet(S), NEW y \in S, Small(f, S), Small(g, S),
         \A x \in S \ {y} : g[x] = f[x]
  PROVE  Cardinality(Places(g, S)) = Cardinality(Places(f, S)) - f[y] + g[y]
<1>1. Places(f, S \ {y}) = Places(g, S \ {y})
  BY PlacesSame
<1>2. Cardinality(Places(f, S)) = Cardinality(Places(f, S \ {y})) + f[y]
  BY PlacesAdd
<1>3. Cardinality(Places(g, S)) = Cardinality(Places(g, S \ {y})) + g[y]
  BY PlacesAdd
<1>4. f[y] \in Nat /\ g[y] \in Nat
  BY NumbersFit DEF Small
<1>5. Cardinality(Places(f, S \ {y})) \in Nat
  BY FS_RemoveElement, PlacesFinite
<1>6. QED  BY <1>1, <1>2, <1>3, <1>4, <1>5

\* The function changes at two elements.
LEMMA PlacesMoveTwo ==
  ASSUME NEW f, NEW g, NEW S, IsFiniteSet(S), NEW y \in S, NEW z \in S, y # z, Small(f, S), Small(g, S),
         \A x \in S \ {y, z} : g[x] = f[x]
  PROVE  Cardinality(Places(g, S)) = Cardinality(Places(f, S)) - f[y] - f[z] + g[y] + g[z]
<1>1. IsFiniteSet(S \ {y}) /\ Small(f, S \ {y}) /\ Small(g, S \ {y}) /\ z \in S \ {y}
  BY FS_RemoveElement DEF Small
<1>2. Cardinality(Places(f, S)) = Cardinality(Places(f, S \ {y})) + f[y]
  BY PlacesAdd
<1>3. Cardinality(Places(g, S)) = Cardinality(Places(g, S \ {y})) + g[y]
  BY PlacesAdd
<1>4. Cardinality(Places(g, S \ {y})) = Cardinality(Places(f, S \ {y})) - f[z] + g[z]
  BY <1>1, PlacesMove
<1>5. {f[y], g[y], f[z], g[z]} \subseteq Nat
  BY NumbersFit DEF Small
<1>6. Cardinality(Places(f, S \ {y})) \in Nat
  BY <1>1, PlacesFinite
<1>7. QED  BY <1>2, <1>3, <1>4, <1>5, <1>6

\* Greater numbers, more places.
LEMMA PlacesMore ==
  ASSUME NEW f, NEW g, NEW S, IsFiniteSet(S), Small(f, S), Small(g, S), \A x \in S : f[x] <= g[x]
  PROVE  Cardinality(Places(f, S)) <= Cardinality(Places(g, S))
<1>1. Places(f, S) \subseteq Places(g, S)
  <2> SUFFICES ASSUME NEW t \in Places(f, S)  PROVE  t \in Places(g, S)
    OBVIOUS
  <2>1. /\ t \in S \X (1..(NGoroutines + RunqLen)) /\ t[2] <= f[t[1]]
    BY DEF Places
  <2>2. f[t[1]] <= g[t[1]] /\ f[t[1]] \in Nat /\ g[t[1]] \in Nat /\ t[2] \in Nat
    BY <2>1, NumbersFit DEF Small
  <2>3. QED  BY <2>1, <2>2 DEF Places
<1>2. QED  BY <1>1, PlacesFinite, FS_Subset

\* Without places every number is 0, and conversely.
LEMMA PlacesNone ==
  ASSUME NEW f, NEW S, IsFiniteSet(S), Small(f, S)
  PROVE  (Cardinality(Places(f, S)) = 0) <=> \A x \in S : f[x] = 0
<1>1. (Cardinality(Places(f, S)) = 0) <=> Places(f, S) = {}
  BY PlacesFinite, FS_EmptySet
<1>2. ASSUME Places(f, S) = {}, NEW x \in S  PROVE f[x] = 0
  <2>1. f[x] \in Nat /\ f[x] <= NGoroutines + RunqLen
    BY NumbersFit DEF Small
  <2>2. CASE f[x] > 0
    <3>1. <<x, 1>> \in Places(f, S)
      BY <2>1, <2>2, NumbersFit DEF Places
    <3>2. QED  BY <1>2, <3>1
  <2>3. QED  BY <2>1, <2>2
<1>3. ASSUME \A x \in S : f[x] = 0  PROVE Places(f, S) = {}
  BY <1>3, NumbersFit DEF Places
<1>4. QED  BY <1>1, <1>2, <1>3

\* No number is greater than all places together.
LEMMA PlacesBound ==
  ASSUME NEW f, NEW S, IsFiniteSet(S), NEW y \in S, Small(f, S)
  PROVE  f[y] <= Cardinality(Places(f, S))
<1>1. Cardinality(Places(f, S)) = Cardinality(Places(f, S \ {y})) + f[y]
  BY PlacesAdd
<1>2. f[y] \in Nat
  BY NumbersFit DEF Small
<1>3. Cardinality(Places(f, S \ {y})) \in Nat
  BY FS_RemoveElement, PlacesFinite
<1>4. QED  BY <1>1, <1>2, <1>3

USE DEF Go, Moves, Return, NoStart, NoGs, mvars, queues, idle, locals

-----------------------------------------------------------------------------
(* What has which type. *)

\* The types, but for the bounds that follow from NothingIsLost.
Control == mpc \in [Threads -> Locations] /\ ret \in [Threads -> Locations \cup {Nil}]
PsTyped ==
  /\ p \in [Ms -> Ps \cup {Nil}] /\ nextp \in [Ms -> Ps \cup {Nil}]
  /\ pidle \subseteq Ps /\ psyscall \subseteq Ps
  /\ hand \in [Threads -> Ps \cup {Nil}]
Starts == [p : Ps \cup {Nil}, m : Ms \cup {Nil}, spinning : BOOLEAN]
ThreadsTyped ==
  /\ start \in [Threads -> Starts]
  /\ spinning \subseteq Ms /\ midle \subseteq Ms
QueuesTyped == runq \in [Ps -> 0..RunqLen] /\ runqsize \in Nat /\ waiting \in Nat
ListsTyped ==
  /\ polling \in BOOLEAN /\ looked \in [Ms -> SUBSET Ps]
  /\ glist \in [Ms -> [n : 0..NGoroutines, rest : 0..NGoroutines]]
Loose == Control /\ PsTyped /\ ThreadsTyped /\ QueuesTyped /\ ListsTyped /\ nmspinning \in Nat /\ overlooked \in BOOLEAN

\* SchedTypeOK in parts.
LEMMA TypesFit == SchedTypeOK => Loose
<1>1. IsFiniteSet(Threads)
  BY SchedAssumption, FS_AddElement DEF Threads
<1>2. Cardinality(Threads) \in Nat
  BY <1>1, FS_CardinalityType
<1>3. QED  BY <1>2, NumbersFit DEF SchedTypeOK, Loose, Control, PsTyped, ThreadsTyped, Starts, QueuesTyped, ListsTyped

\* The monitor is a thread without a P.
LEMMA ThreadsFit ==
  /\ Ms \subseteq Threads /\ Sysmon \in Threads /\ Sysmon \notin Ms /\ Nil \notin Ms /\ Nil \notin Ps
  /\ \A t \in Threads : t \in Ms \/ t = Sysmon
BY SchedAssumption DEF Threads

\* All locations but the one that no thread reaches.
LEMMA LocationsListed ==
  /\ "none" \in Locations /\ "parked" \in Locations /\ "stopm" \in Locations /\ "sysmon" \in Locations
  /\ "schedule" \in Locations /\ "top" \in Locations /\ "spin" \in Locations /\ "spin2" \in Locations
  /\ "steal" \in Locations /\ "release" \in Locations /\ "unspin" \in Locations /\ "recheck" \in Locations
  /\ "recheck2" \in Locations /\ "respin" \in Locations /\ "netpoll" \in Locations /\ "polling" \in Locations
  /\ "polled" \in Locations /\ "inject" \in Locations /\ "inject2" \in Locations /\ "inject3" \in Locations
  /\ "wakep" \in Locations /\ "wakep2" \in Locations /\ "startm" \in Locations /\ "startm2" \in Locations
  /\ "startm3" \in Locations /\ "handoff" \in Locations /\ "handoff2" \in Locations /\ "handoff3" \in Locations
  /\ "found" \in Locations /\ "run" \in Locations /\ "syscall" \in Locations /\ "exit0" \in Locations
BY DEF Locations

\* Whoever returns somewhere knows where to.
LEMMA ReturnsFit ==
  ASSUME SchedInv, NEW t \in Threads, mpc[t] \in {"wakep", "wakep2", "startm", "startm2", "startm3", "parked", "polled"}
  PROVE  ret[t] \in Locations
<1>1. CASE t \in Ms
  BY <1>1, LocationsListed DEF SchedInv, RetFits
<1>2. CASE t = Sysmon
  BY <1>2, LocationsListed DEF SchedInv, RetFits, Handing
<1>3. QED  BY <1>1, <1>2 DEF Threads

\* Whoever is to stop spinning is counted.
LEMMA SpinnersPositive ==
  ASSUME SchedInv, Loose
  PROVE  /\ spinning # {} => nmspinning > 0
         /\ \A t \in Threads : start[t].spinning \/ mpc[t] = "startm3" => nmspinning > 0
<1> DEFINE T == {t \in Threads : start[t].spinning \/ mpc[t] = "startm3"}
<1>1. IsFiniteSet(Ms) /\ IsFiniteSet(Threads)
  BY SchedAssumption, FS_AddElement DEF Threads
<1>2. IsFiniteSet(spinning) /\ IsFiniteSet(T)
  BY <1>1, FS_Subset DEF Loose, ThreadsTyped, Starts
<1>3. /\ Cardinality(spinning) \in Nat /\ (Cardinality(spinning) = 0 <=> spinning = {})
      /\ Cardinality(T) \in Nat /\ (Cardinality(T) = 0 <=> T = {})
  BY <1>2, FS_CardinalityType, FS_EmptySet
<1>4. nmspinning = Cardinality(spinning) + Cardinality(T)
  BY DEF SchedInv, SpinnersCounted
<1>5. spinning # {} \/ T # {} => nmspinning > 0
  BY <1>3, <1>4
<1>6. QED  BY <1>5

\* Who has a P, who has one in his hands, and what startm is called with.
LEMMA PsFit ==
  ASSUME SchedInv, Loose
  PROVE  /\ \A m \in Ms : mpc[m] \in {"schedule", "top", "spin", "spin2", "steal", "release", "respin", "found", "run",
                                      "wakep", "wakep2"} => p[m] \in Ps
         /\ \A t \in Threads : mpc[t] \in {"handoff", "handoff2", "handoff3"} => hand[t] \in Ps
BY DEF SchedInv, PFits, WithP, StartFits, Handing, Loose, PsTyped, ThreadsTyped, Starts, QueuesTyped

\* The least of two or three numbers is one of them.
LEMMA LeastOfTwo ==
  ASSUME NEW a \in Nat, NEW b \in Nat
  PROVE  Min({a, b}) \in {a, b} /\ Min({a, b}) <= a /\ Min({a, b}) <= b
<1>1. \E x \in {a, b} : \A y \in {a, b} : x =< y
  OBVIOUS
<1>2. QED  BY <1>1 DEF Min

\* globrunqget takes the least of three or four numbers.
LEMMA LeastOfThree ==
  ASSUME NEW a \in Nat, NEW b \in Nat, NEW c \in Nat
  PROVE  LET S == {a, b, c} IN Min(S) \in S /\ Min(S) <= a /\ Min(S) <= b /\ Min(S) <= c
<1>1. \E x \in {a, b, c} : \A y \in {a, b, c} : x =< y
  <2>1. CASE a <= b /\ a <= c  BY <2>1
  <2>2. CASE b <= a /\ b <= c  BY <2>2
  <2>3. CASE c <= a /\ c <= b  BY <2>3
  <2>4. QED  BY <2>1, <2>2, <2>3
<1>2. QED  BY <1>1 DEF Min

\* The same, where one goroutine is asked for.
LEMMA LeastOfFour ==
  ASSUME NEW a \in Nat, NEW b \in Nat, NEW c \in Nat, NEW e \in Nat
  PROVE  LET S == {a, b, c} \cup {e} IN Min(S) \in S /\ Min(S) <= a /\ Min(S) <= b /\ Min(S) <= c /\ Min(S) <= e
<1> DEFINE S == {a, b, c} \cup {e}
<1>1. \E x \in S : \A y \in S : x =< y
  <2>1. PICK x \in {a, b, c} : x <= a /\ x <= b /\ x <= c
    <3>1. CASE a <= b /\ a <= c  BY <3>1
    <3>2. CASE b <= a /\ b <= c  BY <3>2
    <3>3. CASE c <= a /\ c <= b  BY <3>3
    <3>4. QED  BY <3>1, <3>2, <3>3
  <2>2. CASE x <= e  BY <2>1, <2>2
  <2>3. CASE e <= x  BY <2>1, <2>3
  <2>4. QED  BY <2>1, <2>2, <2>3
<1>2. QED  BY <1>1 DEF Min

\* What is left of the list when its first goroutine is run.
LEMMA GreatestOfTwo ==
  ASSUME NEW k \in Nat
  PROVE  Max({k - 1, 0}) = IF k = 0 THEN 0 ELSE k - 1
<1>1. k = 0 => \A x \in {k - 1, 0} : x <= 0
  OBVIOUS
<1>2. k > 0 => \A x \in {k - 1, 0} : x <= k - 1
  OBVIOUS
<1>3. \E x \in {k - 1, 0} : \A y \in {k - 1, 0} : x >= y
  BY <1>1, <1>2
<1>4. Max({k - 1, 0}) \in {k - 1, 0} /\ \A y \in {k - 1, 0} : Max({k - 1, 0}) >= y
  BY <1>3 DEF Max
<1>5. QED  BY <1>4

\* globrunqget takes at least one goroutine, and none too many for the queue.
LEMMA GlobrunqgetTakes ==
  ASSUME Loose, NEW q \in Ps, NEW max \in {0, 1}, globrunqget(q, max), max = 1 \/ runq[q] = 0
  PROVE  \E n \in 1..RunqLen :
           /\ n <= runqsize /\ (max = 1 => n = 1) /\ runq[q] + n - 1 \in 0..RunqLen
           /\ runqsize' = runqsize - n /\ runq' = [runq EXCEPT ![q] = @ + n - 1]
<1>1. gomaxprocs \in Nat /\ gomaxprocs > 0
  <2>1. IsFiniteSet(Ps) /\ Ps # {}
    BY SchedAssumption
  <2>2. QED  BY <2>1, FS_CardinalityType, FS_EmptySet DEF gomaxprocs
<1>2. runqsize \in Nat /\ runqsize > 0
  BY DEF globrunqget, Loose, PsTyped, ThreadsTyped, Starts, QueuesTyped
<1> DEFINE a == runqsize \div gomaxprocs + 1
           c == RunqLen \div 2
<1>3. a \in Nat /\ a > 0
  BY <1>1, <1>2
<1>4. RunqLen \in Nat /\ c \in Nat /\ c > 0 /\ c <= RunqLen
  BY SchedAssumption
<1> DEFINE n == Min(IF max > 0 THEN {a, runqsize, c} \cup {max} ELSE {a, runqsize, c})
<1>5. n \in Nat /\ n > 0 /\ n <= runqsize /\ n <= c /\ (max = 1 => n <= 1)
  <2>1. CASE max = 0
    <3>1. n = Min({a, runqsize, c})
      BY <2>1
    <3> HIDE DEF a, c, n
    <3>2. QED  BY <2>1, <3>1, <1>2, <1>3, <1>4, LeastOfThree
  <2>2. CASE max = 1
    <3> HIDE DEF a, c
    <3>1. max > 0
      BY <2>2
    <3>2. n = Min({a, runqsize, c} \cup {max})
      BY <3>1
    <3> HIDE DEF n
    <3>3. QED  BY <2>2, <3>2, <1>2, <1>3, <1>4, LeastOfFour
  <2>3. QED  BY <2>1, <2>2
<1>6. runqsize' = runqsize - n /\ runq' = [runq EXCEPT ![q] = @ + n - 1]
  BY DEF globrunqget
<1>7. runq[q] \in 0..RunqLen
  BY DEF Loose, QueuesTyped
<1> HIDE DEF n, c
<1>8. n \in 1..RunqLen /\ runq[q] + n - 1 \in 0..RunqLen
  BY <1>4, <1>5, <1>7
<1>9. max = 1 => n = 1
  BY <1>5
<1>10. QED  BY <1>5, <1>6, <1>8, <1>9

\* runqsteal moves at least one goroutine to an empty queue.
LEMMA RunqstealMoves ==
  ASSUME Loose, NEW q \in Ps, NEW r \in Ps, q # r, runqsteal(q, r), runq[q] = 0
  PROVE  \E n \in 1..RunqLen :
           /\ n <= runq[r] /\ runqsize' = runqsize
           /\ runq' = [runq EXCEPT ![r] = @ - n, ![q] = n - 1]
<1> DEFINE n == runq[r] - runq[r] \div 2
<1>1. runq[r] \in 0..RunqLen /\ RunqLen \in Nat /\ runq[r] > 0
  BY NumbersFit DEF Loose, QueuesTyped, runqsteal
<1>2. n \in 1..RunqLen /\ n <= runq[r]
  BY <1>1
<1>3. runq' = [runq EXCEPT ![r] = @ - n, ![q] = @ + n - 1] /\ runqsize' = runqsize
  BY DEF runqsteal
<1> HIDE DEF n
<1>4. runq' = [runq EXCEPT ![r] = @ - n, ![q] = n - 1]
  BY <1>2, <1>3 DEF Loose, QueuesTyped
<1>5. QED  BY <1>2, <1>3, <1>4

\* runqput puts one goroutine in, or takes some more out to the global queue.
LEMMA RunqputPuts ==
  ASSUME Loose, NEW q \in Ps, runqput(q)
  PROVE  \/ /\ runq[q] < RunqLen /\ runqsize' = runqsize
            /\ runq' = [runq EXCEPT ![q] = @ + 1]
         \/ \E n \in 1..RunqLen :
              /\ n <= runq[q] /\ runqsize' = runqsize + n + 1
              /\ runq' = [runq EXCEPT ![q] = @ - n]
<1>1. RunqLen \in Nat /\ RunqLen \div 2 \in Nat /\ RunqLen \div 2 > 0 /\ RunqLen \div 2 <= RunqLen
  BY SchedAssumption
<1>2. runq[q] \in 0..RunqLen
  BY DEF Loose, QueuesTyped
<1>3. CASE runq[q] < RunqLen
  BY <1>3 DEF runqput
<1>4. CASE ~(runq[q] < RunqLen)
  <2> DEFINE h == RunqLen \div 2
  <2>1. runq' = [runq EXCEPT ![q] = @ - h] /\ runqsize' = runqsize + h + 1
    BY <1>4 DEF runqput
  <2> HIDE DEF h
  <2>2. h \in 1..RunqLen /\ h <= runq[q]
    BY <1>1, <1>2, <1>4 DEF h
  <2>3. QED  BY <2>1, <2>2
<1>5. QED  BY <1>3, <1>4

\* startm does not throw.
LEMMA StartmWakes ==
  ASSUME SchedInv, Loose, NEW t \in Threads, StartmWake(t)
  PROVE  /\ start[t].m \in Ms /\ start[t].p \in Ps /\ start[t].m # t
         /\ start[t].m \notin spinning /\ nextp[start[t].m] = Nil
         /\ mpc[t] = "startm2" /\ ret[t] \in Locations
         /\ mpc' = [mpc EXCEPT ![t] = ret[t], ![start[t].m] = "parked"]
         /\ spinning' = IF start[t].spinning THEN spinning \cup {start[t].m} ELSE spinning
         /\ nextp' = [nextp EXCEPT ![start[t].m] = start[t].p]
         /\ start' = [start EXCEPT ![t] = NoStart]
         /\ ret' = [ret EXCEPT ![t] = Nil]
<1>1. mpc[t] = "startm2"
  BY DEF StartmWake
<1>2. start[t].m \in Ms /\ start[t].p \in Ps
  BY <1>1 DEF SchedInv, StartFits, Loose, PsTyped, ThreadsTyped, Starts, QueuesTyped
<1>3. mpc[start[t].m] \in {"none", "parked"} /\ nextp[start[t].m] = Nil
  BY <1>2 DEF SchedInv, IdleFits
<1>4. start[t].m \notin spinning /\ start[t].m # t
  BY <1>1, <1>2, <1>3 DEF SchedInv, SpinFits
<1>5. start[t].spinning => runq[start[t].p] = 0
  BY <1>2, ThreadsFit DEF SchedInv, EmptyFits
<1>6. ret[t] \in Locations
  BY <1>1, ReturnsFit
<1>7. QED  BY <1>1, <1>2, <1>3, <1>4, <1>5, <1>6 DEF StartmWake

\* A thread that releases its P has no local work, and does not throw.
LEMMA ReturnPForm ==
  ASSUME SchedInv, Loose, NEW m \in Ms, ReturnP(m)
  PROVE  /\ mpc[m] = "release" /\ p[m] \in Ps /\ runq[p[m]] = 0
         /\ \/ /\ runqsize > 0 /\ GotG(m)
               /\ globrunqget(p[m], 0) /\ UNCHANGED <<pidle, p, ret, overlooked>>
            \/ /\ ~(runqsize > 0) /\ Go(m, IF m \in spinning THEN "unspin" ELSE "netpoll")
               /\ pidle' = pidle \cup {p[m]}
               /\ p' = [p EXCEPT ![m] = Nil]
               /\ overlooked' = (overlooked \/ (m \notin spinning /\ LocalWork))
               /\ ret' = [ret EXCEPT ![m] = IF m \in spinning THEN "respin" ELSE "top"]
               /\ UNCHANGED <<runq, runqsize>>
         /\ UNCHANGED <<nextp, spinning, nmspinning, midle, psyscall, waiting, polling, hand, start, looked, glist>>
<1>1. mpc[m] = "release"
  BY DEF ReturnP
<1>2. p[m] \in Ps
  BY <1>1, PsFit
<1>3. runq[p[m]] = 0
  BY <1>1 DEF SchedInv, EmptyFits
<1>4. QED  BY <1>1, <1>2, <1>3 DEF ReturnP

\* A thread that spins has no local work in schedule, and does not throw.
LEMMA RunqGetForm ==
  ASSUME SchedInv, Loose, NEW m \in Ms, RunqGet(m)
  PROVE  /\ mpc[m] \in {"schedule", "top"} /\ p[m] \in Ps
         /\ \/ /\ runq[p[m]] > 0 /\ GotG(m)
               /\ m \in spinning => mpc[m] = "top"
               /\ runq' = [runq EXCEPT ![p[m]] = @ - 1] /\ UNCHANGED runqsize
            \/ runq[p[m]] = 0 /\ runqsize > 0 /\ globrunqget(p[m], 0) /\ GotG(m)
            \/ runq[p[m]] = 0 /\ ~(runqsize > 0) /\ Go(m, "spin") /\ UNCHANGED <<runq, runqsize>>
         /\ UNCHANGED <<mvars, nmspinning, idle, psyscall, waiting, polling, locals, overlooked>>
<1>1. mpc[m] \in {"schedule", "top"}
  BY DEF RunqGet
<1>2. p[m] \in Ps
  BY <1>1, PsFit
<1>3. runq[p[m]] \in Nat
  BY <1>2, NumbersFit DEF Loose, QueuesTyped
<1>4. mpc[m] = "schedule" /\ m \in spinning => runq[p[m]] = 0
  BY DEF SchedInv, EmptyFits
<1>5. QED  BY <1>1, <1>2, <1>3, <1>4 DEF RunqGet

\* Every step keeps the types of the control.
LEMMA NextControl ==
  ASSUME SchedInv, Loose, [SchedNext]_svars
  PROVE  Control'
<1>0. Control
  BY DEF Loose
<1> USE LocationsListed, ThreadsFit, <1>0 DEF Control
<1>1. ASSUME NEW t \in Threads, WakepIdle(t)  PROVE Control'
  BY <1>1, ReturnsFit DEF WakepIdle
<1>2. ASSUME NEW t \in Threads, Wakep(t)  PROVE Control'
  BY <1>2, ReturnsFit DEF Wakep, CallStartm
<1>3. ASSUME NEW t \in Threads, Startm(t)  PROVE Control'
  BY <1>3 DEF Startm
<1>4. ASSUME NEW t \in Threads, StartmFails(t)  PROVE Control'
  BY <1>4, ReturnsFit DEF StartmFails
<1>5. ASSUME NEW t \in Threads, StartmUndo(t)  PROVE Control'
  BY <1>5, ReturnsFit DEF StartmUndo
<1>6. ASSUME NEW t \in Threads, StartmWake(t)  PROVE Control'
  BY <1>6, StartmWakes DEF StartmWake
<1>7. ASSUME NEW t \in Threads, Handoff(t)  PROVE Control'
  BY <1>7 DEF Handoff, StartFor, CallStartm, HandedOff
<1>8. ASSUME NEW t \in Threads, HandoffSpin(t)  PROVE Control'
  BY <1>8 DEF HandoffSpin, StartFor, CallStartm, HandedOff
<1>9. ASSUME NEW t \in Threads, HandoffIdle(t)  PROVE Control'
  BY <1>9 DEF HandoffIdle, StartFor, CallStartm, HandedOff
<1>10. ASSUME NEW m \in Ms, Unpark(m)  PROVE Control'
  BY <1>10, ReturnsFit DEF Unpark
<1>11. ASSUME NEW m \in Ms, Stopm(m)  PROVE Control'
  BY <1>11 DEF Stopm
<1>12. ASSUME NEW m \in Ms, Resetspinning(m)  PROVE Control'
  BY <1>12 DEF Resetspinning, StopSpinning
<1>13. ASSUME NEW m \in Ms, Exit0(m)  PROVE Control'
  BY <1>13 DEF Exit0, GetP
<1>14. ASSUME NEW m \in Ms, ScheduleGlobal(m)  PROVE Control'
  BY <1>14 DEF ScheduleGlobal, GotG
<1>15. ASSUME NEW m \in Ms, RunqGet(m)  PROVE Control'
  BY <1>15, RunqGetForm DEF GotG
<1>16. ASSUME NEW m \in Ms, Spin(m)  PROVE Control'
  BY <1>16 DEF Spin
<1>17. ASSUME NEW m \in Ms, StartSpinning(m, "spin2", "steal")  PROVE Control'
  BY <1>17 DEF StartSpinning
<1>18. ASSUME NEW m \in Ms, Steal(m)  PROVE Control'
  BY <1>18 DEF Steal, runqsteal, GotG
<1>19. ASSUME NEW m \in Ms, StealNothing(m)  PROVE Control'
  BY <1>19 DEF StealNothing, Passed
<1>20. ASSUME NEW m \in Ms, ReturnP(m)  PROVE Control'
  BY <1>20, ReturnPForm DEF GotG
<1>21. ASSUME NEW m \in Ms, Unspin(m)  PROVE Control'
  BY <1>21 DEF Unspin, StopSpinning
<1>22. ASSUME NEW m \in Ms, Recheck(m)  PROVE Control'
  BY <1>22 DEF Recheck, Passed
<1>23. ASSUME NEW m \in Ms, RecheckP(m)  PROVE Control'
  BY <1>23 DEF RecheckP, GetP
<1>24. ASSUME NEW m \in Ms, StartSpinning(m, "respin", "top")  PROVE Control'
  BY <1>24 DEF StartSpinning
<1>25. ASSUME NEW m \in Ms, Netpoll(m)  PROVE Control'
  BY <1>25 DEF Netpoll
<1>26. ASSUME NEW m \in Ms, PolledP(m)  PROVE Control'
  <2>1. mpc[m] = "polled" /\ ret[m] \in Locations
    BY <1>26, ReturnsFit DEF PolledP
  <2>2. QED  BY <1>26, <2>1 DEF PolledP, GetP
<1>27. ASSUME NEW m \in Ms, Inject(m)  PROVE Control'
  BY <1>27 DEF Inject
<1>28. ASSUME NEW m \in Ms, InjectGlobal(m)  PROVE Control'
  BY <1>28 DEF InjectGlobal
<1>29. ASSUME NEW m \in Ms, StartIdle(m)  PROVE Control'
  BY <1>29 DEF StartIdle, CallStartm
<1>30. ASSUME NEW m \in Ms, InjectLocal(m)  PROVE Control'
  BY <1>30 DEF InjectLocal
<1>31. ASSUME NEW m \in Ms, Goready(m)  PROVE Control'
  BY <1>31 DEF Goready, CallWakep, runqput
<1>32. ASSUME NEW m \in Ms, Park(m)  PROVE Control'
  BY <1>32 DEF Park
<1>33. ASSUME NEW m \in Ms, Gosched(m)  PROVE Control'
  BY <1>33 DEF Gosched
<1>34. ASSUME NEW m \in Ms, Entersyscall(m)  PROVE Control'
  BY <1>34 DEF Entersyscall
<1>35. ASSUME NEW m \in Ms, Entersyscallblock(m)  PROVE Control'
  BY <1>35 DEF Entersyscallblock
<1>36. ASSUME NEW m \in Ms, Exitsyscall(m)  PROVE Control'
  BY <1>36 DEF Exitsyscall
<1>37. ASSUME NEW m \in Ms, Polled(m)  PROVE Control'
  BY <1>37 DEF Polled
<1>38. ASSUME Retake  PROVE Control'
  BY <1>38 DEF Retake
<1>39. CASE UNCHANGED svars
  BY <1>39 DEF svars
<1>40. QED
  BY <1>1, <1>2, <1>3, <1>4, <1>5, <1>6, <1>7, <1>8, <1>9, <1>10, <1>11, <1>12, <1>13, <1>14,
     <1>15, <1>16, <1>17, <1>18, <1>19, <1>20, <1>21, <1>22, <1>23, <1>24, <1>25, <1>26, <1>27, <1>28,
     <1>29, <1>30, <1>31, <1>32, <1>33, <1>34, <1>35, <1>36, <1>37, <1>38, <1>39 DEF SchedNext, Step, MStep, Environment

\* Every step keeps the types of what holds the Ps.
LEMMA NextPs ==
  ASSUME SchedInv, Loose, [SchedNext]_svars
  PROVE  PsTyped'
<1>0. Control /\ PsTyped /\ ThreadsTyped
  BY DEF Loose
<1> USE ThreadsFit, <1>0 DEF PsTyped
<1>1. ASSUME NEW t \in Threads, WakepIdle(t)  PROVE PsTyped'
  BY <1>1, PsFit DEF WakepIdle
<1>2. ASSUME NEW t \in Threads, Wakep(t)  PROVE PsTyped'
  BY <1>2, PsFit DEF Wakep, CallStartm
<1>3. ASSUME NEW t \in Threads, Startm(t)  PROVE PsTyped'
  BY <1>3, PsFit DEF Startm
<1>4. ASSUME NEW t \in Threads, StartmFails(t)  PROVE PsTyped'
  BY <1>4, PsFit DEF StartmFails
<1>5. ASSUME NEW t \in Threads, StartmUndo(t)  PROVE PsTyped'
  BY <1>5, PsFit DEF StartmUndo
<1>6. ASSUME NEW t \in Threads, StartmWake(t)  PROVE PsTyped'
  BY <1>6, StartmWakes DEF StartmWake
<1>7. ASSUME NEW t \in Threads, Handoff(t)  PROVE PsTyped'
  BY <1>7, PsFit DEF Handoff, StartFor, CallStartm, HandedOff
<1>8. ASSUME NEW t \in Threads, HandoffSpin(t)  PROVE PsTyped'
  BY <1>8, PsFit DEF HandoffSpin, StartFor, CallStartm, HandedOff
<1>9. ASSUME NEW t \in Threads, HandoffIdle(t)  PROVE PsTyped'
  BY <1>9, PsFit DEF HandoffIdle, StartFor, CallStartm, HandedOff
<1>10. ASSUME NEW m \in Ms, Unpark(m)  PROVE PsTyped'
  BY <1>10, PsFit DEF Unpark
<1>11. ASSUME NEW m \in Ms, Stopm(m)  PROVE PsTyped'
  BY <1>11, PsFit DEF Stopm
<1>12. ASSUME NEW m \in Ms, Resetspinning(m)  PROVE PsTyped'
  BY <1>12, PsFit DEF Resetspinning, StopSpinning
<1>13. ASSUME NEW m \in Ms, Exit0(m)  PROVE PsTyped'
  BY <1>13, PsFit DEF Exit0, GetP
<1>14. ASSUME NEW m \in Ms, ScheduleGlobal(m)  PROVE PsTyped'
  BY <1>14 DEF ScheduleGlobal, CallWakep
<1>15. ASSUME NEW m \in Ms, RunqGet(m)  PROVE PsTyped'
  BY <1>15, RunqGetForm
<1>16. ASSUME NEW m \in Ms, Spin(m)  PROVE PsTyped'
  BY <1>16, PsFit DEF Spin
<1>17. ASSUME NEW m \in Ms, StartSpinning(m, "spin2", "steal")  PROVE PsTyped'
  BY <1>17, PsFit DEF StartSpinning
<1>18. ASSUME NEW m \in Ms, Steal(m)  PROVE PsTyped'
  BY <1>18 DEF Steal, CallWakep
<1>19. ASSUME NEW m \in Ms, StealNothing(m)  PROVE PsTyped'
  BY <1>19 DEF StealNothing, CallWakep
<1>20. ASSUME NEW m \in Ms, ReturnP(m)  PROVE PsTyped'
  BY <1>20, ReturnPForm
<1>21. ASSUME NEW m \in Ms, Unspin(m)  PROVE PsTyped'
  BY <1>21, PsFit DEF Unspin, StopSpinning
<1>22. ASSUME NEW m \in Ms, Recheck(m)  PROVE PsTyped'
  BY <1>22 DEF Recheck, CallWakep
<1>23. ASSUME NEW m \in Ms, RecheckP(m)  PROVE PsTyped'
  BY <1>23, PsFit DEF RecheckP, GetP
<1>24. ASSUME NEW m \in Ms, StartSpinning(m, "respin", "top")  PROVE PsTyped'
  BY <1>24, PsFit DEF StartSpinning
<1>25. ASSUME NEW m \in Ms, Netpoll(m)  PROVE PsTyped'
  BY <1>25, PsFit DEF Netpoll
<1>26. ASSUME NEW m \in Ms, PolledP(m)  PROVE PsTyped'
  BY <1>26, PsFit DEF PolledP, GetP
<1>27. ASSUME NEW m \in Ms, Inject(m)  PROVE PsTyped'
  BY <1>27 DEF Inject, CallWakep
<1>28. ASSUME NEW m \in Ms, InjectGlobal(m)  PROVE PsTyped'
  BY <1>28 DEF InjectGlobal, CallWakep
<1>29. ASSUME NEW m \in Ms, StartIdle(m)  PROVE PsTyped'
  BY <1>29, PsFit DEF StartIdle, CallStartm
<1>30. ASSUME NEW m \in Ms, InjectLocal(m)  PROVE PsTyped'
  BY <1>30 DEF InjectLocal, CallWakep
<1>31. ASSUME NEW m \in Ms, Goready(m)  PROVE PsTyped'
  BY <1>31 DEF Goready, CallWakep
<1>32. ASSUME NEW m \in Ms, Park(m)  PROVE PsTyped'
  BY <1>32, PsFit DEF Park
<1>33. ASSUME NEW m \in Ms, Gosched(m)  PROVE PsTyped'
  BY <1>33, PsFit DEF Gosched
<1>34. ASSUME NEW m \in Ms, Entersyscall(m)  PROVE PsTyped'
  BY <1>34, PsFit DEF Entersyscall
<1>35. ASSUME NEW m \in Ms, Entersyscallblock(m)  PROVE PsTyped'
  BY <1>35, PsFit DEF Entersyscallblock
<1>36. ASSUME NEW m \in Ms, Exitsyscall(m)  PROVE PsTyped'
  BY <1>36, PsFit DEF Exitsyscall
<1>37. ASSUME NEW m \in Ms, Polled(m)  PROVE PsTyped'
  BY <1>37, PsFit DEF Polled
<1>38. ASSUME Retake  PROVE PsTyped'
  BY <1>38, PsFit DEF Retake
<1>39. CASE UNCHANGED svars
  BY <1>39 DEF svars
<1>40. QED
  BY <1>1, <1>2, <1>3, <1>4, <1>5, <1>6, <1>7, <1>8, <1>9, <1>10, <1>11, <1>12, <1>13, <1>14,
     <1>15, <1>16, <1>17, <1>18, <1>19, <1>20, <1>21, <1>22, <1>23, <1>24, <1>25, <1>26, <1>27, <1>28,
     <1>29, <1>30, <1>31, <1>32, <1>33, <1>34, <1>35, <1>36, <1>37, <1>38, <1>39 DEF SchedNext, Step, MStep, Environment

\* Every step keeps the types of what concerns threads.
LEMMA NextThreads ==
  ASSUME SchedInv, Loose, [SchedNext]_svars
  PROVE  ThreadsTyped'
<1>0. Control /\ PsTyped /\ ThreadsTyped
  BY DEF Loose
<1>00. NoStart \in Starts
  BY DEF Starts
<1> USE ThreadsFit, <1>0, <1>00 DEF ThreadsTyped
<1>1. ASSUME NEW t \in Threads, WakepIdle(t)  PROVE ThreadsTyped'
  BY <1>1 DEF WakepIdle
<1>2. ASSUME NEW t \in Threads, Wakep(t)  PROVE ThreadsTyped'
  <2> DEFINE args == [p |-> Nil, m |-> Nil, spinning |-> TRUE]
  <2>1. args \in Starts
    BY DEF Starts
  <2>2. start' = start \/ start' = [start EXCEPT ![t] = args]
    BY <1>2 DEF Wakep, CallStartm
  <2>3. spinning' = spinning /\ midle' = midle
    BY <1>2 DEF Wakep
  <2> HIDE DEF args
  <2>4. QED  BY <2>1, <2>2, <2>3
<1>3. ASSUME NEW t \in Threads, Startm(t)  PROVE ThreadsTyped'
  <2>1. PICK q \in Ps \cup {Nil}, m \in Ms : /\ midle' = midle \ {m}
                                             /\ start' = [start EXCEPT ![t] = [@ EXCEPT !.p = q, !.m = m]]
    BY <1>3, <1>0 DEF Startm, PsTyped, Starts
  <2> DEFINE args == [start[t] EXCEPT !.p = q, !.m = m]
  <2>2. args \in Starts
    BY DEF Starts
  <2>3. spinning' = spinning /\ start' = [start EXCEPT ![t] = args]
    BY <1>3, <2>1 DEF Startm
  <2> HIDE DEF args
  <2>4. QED  BY <2>1, <2>2, <2>3
<1>4. ASSUME NEW t \in Threads, StartmFails(t)  PROVE ThreadsTyped'
  BY <1>4 DEF StartmFails
<1>5. ASSUME NEW t \in Threads, StartmUndo(t)  PROVE ThreadsTyped'
  BY <1>5 DEF StartmUndo
<1>6. ASSUME NEW t \in Threads, StartmWake(t)  PROVE ThreadsTyped'
  <2>1. /\ start[t].m \in Ms /\ start' = [start EXCEPT ![t] = NoStart]
        /\ spinning' = IF start[t].spinning THEN spinning \cup {start[t].m} ELSE spinning
    BY <1>6, StartmWakes
  <2>2. midle' = midle
    BY <1>6 DEF StartmWake
  <2>3. QED  BY <2>1, <2>2
<1>7. ASSUME NEW t \in Threads, Handoff(t)  PROVE ThreadsTyped'
  <2> DEFINE args(spin) == [p |-> hand[t], m |-> Nil, spinning |-> spin]
  <2>1. args(TRUE) \in Starts /\ args(FALSE) \in Starts
    BY DEF PsTyped, Starts
  <2>2. start' = start \/ start' = [start EXCEPT ![t] = args(FALSE)] \/ start' = [start EXCEPT ![t] = args(TRUE)]
    BY <1>7 DEF Handoff, StartFor, CallStartm, HandedOff
  <2>3. spinning' = spinning /\ midle' = midle
    BY <1>7 DEF Handoff, StartFor, CallStartm, HandedOff
  <2> HIDE DEF args
  <2>4. QED  BY <2>1, <2>2, <2>3
<1>8. ASSUME NEW t \in Threads, HandoffSpin(t)  PROVE ThreadsTyped'
  <2> DEFINE args(spin) == [p |-> hand[t], m |-> Nil, spinning |-> spin]
  <2>1. args(TRUE) \in Starts /\ args(FALSE) \in Starts
    BY DEF PsTyped, Starts
  <2>2. start' = start \/ start' = [start EXCEPT ![t] = args(FALSE)] \/ start' = [start EXCEPT ![t] = args(TRUE)]
    BY <1>8 DEF HandoffSpin, StartFor, CallStartm, HandedOff
  <2>3. spinning' = spinning /\ midle' = midle
    BY <1>8 DEF HandoffSpin, StartFor, CallStartm, HandedOff
  <2> HIDE DEF args
  <2>4. QED  BY <2>1, <2>2, <2>3
<1>9. ASSUME NEW t \in Threads, HandoffIdle(t)  PROVE ThreadsTyped'
  <2> DEFINE args(spin) == [p |-> hand[t], m |-> Nil, spinning |-> spin]
  <2>1. args(TRUE) \in Starts /\ args(FALSE) \in Starts
    BY DEF PsTyped, Starts
  <2>2. start' = start \/ start' = [start EXCEPT ![t] = args(FALSE)] \/ start' = [start EXCEPT ![t] = args(TRUE)]
    BY <1>9 DEF HandoffIdle, StartFor, CallStartm, HandedOff
  <2>3. spinning' = spinning /\ midle' = midle
    BY <1>9 DEF HandoffIdle, StartFor, CallStartm, HandedOff
  <2> HIDE DEF args
  <2>4. QED  BY <2>1, <2>2, <2>3
<1>10. ASSUME NEW m \in Ms, Unpark(m)  PROVE ThreadsTyped'
  BY <1>10 DEF Unpark
<1>11. ASSUME NEW m \in Ms, Stopm(m)  PROVE ThreadsTyped'
  BY <1>11 DEF Stopm
<1>12. ASSUME NEW m \in Ms, Resetspinning(m)  PROVE ThreadsTyped'
  BY <1>12 DEF Resetspinning, StopSpinning
<1>13. ASSUME NEW m \in Ms, Exit0(m)  PROVE ThreadsTyped'
  BY <1>13 DEF Exit0, GetP
<1>14. ASSUME NEW m \in Ms, ScheduleGlobal(m)  PROVE ThreadsTyped'
  BY <1>14 DEF ScheduleGlobal, CallWakep
<1>15. ASSUME NEW m \in Ms, RunqGet(m)  PROVE ThreadsTyped'
  BY <1>15, RunqGetForm
<1>16. ASSUME NEW m \in Ms, Spin(m)  PROVE ThreadsTyped'
  BY <1>16 DEF Spin
<1>17. ASSUME NEW m \in Ms, StartSpinning(m, "spin2", "steal")  PROVE ThreadsTyped'
  BY <1>17 DEF StartSpinning
<1>18. ASSUME NEW m \in Ms, Steal(m)  PROVE ThreadsTyped'
  BY <1>18 DEF Steal, CallWakep
<1>19. ASSUME NEW m \in Ms, StealNothing(m)  PROVE ThreadsTyped'
  BY <1>19 DEF StealNothing, CallWakep
<1>20. ASSUME NEW m \in Ms, ReturnP(m)  PROVE ThreadsTyped'
  BY <1>20, ReturnPForm
<1>21. ASSUME NEW m \in Ms, Unspin(m)  PROVE ThreadsTyped'
  BY <1>21 DEF Unspin, StopSpinning
<1>22. ASSUME NEW m \in Ms, Recheck(m)  PROVE ThreadsTyped'
  BY <1>22 DEF Recheck, CallWakep
<1>23. ASSUME NEW m \in Ms, RecheckP(m)  PROVE ThreadsTyped'
  BY <1>23 DEF RecheckP, GetP
<1>24. ASSUME NEW m \in Ms, StartSpinning(m, "respin", "top")  PROVE ThreadsTyped'
  BY <1>24 DEF StartSpinning
<1>25. ASSUME NEW m \in Ms, Netpoll(m)  PROVE ThreadsTyped'
  BY <1>25 DEF Netpoll
<1>26. ASSUME NEW m \in Ms, PolledP(m)  PROVE ThreadsTyped'
  BY <1>26 DEF PolledP, GetP
<1>27. ASSUME NEW m \in Ms, Inject(m)  PROVE ThreadsTyped'
  BY <1>27 DEF Inject, CallWakep
<1>28. ASSUME NEW m \in Ms, InjectGlobal(m)  PROVE ThreadsTyped'
  BY <1>28 DEF InjectGlobal, CallWakep
<1>29. ASSUME NEW m \in Ms, StartIdle(m)  PROVE ThreadsTyped'
  BY <1>29 DEF StartIdle, CallStartm
<1>30. ASSUME NEW m \in Ms, InjectLocal(m)  PROVE ThreadsTyped'
  BY <1>30 DEF InjectLocal, CallWakep
<1>31. ASSUME NEW m \in Ms, Goready(m)  PROVE ThreadsTyped'
  BY <1>31 DEF Goready, CallWakep
<1>32. ASSUME NEW m \in Ms, Park(m)  PROVE ThreadsTyped'
  BY <1>32 DEF Park
<1>33. ASSUME NEW m \in Ms, Gosched(m)  PROVE ThreadsTyped'
  BY <1>33 DEF Gosched
<1>34. ASSUME NEW m \in Ms, Entersyscall(m)  PROVE ThreadsTyped'
  BY <1>34 DEF Entersyscall
<1>35. ASSUME NEW m \in Ms, Entersyscallblock(m)  PROVE ThreadsTyped'
  BY <1>35 DEF Entersyscallblock
<1>36. ASSUME NEW m \in Ms, Exitsyscall(m)  PROVE ThreadsTyped'
  BY <1>36 DEF Exitsyscall
<1>37. ASSUME NEW m \in Ms, Polled(m)  PROVE ThreadsTyped'
  BY <1>37 DEF Polled
<1>38. ASSUME Retake  PROVE ThreadsTyped'
  BY <1>38 DEF Retake
<1>39. CASE UNCHANGED svars
  BY <1>39 DEF svars
<1>40. QED
  BY <1>1, <1>2, <1>3, <1>4, <1>5, <1>6, <1>7, <1>8, <1>9, <1>10, <1>11, <1>12, <1>13, <1>14,
     <1>15, <1>16, <1>17, <1>18, <1>19, <1>20, <1>21, <1>22, <1>23, <1>24, <1>25, <1>26, <1>27, <1>28,
     <1>29, <1>30, <1>31, <1>32, <1>33, <1>34, <1>35, <1>36, <1>37, <1>38, <1>39 DEF SchedNext, Step, MStep, Environment

\* Every step keeps the types of the queues.
LEMMA NextQueues ==
  ASSUME SchedInv, Loose, [SchedNext]_svars
  PROVE  QueuesTyped'
<1>0. Control /\ PsTyped /\ QueuesTyped /\ ListsTyped
  BY DEF Loose
<1> USE NumbersFit, ThreadsFit, <1>0 DEF QueuesTyped
<1>1. ASSUME NEW t \in Threads, WakepIdle(t)  PROVE QueuesTyped'
  BY <1>1 DEF WakepIdle
<1>2. ASSUME NEW t \in Threads, Wakep(t)  PROVE QueuesTyped'
  BY <1>2 DEF Wakep, CallStartm
<1>3. ASSUME NEW t \in Threads, Startm(t)  PROVE QueuesTyped'
  BY <1>3 DEF Startm
<1>4. ASSUME NEW t \in Threads, StartmFails(t)  PROVE QueuesTyped'
  BY <1>4 DEF StartmFails
<1>5. ASSUME NEW t \in Threads, StartmUndo(t)  PROVE QueuesTyped'
  BY <1>5 DEF StartmUndo
<1>6. ASSUME NEW t \in Threads, StartmWake(t)  PROVE QueuesTyped'
  BY <1>6 DEF StartmWake
<1>7. ASSUME NEW t \in Threads, Handoff(t)  PROVE QueuesTyped'
  BY <1>7 DEF Handoff, StartFor, CallStartm, HandedOff
<1>8. ASSUME NEW t \in Threads, HandoffSpin(t)  PROVE QueuesTyped'
  BY <1>8 DEF HandoffSpin, StartFor, CallStartm, HandedOff
<1>9. ASSUME NEW t \in Threads, HandoffIdle(t)  PROVE QueuesTyped'
  BY <1>9 DEF HandoffIdle, StartFor, CallStartm, HandedOff
<1>10. ASSUME NEW m \in Ms, Unpark(m)  PROVE QueuesTyped'
  BY <1>10 DEF Unpark
<1>11. ASSUME NEW m \in Ms, Stopm(m)  PROVE QueuesTyped'
  BY <1>11 DEF Stopm
<1>12. ASSUME NEW m \in Ms, Resetspinning(m)  PROVE QueuesTyped'
  BY <1>12 DEF Resetspinning, StopSpinning
<1>13. ASSUME NEW m \in Ms, Exit0(m)  PROVE QueuesTyped'
  BY <1>13 DEF Exit0, GetP
<1>14. ASSUME NEW m \in Ms, ScheduleGlobal(m)  PROVE QueuesTyped'
  <2>1. mpc[m] = "schedule" /\ p[m] \in Ps
    BY <1>14, PsFit DEF ScheduleGlobal
  <2>2. PICK n \in 1..RunqLen : /\ n <= runqsize /\ n = 1 /\ runqsize' = runqsize - n
                                /\ runq' = [runq EXCEPT ![p[m]] = @ + n - 1]
    BY <1>14, <2>1, GlobrunqgetTakes DEF ScheduleGlobal
  <2>3. waiting' = waiting
    BY <1>14 DEF ScheduleGlobal
  <2>4. QED  BY <2>1, <2>2, <2>3
<1>15. ASSUME NEW m \in Ms, RunqGet(m)  PROVE QueuesTyped'
  <2>1. mpc[m] \in {"schedule", "top"} /\ p[m] \in Ps /\ waiting' = waiting
    BY <1>15, RunqGetForm
  <2>2. CASE runq[p[m]] > 0
    BY <1>15, <2>1, <2>2, RunqGetForm
  <2>3. CASE runq[p[m]] = 0 /\ runqsize > 0
    <3>1. globrunqget(p[m], 0)
      BY <1>15, <2>3, RunqGetForm
    <3>2. PICK n \in 1..RunqLen : /\ n <= runqsize /\ runq[p[m]] + n - 1 \in 0..RunqLen /\ runqsize' = runqsize - n
                                  /\ runq' = [runq EXCEPT ![p[m]] = @ + n - 1]
      BY <2>1, <2>3, <3>1, GlobrunqgetTakes
    <3>3. QED  BY <2>1, <3>2
  <2>4. CASE runq[p[m]] = 0 /\ ~(runqsize > 0)
    BY <1>15, <2>1, <2>4, RunqGetForm
  <2>5. QED  BY <1>15, <2>1, <2>2, <2>3, <2>4, RunqGetForm
<1>16. ASSUME NEW m \in Ms, Spin(m)  PROVE QueuesTyped'
  BY <1>16 DEF Spin
<1>17. ASSUME NEW m \in Ms, StartSpinning(m, "spin2", "steal")  PROVE QueuesTyped'
  BY <1>17 DEF StartSpinning
<1>18. ASSUME NEW m \in Ms, Steal(m)  PROVE QueuesTyped'
  <2>1. PICK q \in Ps \ (pidle \cup {p[m]}) : runqsteal(p[m], q)
    BY <1>18 DEF Steal
  <2>2. mpc[m] = "steal" /\ p[m] \in Ps /\ runq[p[m]] = 0
    BY <1>18, PsFit DEF Steal, SchedInv, EmptyFits
  <2>3. PICK n \in 1..RunqLen : /\ n <= runq[q] /\ runqsize' = runqsize
                                /\ runq' = [runq EXCEPT ![q] = @ - n, ![p[m]] = n - 1]
    BY <2>1, <2>2, RunqstealMoves
  <2>4. waiting' = waiting
    BY <1>18 DEF Steal
  <2>5. runq[q] - n \in 0..RunqLen /\ n - 1 \in 0..RunqLen
    BY <2>3
  <2>6. QED  BY <2>1, <2>2, <2>3, <2>4, <2>5
<1>19. ASSUME NEW m \in Ms, StealNothing(m)  PROVE QueuesTyped'
  BY <1>19 DEF StealNothing, Passed
<1>20. ASSUME NEW m \in Ms, ReturnP(m)  PROVE QueuesTyped'
  <2>1. p[m] \in Ps /\ runq[p[m]] = 0 /\ waiting' = waiting
    BY <1>20, ReturnPForm
  <2>2. CASE runqsize > 0
    <3>1. globrunqget(p[m], 0)
      BY <1>20, <2>2, ReturnPForm
    <3>2. PICK n \in 1..RunqLen : /\ n <= runqsize /\ runq[p[m]] + n - 1 \in 0..RunqLen /\ runqsize' = runqsize - n
                                  /\ runq' = [runq EXCEPT ![p[m]] = @ + n - 1]
      BY <2>1, <2>2, <3>1, GlobrunqgetTakes
    <3>3. QED  BY <2>1, <3>2
  <2>3. CASE ~(runqsize > 0)
    BY <1>20, <2>1, <2>3, ReturnPForm
  <2>4. QED  BY <2>2, <2>3
<1>21. ASSUME NEW m \in Ms, Unspin(m)  PROVE QueuesTyped'
  BY <1>21 DEF Unspin, StopSpinning
<1>22. ASSUME NEW m \in Ms, Recheck(m)  PROVE QueuesTyped'
  BY <1>22 DEF Recheck, Passed
<1>23. ASSUME NEW m \in Ms, RecheckP(m)  PROVE QueuesTyped'
  BY <1>23 DEF RecheckP, GetP
<1>24. ASSUME NEW m \in Ms, StartSpinning(m, "respin", "top")  PROVE QueuesTyped'
  BY <1>24 DEF StartSpinning
<1>25. ASSUME NEW m \in Ms, Netpoll(m)  PROVE QueuesTyped'
  BY <1>25 DEF Netpoll
<1>26. ASSUME NEW m \in Ms, PolledP(m)  PROVE QueuesTyped'
  BY <1>26 DEF PolledP, GetP
<1>27. ASSUME NEW m \in Ms, Inject(m)  PROVE QueuesTyped'
  BY <1>27 DEF Inject
<1>28. ASSUME NEW m \in Ms, InjectGlobal(m)  PROVE QueuesTyped'
  BY <1>28 DEF InjectGlobal, ListsTyped
<1>29. ASSUME NEW m \in Ms, StartIdle(m)  PROVE QueuesTyped'
  BY <1>29 DEF StartIdle, CallStartm
<1>30. ASSUME NEW m \in Ms, InjectLocal(m)  PROVE QueuesTyped'
  <2>1. CASE p[m] = Nil
    BY <1>30, <2>1 DEF InjectLocal
  <2>2. CASE p[m] # Nil
    <3> DEFINE k == Min({glist[m].rest, RunqLen - runq[p[m]]})
    <3>1. p[m] \in Ps /\ glist[m].rest \in Nat /\ RunqLen - runq[p[m]] \in Nat
      BY <2>2 DEF PsTyped, ListsTyped
    <3>2. k \in Nat /\ k <= glist[m].rest /\ k <= RunqLen - runq[p[m]]
      BY <3>1, LeastOfTwo
    <3>3. runq' = [runq EXCEPT ![p[m]] = @ + k] /\ runqsize' = runqsize + glist[m].rest - k /\ waiting' = waiting
      BY <1>30, <2>2 DEF InjectLocal
    <3> HIDE DEF k
    <3>4. runq[p[m]] + k \in 0..RunqLen /\ runqsize + glist[m].rest - k \in Nat
      BY <3>1, <3>2
    <3>5. QED  BY <3>1, <3>3, <3>4
  <2>3. QED  BY <2>1, <2>2
<1>31. ASSUME NEW m \in Ms, Goready(m)  PROVE QueuesTyped'
  <2>1. mpc[m] = "run" /\ p[m] \in Ps /\ waiting' \in Nat
    BY <1>31, PsFit DEF Goready
  <2>2. runqput(p[m])
    BY <1>31 DEF Goready
  <2>3. CASE runq[p[m]] < RunqLen /\ runqsize' = runqsize /\ runq' = [runq EXCEPT ![p[m]] = @ + 1]
    BY <2>1, <2>3
  <2>4. ASSUME NEW n \in 1..RunqLen, n <= runq[p[m]], runqsize' = runqsize + n + 1,
               runq' = [runq EXCEPT ![p[m]] = @ - n]
        PROVE  QueuesTyped'
    BY <2>1, <2>4
  <2>5. QED  BY <2>1, <2>2, <2>3, <2>4, RunqputPuts
<1>32. ASSUME NEW m \in Ms, Park(m)  PROVE QueuesTyped'
  BY <1>32 DEF Park
<1>33. ASSUME NEW m \in Ms, Gosched(m)  PROVE QueuesTyped'
  BY <1>33 DEF Gosched
<1>34. ASSUME NEW m \in Ms, Entersyscall(m)  PROVE QueuesTyped'
  BY <1>34 DEF Entersyscall
<1>35. ASSUME NEW m \in Ms, Entersyscallblock(m)  PROVE QueuesTyped'
  BY <1>35 DEF Entersyscallblock
<1>36. ASSUME NEW m \in Ms, Exitsyscall(m)  PROVE QueuesTyped'
  BY <1>36 DEF Exitsyscall
<1>37. ASSUME NEW m \in Ms, Polled(m)  PROVE QueuesTyped'
  <2>1. PICK k \in 0..Min({waiting, MaxPolled}) : waiting' = waiting - k
    BY <1>37 DEF Polled
  <2>2. MaxPolled \in Nat
    BY SchedAssumption
  <2>3. Min({waiting, MaxPolled}) \in Nat /\ Min({waiting, MaxPolled}) <= waiting
    BY <2>2, LeastOfTwo
  <2>4. QED  BY <1>37, <2>1, <2>3 DEF Polled
<1>38. ASSUME Retake  PROVE QueuesTyped'
  BY <1>38 DEF Retake
<1>39. CASE UNCHANGED svars
  BY <1>39 DEF svars
<1>40. QED
  BY <1>1, <1>2, <1>3, <1>4, <1>5, <1>6, <1>7, <1>8, <1>9, <1>10, <1>11, <1>12, <1>13, <1>14,
     <1>15, <1>16, <1>17, <1>18, <1>19, <1>20, <1>21, <1>22, <1>23, <1>24, <1>25, <1>26, <1>27, <1>28,
     <1>29, <1>30, <1>31, <1>32, <1>33, <1>34, <1>35, <1>36, <1>37, <1>38, <1>39 DEF SchedNext, Step, MStep, Environment

\* Every step keeps the types of the lists.
LEMMA NextLists ==
  ASSUME SchedInv, Loose, [SchedNext]_svars
  PROVE  ListsTyped'
<1>0. Control /\ PsTyped /\ QueuesTyped /\ ListsTyped
  BY DEF Loose
<1> USE NumbersFit, ThreadsFit, <1>0 DEF ListsTyped
<1>1. ASSUME NEW t \in Threads, WakepIdle(t)  PROVE ListsTyped'
  BY <1>1 DEF WakepIdle
<1>2. ASSUME NEW t \in Threads, Wakep(t)  PROVE ListsTyped'
  BY <1>2 DEF Wakep, CallStartm
<1>3. ASSUME NEW t \in Threads, Startm(t)  PROVE ListsTyped'
  BY <1>3 DEF Startm
<1>4. ASSUME NEW t \in Threads, StartmFails(t)  PROVE ListsTyped'
  BY <1>4 DEF StartmFails
<1>5. ASSUME NEW t \in Threads, StartmUndo(t)  PROVE ListsTyped'
  BY <1>5 DEF StartmUndo
<1>6. ASSUME NEW t \in Threads, StartmWake(t)  PROVE ListsTyped'
  BY <1>6 DEF StartmWake
<1>7. ASSUME NEW t \in Threads, Handoff(t)  PROVE ListsTyped'
  BY <1>7 DEF Handoff, StartFor, CallStartm, HandedOff
<1>8. ASSUME NEW t \in Threads, HandoffSpin(t)  PROVE ListsTyped'
  BY <1>8 DEF HandoffSpin, StartFor, CallStartm, HandedOff
<1>9. ASSUME NEW t \in Threads, HandoffIdle(t)  PROVE ListsTyped'
  BY <1>9 DEF HandoffIdle, StartFor, CallStartm, HandedOff
<1>10. ASSUME NEW m \in Ms, Unpark(m)  PROVE ListsTyped'
  BY <1>10 DEF Unpark
<1>11. ASSUME NEW m \in Ms, Stopm(m)  PROVE ListsTyped'
  BY <1>11 DEF Stopm
<1>12. ASSUME NEW m \in Ms, Resetspinning(m)  PROVE ListsTyped'
  BY <1>12 DEF Resetspinning, StopSpinning
<1>13. ASSUME NEW m \in Ms, Exit0(m)  PROVE ListsTyped'
  BY <1>13 DEF Exit0, GetP
<1>14. ASSUME NEW m \in Ms, ScheduleGlobal(m)  PROVE ListsTyped'
  BY <1>14 DEF ScheduleGlobal, GotG
<1>15. ASSUME NEW m \in Ms, RunqGet(m)  PROVE ListsTyped'
  BY <1>15, RunqGetForm
<1>16. ASSUME NEW m \in Ms, Spin(m)  PROVE ListsTyped'
  BY <1>16 DEF Spin
<1>17. ASSUME NEW m \in Ms, StartSpinning(m, "spin2", "steal")  PROVE ListsTyped'
  BY <1>17 DEF StartSpinning
<1>18. ASSUME NEW m \in Ms, Steal(m)  PROVE ListsTyped'
  BY <1>18 DEF Steal
<1>19. ASSUME NEW m \in Ms, StealNothing(m)  PROVE ListsTyped'
  BY <1>19 DEF StealNothing, Passed
<1>20. ASSUME NEW m \in Ms, ReturnP(m)  PROVE ListsTyped'
  BY <1>20, ReturnPForm
<1>21. ASSUME NEW m \in Ms, Unspin(m)  PROVE ListsTyped'
  BY <1>21 DEF Unspin, StopSpinning
<1>22. ASSUME NEW m \in Ms, Recheck(m)  PROVE ListsTyped'
  BY <1>22 DEF Recheck, Passed
<1>23. ASSUME NEW m \in Ms, RecheckP(m)  PROVE ListsTyped'
  BY <1>23 DEF RecheckP, GetP
<1>24. ASSUME NEW m \in Ms, StartSpinning(m, "respin", "top")  PROVE ListsTyped'
  BY <1>24 DEF StartSpinning
<1>25. ASSUME NEW m \in Ms, Netpoll(m)  PROVE ListsTyped'
  BY <1>25 DEF Netpoll
<1>26. ASSUME NEW m \in Ms, PolledP(m)  PROVE ListsTyped'
  <2>1. ASSUME NEW k \in 0..NGoroutines  PROVE Max({k - 1, 0}) \in 0..NGoroutines
    <3>1. k = 0 => \A x \in {k - 1, 0} : x <= 0
      BY <2>1
    <3>2. k > 0 => \A x \in {k - 1, 0} : x <= k - 1
      BY <2>1
    <3>3. \E x \in {k - 1, 0} : \A y \in {k - 1, 0} : x >= y
      BY <2>1, <3>1, <3>2
    <3>4. Max({k - 1, 0}) \in {k - 1, 0} /\ \A y \in {k - 1, 0} : Max({k - 1, 0}) >= y
      BY <3>3 DEF Max
    <3>5. QED  BY <2>1, <3>4
  <2>2. Max({glist[m].rest - 1, 0}) \in 0..NGoroutines
    BY <2>1
  <2>3. QED  BY <1>26, <2>2 DEF PolledP, GetP
<1>27. ASSUME NEW m \in Ms, Inject(m)  PROVE ListsTyped'
  <2> DEFINE k == glist[m].rest
             n == IF p[m] = Nil THEN k ELSE Min({k, Cardinality(pidle)})
  <2>1. k \in 0..NGoroutines
    OBVIOUS
  <2>2. Cardinality(pidle) \in Nat
    BY SchedAssumption, FS_Subset, FS_CardinalityType DEF PsTyped
  <2>3. n \in Nat /\ n <= k
    BY <2>1, <2>2, LeastOfTwo
  <2>4. glist' = [glist EXCEPT ![m] = [n |-> n, rest |-> k - n]] /\ polling' = polling /\ looked' = looked
    BY <1>27 DEF Inject
  <2> HIDE DEF k, n
  <2>5. QED  BY <2>1, <2>3, <2>4
<1>28. ASSUME NEW m \in Ms, InjectGlobal(m)  PROVE ListsTyped'
  BY <1>28 DEF InjectGlobal
<1>29. ASSUME NEW m \in Ms, StartIdle(m)  PROVE ListsTyped'
  BY <1>29 DEF StartIdle
<1>30. ASSUME NEW m \in Ms, InjectLocal(m)  PROVE ListsTyped'
  BY <1>30 DEF InjectLocal
<1>31. ASSUME NEW m \in Ms, Goready(m)  PROVE ListsTyped'
  BY <1>31 DEF Goready, CallWakep, runqput
<1>32. ASSUME NEW m \in Ms, Park(m)  PROVE ListsTyped'
  BY <1>32 DEF Park
<1>33. ASSUME NEW m \in Ms, Gosched(m)  PROVE ListsTyped'
  BY <1>33 DEF Gosched
<1>34. ASSUME NEW m \in Ms, Entersyscall(m)  PROVE ListsTyped'
  BY <1>34 DEF Entersyscall
<1>35. ASSUME NEW m \in Ms, Entersyscallblock(m)  PROVE ListsTyped'
  BY <1>35 DEF Entersyscallblock
<1>36. ASSUME NEW m \in Ms, Exitsyscall(m)  PROVE ListsTyped'
  BY <1>36 DEF Exitsyscall
<1>37. ASSUME NEW m \in Ms, Polled(m)  PROVE ListsTyped'
  <2>1. PICK k \in 0..Min({waiting, MaxPolled}) : waiting' = waiting - k /\ glist' = [glist EXCEPT ![m].rest = k]
    BY <1>37 DEF Polled
  <2>2. MaxPolled \in Nat
    BY SchedAssumption
  <2>3. Min({waiting, MaxPolled}) \in Nat /\ Min({waiting, MaxPolled}) <= waiting
    BY <2>2, LeastOfTwo DEF QueuesTyped
  <2>4. waiting <= NGoroutines
    BY DEF SchedInv, SpinnersCounted, SchedTypeOK
  <2>5. k \in 0..NGoroutines
    BY <2>1, <2>3, <2>4 DEF QueuesTyped
  <2>6. QED  BY <1>37, <2>1, <2>5 DEF Polled
<1>38. ASSUME Retake  PROVE ListsTyped'
  BY <1>38 DEF Retake
<1>39. CASE UNCHANGED svars
  BY <1>39 DEF svars
<1>40. QED
  BY <1>1, <1>2, <1>3, <1>4, <1>5, <1>6, <1>7, <1>8, <1>9, <1>10, <1>11, <1>12, <1>13, <1>14,
     <1>15, <1>16, <1>17, <1>18, <1>19, <1>20, <1>21, <1>22, <1>23, <1>24, <1>25, <1>26, <1>27, <1>28,
     <1>29, <1>30, <1>31, <1>32, <1>33, <1>34, <1>35, <1>36, <1>37, <1>38, <1>39 DEF SchedNext, Step, MStep, Environment

\* The arguments of t's startm become these, and nobody else's change.
Called(t, q, m, spin) ==
  /\ start' \in [Threads -> Starts]
  /\ start'[t].p = q /\ start'[t].m = m /\ (start'[t].spinning <=> spin)
  /\ \A u \in Threads : u # t => start'[u] = start[u]

\* startm has no arguments where it is not called.
LEMMA NoStartFits == NoStart \in Starts /\ NoStart.p = Nil /\ NoStart.m = Nil /\ ~NoStart.spinning
BY DEF Starts

\* startm is called.
LEMMA StartmCalled ==
  ASSUME Loose, NEW t \in Threads, NEW q \in Ps \cup {Nil}, NEW spin \in BOOLEAN, NEW l, CallStartm(t, q, spin, l)
  PROVE  Called(t, q, Nil, spin) /\ Go(t, "startm") /\ ret' = [ret EXCEPT ![t] = l]
<1> DEFINE a == [p |-> q, m |-> Nil, spinning |-> spin]
<1>1. a \in Starts /\ a.p = q /\ a.m = Nil /\ a.spinning = spin
  BY DEF Starts
<1>2. start' = [start EXCEPT ![t] = a] /\ start \in [Threads -> Starts]
  BY DEF CallStartm, Loose, ThreadsTyped
<1> HIDE DEF a
<1>3. Called(t, q, Nil, spin)
  BY <1>1, <1>2 DEF Called
<1>4. QED  BY <1>3 DEF CallStartm

\* wakep finds a thread that spins, or raises the count and calls startm.
LEMMA WakepForm ==
  ASSUME Loose, NEW t \in Threads, Wakep(t)
  PROVE  /\ mpc[t] = "wakep2"
         /\ \/ nmspinning # 0 /\ Return(t) /\ UNCHANGED <<nmspinning, start>>
            \/ /\ nmspinning = 0 /\ nmspinning' = 1 /\ Called(t, Nil, Nil, TRUE)
               /\ Go(t, "startm") /\ ret' = [ret EXCEPT ![t] = ret[t]]
         /\ UNCHANGED <<mvars, idle, psyscall, queues, polling, hand, looked, glist, overlooked>>
<1>1. CASE nmspinning # 0
  BY <1>1 DEF Wakep
<1>2. CASE nmspinning = 0
  BY <1>2, StartmCalled DEF Wakep
<1>3. QED  BY <1>1, <1>2 DEF Wakep

\* startIdle calls startm without a P, once less to do.
LEMMA StartIdleForm ==
  ASSUME Loose, NEW m \in Ms, StartIdle(m)
  PROVE  /\ mpc[m] = "inject3" /\ glist[m].n > 0 /\ pidle # {}
         /\ Called(m, Nil, Nil, FALSE) /\ Go(m, "startm") /\ ret' = [ret EXCEPT ![m] = "inject3"]
         /\ glist' = [glist EXCEPT ![m].n = @ - 1]
         /\ UNCHANGED <<mvars, nmspinning, idle, psyscall, queues, polling, hand, looked, overlooked>>
<1>1. m \in Threads
  BY DEF Threads
<1>2. QED  BY <1>1, StartmCalled DEF StartIdle

\* startm has a P and a thread, which nobody else has.
LEMMA StartmForm ==
  ASSUME SchedInv, Loose, NEW t \in Threads, Startm(t)
  PROVE  \E q \in Ps, m \in Ms :
           /\ mpc[t] = "startm" /\ Called(t, q, m, start[t].spinning)
           /\ (start[t].p = Nil /\ q \in pidle) \/ start[t].p = q
           /\ m \in midle \/ (midle = {} /\ mpc[m] = "none")
           /\ \A u \in Threads : start[u].m # m
           /\ pidle' = pidle \ {q} /\ midle' = midle \ {m}
           /\ Go(t, "startm2")
           /\ UNCHANGED <<mvars, nmspinning, psyscall, queues, polling, hand, ret, looked, glist, overlooked>>
<1>1. PICK q \in IF start[t].p = Nil THEN pidle ELSE {start[t].p},
           m \in IF midle = {} THEN {n \in Ms : mpc[n] = "none"} ELSE midle :
       /\ \A u \in Threads : start[u].m # m
       /\ pidle' = pidle \ {q} /\ midle' = midle \ {m}
       /\ start' = [start EXCEPT ![t] = [@ EXCEPT !.p = q, !.m = m]]
  BY DEF Startm
<1>2. start \in [Threads -> Starts] /\ pidle \subseteq Ps /\ midle \subseteq Ms
  BY DEF Loose, ThreadsTyped, PsTyped
<1>3. q \in Ps /\ m \in Ms
  BY <1>1, <1>2 DEF Starts
<1> DEFINE a == [start[t] EXCEPT !.p = q, !.m = m]
<1>4. a \in Starts /\ a.p = q /\ a.m = m /\ a.spinning = start[t].spinning
  BY <1>2, <1>3 DEF Starts
<1>5. start' = [start EXCEPT ![t] = a]
  BY <1>1, <1>2
<1> HIDE DEF a
<1>6. Called(t, q, m, start[t].spinning)
  BY <1>2, <1>4, <1>5 DEF Called
<1>7. /\ (start[t].p = Nil /\ q \in pidle) \/ start[t].p = q
      /\ m \in midle \/ (midle = {} /\ mpc[m] = "none")
  BY <1>1
<1>8. QED  BY <1>1, <1>3, <1>6, <1>7 DEF Startm

\* The three steps of handoffp.
LEMMA HandoffForm ==
  ASSUME SchedInv, Loose, NEW t \in Threads, Handoff(t) \/ HandoffSpin(t) \/ HandoffIdle(t)
  PROVE  /\ mpc[t] \in {"handoff", "handoff2", "handoff3"} /\ hand[t] \in Ps
         /\ \/ /\ Go(t, "handoff2") /\ mpc[t] = "handoff" /\ runq[hand[t]] = 0
               /\ UNCHANGED <<hand, start, ret, pidle, nmspinning, overlooked>>
            \/ /\ Go(t, "handoff3") /\ mpc[t] = "handoff2"
               /\ UNCHANGED <<hand, start, ret, pidle, nmspinning, overlooked>>
            \/ /\ Go(t, IF t = Sysmon THEN "sysmon" ELSE "syscall") /\ mpc[t] = "handoff3" /\ runqsize = 0
               /\ pidle' = pidle \cup {hand[t]} /\ hand' = [hand EXCEPT ![t] = Nil]
               /\ overlooked' = (overlooked \/ LocalWork)
               /\ UNCHANGED <<start, ret, nmspinning>>
            \/ /\ Go(t, "startm") /\ ret' = [ret EXCEPT ![t] = IF t = Sysmon THEN "sysmon" ELSE "syscall"]
               /\ hand' = [hand EXCEPT ![t] = Nil]
               /\ \/ Called(t, hand[t], Nil, FALSE) /\ nmspinning' = nmspinning
                  \/ /\ Called(t, hand[t], Nil, TRUE) /\ nmspinning = 0 /\ nmspinning' = 1
                     /\ mpc[t] = "handoff2"
               /\ UNCHANGED <<pidle, overlooked>>
         /\ UNCHANGED <<mvars, midle, psyscall, queues, polling, looked, glist>>
<1>1. mpc[t] \in {"handoff", "handoff2", "handoff3"}
  BY DEF Handoff, HandoffSpin, HandoffIdle
<1>2. hand[t] \in Ps
  BY <1>1, PsFit
<1>3. runq[hand[t]] \in Nat /\ runqsize \in Nat /\ nmspinning \in Nat
  BY <1>2, NumbersFit DEF Loose, QueuesTyped
<1>4. Cardinality(pidle) \in Nat
  BY SchedAssumption, FS_Subset, FS_CardinalityType DEF Loose, PsTyped
<1>5. ASSUME NEW spin \in BOOLEAN, StartFor(t, spin)
      PROVE  /\ Called(t, hand[t], Nil, spin) /\ Go(t, "startm") /\ hand' = [hand EXCEPT ![t] = Nil]
             /\ ret' = [ret EXCEPT ![t] = IF t = Sysmon THEN "sysmon" ELSE "syscall"]
  BY <1>2, <1>5, StartmCalled DEF StartFor, HandedOff
<1>50. UNCHANGED <<mvars, midle, psyscall, queues, polling, looked, glist>>
  BY DEF Handoff, HandoffSpin, HandoffIdle
<1>6. CASE Handoff(t)
  <2>1. CASE runq[hand[t]] > 0 \/ runqsize > 0
    <3>1. StartFor(t, FALSE) /\ UNCHANGED <<nmspinning, pidle, overlooked>>
      BY <1>6, <2>1 DEF Handoff
    <3>2. QED  BY <1>1, <1>2, <1>5, <1>50, <3>1
  <2>2. CASE ~(runq[hand[t]] > 0 \/ runqsize > 0)
    <3>1. Go(t, "handoff2") /\ mpc[t] = "handoff" /\ UNCHANGED <<hand, start, ret, pidle, nmspinning, overlooked>>
      BY <1>6, <2>2 DEF Handoff
    <3>2. runq[hand[t]] = 0
      BY <1>3, <2>2
    <3>3. QED  BY <1>1, <1>2, <1>50, <3>1, <3>2
  <2>3. QED  BY <2>1, <2>2
<1>7. CASE HandoffSpin(t)
  <2>1. CASE nmspinning + Cardinality(pidle) = 0
    <3>1. StartFor(t, TRUE) /\ nmspinning' = 1 /\ UNCHANGED <<pidle, overlooked>> /\ mpc[t] = "handoff2"
      BY <1>7, <2>1 DEF HandoffSpin
    <3>2. nmspinning = 0
      BY <1>3, <1>4, <2>1
    <3>3. QED  BY <1>1, <1>2, <1>5, <1>50, <3>1, <3>2
  <2>2. CASE nmspinning + Cardinality(pidle) # 0
    BY <1>2, <1>7, <2>2 DEF HandoffSpin
  <2>3. QED  BY <2>1, <2>2
<1>8. CASE HandoffIdle(t)
  <2>1. CASE runqsize > 0 \/ (Cardinality(pidle) = gomaxprocs - 1 /\ ~polling)
    <3>1. StartFor(t, FALSE) /\ UNCHANGED <<nmspinning, pidle, overlooked>>
      BY <1>8, <2>1 DEF HandoffIdle
    <3>2. QED  BY <1>1, <1>2, <1>5, <1>50, <3>1
  <2>2. CASE ~(runqsize > 0 \/ (Cardinality(pidle) = gomaxprocs - 1 /\ ~polling))
    <3>1. ~(runqsize > 0)
      BY <2>2
    <3>2. /\ Go(t, HandedOff(t)) /\ mpc[t] = "handoff3" /\ pidle' = pidle \cup {hand[t]}
          /\ hand' = [hand EXCEPT ![t] = Nil] /\ overlooked' = (overlooked \/ LocalWork)
          /\ UNCHANGED <<start, ret, nmspinning>>
      BY <1>8, <2>2 DEF HandoffIdle
    <3>3. runqsize = 0
      BY <1>3, <3>1
    <3>4. QED  BY <1>1, <1>2, <1>50, <3>2, <3>3 DEF HandedOff
  <2>3. QED  BY <2>1, <2>2
<1>9. QED  BY <1>6, <1>7, <1>8

\* netpoll has returned.
LEMMA PolledPForm ==
  ASSUME SchedInv, Loose, NEW m \in Ms, PolledP(m)
  PROVE  /\ mpc[m] = "polled" /\ glist[m].n = 0 /\ glist[m].rest \in 0..NGoroutines /\ p[m] = Nil
         /\ \/ \E q \in pidle :
                 /\ p' = [p EXCEPT ![m] = q] /\ pidle' = pidle \ {q}
                 /\ \/ /\ glist[m].rest = 0 /\ Go(m, ret[m]) /\ glist' = glist
                       /\ ret' = [ret EXCEPT ![m] = IF @ = "respin" THEN @ ELSE Nil]
                    \/ /\ glist[m].rest = 1 /\ Go(m, "run") /\ glist' = [glist EXCEPT ![m] = NoGs]
                       /\ ret' = [ret EXCEPT ![m] = Nil]
                    \/ /\ glist[m].rest > 1 /\ Go(m, "inject") /\ glist' = [glist EXCEPT ![m] = [n |-> 0, rest |-> glist[m].rest - 1]]
                       /\ ret' = [ret EXCEPT ![m] = Nil]
            \/ /\ pidle = {} /\ Go(m, IF glist[m].rest = 0 THEN "stopm" ELSE "inject")
               /\ ret' = [ret EXCEPT ![m] = "top"]
               /\ UNCHANGED <<pidle, p, glist>>
         /\ UNCHANGED <<nextp, spinning, nmspinning, psyscall, queues, midle, polling, hand, start, looked, overlooked>>
<1> DEFINE k == glist[m].rest
<1>1. mpc[m] = "polled"
  BY DEF PolledP
<1>2. glist \in [Ms -> [n : 0..NGoroutines, rest : 0..NGoroutines]] /\ NGoroutines \in Nat
  BY NumbersFit DEF Loose, ListsTyped
<1>3. glist[m].n = 0 /\ k \in 0..NGoroutines /\ glist[m] = [n |-> 0, rest |-> k]
  BY <1>1, <1>2 DEF SchedInv, ListsFit
<1>4. p[m] = Nil
  BY <1>1 DEF SchedInv, PFits, WithoutP
<1>5. CASE pidle # {}
  <2>1. PICK q \in pidle : pidle' = pidle \ {q} /\ p' = [p EXCEPT ![m] = q]
    BY <1>5 DEF PolledP, GetP
  <2>2. /\ Go(m, IF k = 0 THEN ret[m] ELSE IF k = 1 THEN "run" ELSE "inject")
        /\ glist' = [glist EXCEPT ![m].rest = Max({k - 1, 0})]
        /\ ret' = [ret EXCEPT ![m] = IF k = 0 /\ @ = "respin" THEN @ ELSE Nil]
        /\ UNCHANGED <<runqsize, midle>>
    BY <1>5 DEF PolledP, GetP
  <2> DEFINE r == Max({k - 1, 0})
  <2>3. r = IF k = 0 THEN 0 ELSE k - 1
    BY <1>2, <1>3, GreatestOfTwo
  <2>4. glist' = [glist EXCEPT ![m] = [n |-> 0, rest |-> r]]
    <3>1. \E x : glist' = [glist EXCEPT ![m].rest = x] /\ x = r
      BY <2>2
    <3> HIDE DEF r
    <3>2. [glist[m] EXCEPT !.rest = r] = [n |-> 0, rest |-> r]
      BY <1>3
    <3>3. QED  BY <1>2, <3>1, <3>2
  <2> HIDE DEF r
  <2>5. k = 0 => glist' = glist
    BY <1>2, <1>3, <2>3, <2>4
  <2>6. k = 1 => r = 0
    BY <2>3
  <2>7. k > 1 => r = k - 1
    BY <2>3
  <2>8. k = 0 \/ k = 1 \/ k > 1
    BY <1>2, <1>3
  <2> HIDE DEF k
  <2>9. CASE k = 0
    BY <1>1, <1>3, <1>4, <2>1, <2>2, <2>5, <2>9 DEF PolledP, k
  <2>10. CASE k = 1
    <3>1. Go(m, "run") /\ ret' = [ret EXCEPT ![m] = Nil] /\ glist' = [glist EXCEPT ![m] = NoGs]
      <4>1. k # 0
        BY <2>10
      <4>2. Go(m, "run") /\ ret' = [ret EXCEPT ![m] = Nil]
        BY <2>2, <2>10, <4>1
      <4>3. [n |-> 0, rest |-> r] = NoGs
        BY <2>6, <2>10
      <4>4. QED  BY <2>4, <4>2, <4>3
    <3>2. UNCHANGED <<nextp, spinning, nmspinning, psyscall, queues, midle, polling, hand, start, looked, overlooked>>
      BY <2>2 DEF PolledP
    <3>3. QED  BY <1>1, <1>3, <1>4, <2>1, <2>10, <3>1, <3>2 DEF k
  <2>11. CASE k > 1
    <3>1. k # 0 /\ k # 1
      BY <2>11
    <3>2. Go(m, "inject") /\ ret' = [ret EXCEPT ![m] = Nil]
      BY <2>2, <3>1
    <3>3. glist' = [glist EXCEPT ![m] = [n |-> 0, rest |-> k - 1]]
      BY <2>4, <2>7, <2>11
    <3>4. UNCHANGED <<nextp, spinning, nmspinning, psyscall, queues, midle, polling, hand, start, looked, overlooked>>
      BY <2>2 DEF PolledP
    <3>5. QED  BY <1>1, <1>3, <1>4, <2>1, <2>11, <3>2, <3>3, <3>4 DEF k
  <2>12. QED  BY <2>8, <2>9, <2>10, <2>11
<1>6. CASE pidle = {}
  BY <1>1, <1>3, <1>4, <1>6 DEF PolledP
<1>7. QED  BY <1>5, <1>6

\* handoffp moves no other thread.
LEMMA HandoffOthers ==
  ASSUME Loose, NEW t \in Threads, Handoff(t) \/ HandoffSpin(t) \/ HandoffIdle(t)
  PROVE  \A u \in Threads : u # t => mpc'[u] = mpc[u]
<1>1. mpc \in [Threads -> Locations]
  BY DEF Loose, Control
<1>2. CASE Handoff(t)
  BY <1>1, <1>2 DEF Handoff, StartFor, CallStartm
<1>3. CASE HandoffSpin(t)
  BY <1>1, <1>3 DEF HandoffSpin, StartFor, CallStartm
<1>4. CASE HandoffIdle(t)
  BY <1>1, <1>4 DEF HandoffIdle, StartFor, CallStartm
<1>5. QED  BY <1>2, <1>3, <1>4

\* The poller returns k goroutines.
LEMMA PolledForm ==
  ASSUME SchedInv, Loose, NEW m \in Ms, Polled(m)
  PROVE  \E k \in 0..NGoroutines :
           /\ k <= waiting /\ waiting' = waiting - k
           /\ glist[m] = NoGs /\ glist' = [glist EXCEPT ![m] = [n |-> 0, rest |-> k]]
           /\ mpc[m] = "polling" /\ Go(m, "polled")
           /\ UNCHANGED <<mvars, nmspinning, idle, psyscall, runq, runqsize, hand, start, ret, looked, overlooked>>
<1>1. PICK k \in 0..Min({waiting, MaxPolled}) : waiting' = waiting - k /\ glist' = [glist EXCEPT ![m].rest = k]
  BY DEF Polled
<1>2. MaxPolled \in Nat /\ waiting \in Nat /\ waiting <= NGoroutines /\ NGoroutines \in Nat
  BY SchedAssumption, NumbersFit DEF SchedInv, SpinnersCounted, SchedTypeOK
<1>3. Min({waiting, MaxPolled}) \in Nat /\ Min({waiting, MaxPolled}) <= waiting
  BY <1>2, LeastOfTwo
<1>4. k \in 0..NGoroutines /\ k <= waiting
  BY <1>1, <1>2, <1>3
<1>5. mpc[m] = "polling"
  BY DEF Polled
<1>6. glist[m] = NoGs
  BY <1>5 DEF SchedInv, ListsFit, Injects, Calling
<1>7. glist' = [glist EXCEPT ![m] = [n |-> 0, rest |-> k]]
  <2>1. [glist[m] EXCEPT !.rest = k] = [n |-> 0, rest |-> k]
    BY <1>6
  <2>2. glist' = [glist EXCEPT ![m] = [glist[m] EXCEPT !.rest = k]]
    BY <1>1
  <2>3. QED  BY <2>1, <2>2
<1>8. QED  BY <1>1, <1>4, <1>5, <1>6, <1>7 DEF Polled

\* The list is split.
LEMMA InjectForm ==
  ASSUME SchedInv, Loose, NEW m \in Ms, Inject(m)
  PROVE  \E k \in 0..NGoroutines, n \in 0..NGoroutines :
           /\ n <= k /\ glist[m].rest = k /\ glist[m].n = 0 /\ mpc[m] = "inject" /\ (p[m] = Nil => n = k)
           /\ glist' = [glist EXCEPT ![m] = [n |-> n, rest |-> k - n]] /\ Go(m, "inject2")
           /\ UNCHANGED <<mvars, nmspinning, idle, psyscall, queues, polling, hand, start, ret, looked, overlooked>>
<1> DEFINE k == glist[m].rest
           n == IF p[m] = Nil THEN k ELSE Min({k, Cardinality(pidle)})
<1>1. glist[m] \in [n : 0..NGoroutines, rest : 0..NGoroutines] /\ mpc[m] = "inject" /\ NGoroutines \in Nat
  BY NumbersFit DEF Inject, Loose, ListsTyped
<1>2. glist[m].n = 0
  BY <1>1 DEF SchedInv, ListsFit
<1>3. k \in 0..NGoroutines /\ k \in Nat
  BY <1>1
<1>4. Cardinality(pidle) \in Nat
  BY SchedAssumption, FS_Subset, FS_CardinalityType DEF Loose, PsTyped
<1>5. n \in Nat /\ n <= k /\ (p[m] = Nil => n = k)
  <2> HIDE DEF k
  <2>1. CASE p[m] = Nil
    BY <1>3, <2>1
  <2>2. CASE p[m] # Nil
    <3>1. n = Min({k, Cardinality(pidle)})
      BY <2>2
    <3>2. QED  BY <1>3, <1>4, <2>2, <3>1, LeastOfTwo
  <2>3. QED  BY <2>1, <2>2
<1>6. glist' = [glist EXCEPT ![m] = [n |-> n, rest |-> k - n]]
  BY DEF Inject
<1>7. /\ Go(m, "inject2")
      /\ UNCHANGED <<mvars, nmspinning, idle, psyscall, queues, polling, hand, start, ret, looked, overlooked>>
  BY DEF Inject
<1>8. k = glist[m].rest
  OBVIOUS
<1> HIDE DEF k, n
<1>9. n \in 0..NGoroutines
  BY <1>1, <1>3, <1>5
<1>10. QED  BY <1>1, <1>2, <1>3, <1>5, <1>6, <1>7, <1>8, <1>9

-----------------------------------------------------------------------------
(* Every P has one owner: its holder, as a function. *)

\* Every P is held in one way by one thread, or by nobody.
Held(kind, who) ==
  /\ kind \in [Ps -> {"m", "nextp", "startm", "handoffp", "idle", "syscall"}] /\ who \in [Ps -> Threads \cup {Nil}]
  /\ \A q \in Ps :
       /\ kind[q] \in {"m", "nextp"} => who[q] \in Ms
       /\ kind[q] \in {"startm", "handoffp"} => who[q] \in Threads
       /\ kind[q] \in {"idle", "syscall"} => who[q] = Nil
       /\ \A m \in Ms : p[m] = q <=> kind[q] = "m" /\ who[q] = m
       /\ \A m \in Ms : nextp[m] = q <=> kind[q] = "nextp" /\ who[q] = m
       /\ \A t \in Threads : start[t].p = q <=> kind[q] = "startm" /\ who[q] = t
       /\ \A t \in Threads : (hand[t] = q /\ mpc[t] # "syscall") <=> kind[q] = "handoffp" /\ who[q] = t
       /\ q \in pidle <=> kind[q] = "idle"
       /\ q \in psyscall <=> kind[q] = "syscall"

\* The owners of a P, kind by kind.
LEMMA OwnersListed ==
  ASSUME NEW q \in Ps
  PROVE  /\ \A m : <<"m", m>> \in Owners(q) <=> m \in Ms /\ p[m] = q
         /\ \A m : <<"nextp", m>> \in Owners(q) <=> m \in Ms /\ nextp[m] = q
         /\ \A t : <<"startm", t>> \in Owners(q) <=> t \in Threads /\ start[t].p = q
         /\ \A t : <<"handoffp", t>> \in Owners(q) <=> t \in Threads /\ hand[t] = q /\ mpc[t] # "syscall"
         /\ \A x : <<"idle", x>> \in Owners(q) <=> x = Nil /\ q \in pidle
         /\ \A x : <<"syscall", x>> \in Owners(q) <=> x = Nil /\ q \in psyscall
         /\ \A o \in Owners(q) :
              \E k \in {"m", "nextp", "startm", "handoffp", "idle", "syscall"}, x \in Threads \cup {Nil} : o = <<k, x>>
BY ThreadsFit DEF Owners

\* There are finitely many.
LEMMA OwnersFinite ==
  ASSUME NEW q \in Ps
  PROVE  IsFiniteSet(Owners(q))
<1> DEFINE K == {"m", "nextp", "startm", "handoffp", "idle", "syscall"}
<1>1. IsFiniteSet(Threads \cup {Nil})
  BY SchedAssumption, FS_AddElement DEF Threads
<1>2. IsFiniteSet(K)
  <2>1. IsFiniteSet({"m", "nextp", "startm"}) /\ IsFiniteSet({"handoffp", "idle", "syscall"})
    <3>1. IsFiniteSet({"m"} \cup {"nextp"}) /\ IsFiniteSet({"handoffp"} \cup {"idle"})
      BY FS_Singleton, FS_Union
    <3>2. IsFiniteSet(({"m"} \cup {"nextp"}) \cup {"startm"}) /\ IsFiniteSet(({"handoffp"} \cup {"idle"}) \cup {"syscall"})
      BY <3>1, FS_Singleton, FS_Union
    <3>3. /\ {"m", "nextp", "startm"} = ({"m"} \cup {"nextp"}) \cup {"startm"}
          /\ {"handoffp", "idle", "syscall"} = ({"handoffp"} \cup {"idle"}) \cup {"syscall"}
      OBVIOUS
    <3>4. QED  BY <3>2, <3>3
  <2>2. K = {"m", "nextp", "startm"} \cup {"handoffp", "idle", "syscall"}
    OBVIOUS
  <2>3. QED  BY <2>1, <2>2, FS_Union
<1>3. IsFiniteSet(K \X (Threads \cup {Nil}))
  BY <1>1, <1>2, FS_Product
<1>4. Owners(q) \subseteq K \X (Threads \cup {Nil})
  <2> SUFFICES ASSUME NEW o \in Owners(q)  PROVE o \in K \X (Threads \cup {Nil})
    OBVIOUS
  <2>1. QED  BY OwnersListed
<1>5. QED  BY <1>3, <1>4, FS_Subset

\* One owner for each P: what holds it is a function of the P.
LEMMA OwnersHeld == OneOwner => \E kind, who : Held(kind, who)
<1> SUFFICES ASSUME OneOwner  PROVE \E kind, who : Held(kind, who)
  OBVIOUS
<1> DEFINE K == {"m", "nextp", "startm", "handoffp", "idle", "syscall"}
           own(q) == CHOOSE o \in Owners(q) : TRUE
           kind == [q \in Ps |-> own(q)[1]]
           who == [q \in Ps |-> own(q)[2]]
<1>1. ASSUME NEW q \in Ps
      PROVE  /\ kind[q] \in K /\ who[q] \in Threads \cup {Nil}
             /\ \A k \in K : \A x : <<k, x>> \in Owners(q) <=> kind[q] = k /\ who[q] = x
  <2>1. PICK o : Owners(q) = {o}
    BY OwnersFinite, FS_Singleton DEF OneOwner
  <2>2. own(q) = o
    BY <2>1
  <2>3. PICK k \in K, x \in Threads \cup {Nil} : o = <<k, x>>
    BY <2>1, OwnersListed
  <2>4. kind[q] = k /\ who[q] = x
    <3>1. kind[q] = own(q)[1] /\ who[q] = own(q)[2]
      OBVIOUS
    <3>2. own(q) = <<k, x>>
      BY <2>2, <2>3
    <3> HIDE DEF kind, who, own
    <3>3. QED  BY <3>1, <3>2
  <2> HIDE DEF kind, who, own
  <2>5. ASSUME NEW j \in K, NEW y  PROVE <<j, y>> \in Owners(q) <=> kind[q] = j /\ who[q] = y
    <3>1. <<j, y>> \in Owners(q) <=> <<j, y>> = <<k, x>>
      BY <2>1, <2>3
    <3>2. <<j, y>> = <<k, x>> <=> j = k /\ y = x
      OBVIOUS
    <3>3. QED  BY <3>1, <3>2, <2>4
  <2>6. QED  BY <2>3, <2>4, <2>5
<1>2. kind \in [Ps -> K] /\ who \in [Ps -> Threads \cup {Nil}]
  BY <1>1
<1> HIDE DEF kind, who, own
<1>3. ASSUME NEW q \in Ps
      PROVE  /\ \A m \in Ms : p[m] = q <=> kind[q] = "m" /\ who[q] = m
             /\ \A m \in Ms : nextp[m] = q <=> kind[q] = "nextp" /\ who[q] = m
             /\ \A t \in Threads : start[t].p = q <=> kind[q] = "startm" /\ who[q] = t
             /\ \A t \in Threads : (hand[t] = q /\ mpc[t] # "syscall") <=> kind[q] = "handoffp" /\ who[q] = t
             /\ q \in pidle <=> kind[q] = "idle"
             /\ q \in psyscall <=> kind[q] = "syscall"
  <2>1. ASSUME NEW m \in Ms  PROVE p[m] = q <=> kind[q] = "m" /\ who[q] = m
    <3>1. <<"m", m>> \in Owners(q) <=> kind[q] = "m" /\ who[q] = m
      BY <1>1
    <3>2. QED  BY <3>1, OwnersListed
  <2>2. ASSUME NEW m \in Ms  PROVE nextp[m] = q <=> kind[q] = "nextp" /\ who[q] = m
    <3>1. <<"nextp", m>> \in Owners(q) <=> kind[q] = "nextp" /\ who[q] = m
      BY <1>1
    <3>2. QED  BY <3>1, OwnersListed
  <2>3. ASSUME NEW t \in Threads  PROVE start[t].p = q <=> kind[q] = "startm" /\ who[q] = t
    <3>1. <<"startm", t>> \in Owners(q) <=> kind[q] = "startm" /\ who[q] = t
      BY <1>1
    <3>2. QED  BY <3>1, OwnersListed
  <2>4. ASSUME NEW t \in Threads  PROVE (hand[t] = q /\ mpc[t] # "syscall") <=> kind[q] = "handoffp" /\ who[q] = t
    <3>1. <<"handoffp", t>> \in Owners(q) <=> kind[q] = "handoffp" /\ who[q] = t
      BY <1>1
    <3>2. QED  BY <3>1, OwnersListed
  <2>5. (q \in pidle <=> kind[q] = "idle") /\ (q \in psyscall <=> kind[q] = "syscall")
    <3>1. PICK k \in K, x \in Threads \cup {Nil} : <<k, x>> \in Owners(q) /\ kind[q] = k /\ who[q] = x
      BY <1>1
    <3>2. /\ <<"idle", Nil>> \in Owners(q) <=> kind[q] = "idle" /\ who[q] = Nil
          /\ <<"syscall", Nil>> \in Owners(q) <=> kind[q] = "syscall" /\ who[q] = Nil
      BY <1>1
    <3>3. k \in {"idle", "syscall"} => x = Nil
      BY <3>1, OwnersListed
    <3>4. QED  BY <3>1, <3>2, <3>3, OwnersListed
  <2>6. QED  BY <2>1, <2>2, <2>3, <2>4, <2>5
<1>30. ASSUME NEW q \in Ps
       PROVE  /\ kind[q] \in {"m", "nextp"} => who[q] \in Ms
              /\ kind[q] \in {"startm", "handoffp"} => who[q] \in Threads
              /\ kind[q] \in {"idle", "syscall"} => who[q] = Nil
  <2>1. <<kind[q], who[q]>> \in Owners(q)
    BY <1>1
  <2>2. QED  BY <1>1, <2>1, OwnersListed
<1>4. Held(kind, who)
  BY <1>2, <1>3, <1>30 DEF Held
<1>5. QED  BY <1>4

\* If what holds it is a function of the P, it has one owner.
LEMMA HeldOwners ==
  ASSUME NEW kind, NEW who, Held(kind, who)
  PROVE  OneOwner
<1> SUFFICES ASSUME NEW q \in Ps  PROVE Cardinality(Owners(q)) = 1
  BY DEF OneOwner
<1> DEFINE K == {"m", "nextp", "startm", "handoffp", "idle", "syscall"}
<1>1. kind[q] \in K
  BY DEF Held
<1>2. <<kind[q], who[q]>> \in Owners(q)
  <2>1. CASE kind[q] = "m"  BY <2>1, OwnersListed DEF Held
  <2>2. CASE kind[q] = "nextp"  BY <2>2, OwnersListed DEF Held
  <2>3. CASE kind[q] = "startm"  BY <2>3, OwnersListed DEF Held
  <2>4. CASE kind[q] = "handoffp"  BY <2>4, OwnersListed DEF Held
  <2>5. CASE kind[q] = "idle"  BY <2>5, OwnersListed DEF Held
  <2>6. CASE kind[q] = "syscall"  BY <2>6, OwnersListed DEF Held
  <2>7. QED  BY <1>1, <2>1, <2>2, <2>3, <2>4, <2>5, <2>6
<1>3. ASSUME NEW k \in K, NEW x, <<k, x>> \in Owners(q)
      PROVE  k = kind[q] /\ x = who[q]
  <2>1. CASE k = "m"  BY <1>3, <2>1, OwnersListed DEF Held
  <2>2. CASE k = "nextp"  BY <1>3, <2>2, OwnersListed DEF Held
  <2>3. CASE k = "startm"  BY <1>3, <2>3, OwnersListed DEF Held
  <2>4. CASE k = "handoffp"  BY <1>3, <2>4, OwnersListed DEF Held
  <2>5. CASE k = "idle"  BY <1>3, <2>5, OwnersListed DEF Held
  <2>6. CASE k = "syscall"  BY <1>3, <2>6, OwnersListed DEF Held
  <2>7. QED  BY <2>1, <2>2, <2>3, <2>4, <2>5, <2>6
<1>4. \A o \in Owners(q) : o = <<kind[q], who[q]>>
  BY <1>3, OwnersListed
<1>5. Owners(q) = {<<kind[q], who[q]>>}
  BY <1>2, <1>4
<1>6. QED  BY <1>5, FS_Singleton

\* Something holds every P.
HeldSome == \E kind, who : Held(kind, who)

\* The same, whatever the function is.
LEMMA HeldSomeOwners == HeldSome => OneOwner
<1> SUFFICES ASSUME NEW kind, NEW who, Held(kind, who)  PROVE OneOwner
  BY DEF HeldSome
<1>1. QED  BY HeldOwners

\* And after a step.
LEMMA HeldNext == HeldSome' => OneOwner'
BY HeldSomeOwners, PTL

\* Nothing moves.
LEMMA HeldStill ==
  ASSUME OneOwner, UNCHANGED <<p, nextp, pidle, psyscall>>, \A t \in Threads : start'[t].p = start[t].p,
         \A t \in Threads : (hand'[t] = hand[t] /\ (hand[t] # Nil => (mpc'[t] = "syscall" <=> mpc[t] = "syscall")))
  PROVE  OneOwner'
<1>1. PICK kind, who : Held(kind, who)
  BY OwnersHeld
<1>2. Held(kind, who)'
  BY <1>1, ThreadsFit DEF Held
<1>3. QED  BY <1>2, HeldNext DEF HeldSome

\* One P moves to a new owner.
LEMMA HeldMoves ==
  ASSUME NEW kind, NEW who, Held(kind, who), NEW q \in Ps,
         NEW k \in {"m", "nextp", "startm", "handoffp", "idle", "syscall"}, NEW w \in Threads \cup {Nil},
         k \in {"m", "nextp"} => w \in Ms, k \in {"startm", "handoffp"} => w \in Threads, k \in {"idle", "syscall"} => w = Nil,
         \A m \in Ms, r \in Ps : p'[m] = r <=> IF r = q THEN k = "m" /\ w = m ELSE p[m] = r,
         \A m \in Ms, r \in Ps : nextp'[m] = r <=> IF r = q THEN k = "nextp" /\ w = m ELSE nextp[m] = r,
         \A t \in Threads, r \in Ps : start'[t].p = r <=> IF r = q THEN k = "startm" /\ w = t ELSE start[t].p = r,
         \A t \in Threads, r \in Ps : (hand'[t] = r /\ mpc'[t] # "syscall")
           <=> IF r = q THEN k = "handoffp" /\ w = t ELSE hand[t] = r /\ mpc[t] # "syscall",
         \A r \in Ps : r \in pidle' <=> IF r = q THEN k = "idle" ELSE r \in pidle,
         \A r \in Ps : r \in psyscall' <=> IF r = q THEN k = "syscall" ELSE r \in psyscall
  PROVE  OneOwner'
<1> DEFINE K == {"m", "nextp", "startm", "handoffp", "idle", "syscall"}
           kind2 == [kind EXCEPT ![q] = k]
           who2 == [who EXCEPT ![q] = w]
<1>1. kind2 \in [Ps -> K] /\ who2 \in [Ps -> Threads \cup {Nil}]
  BY DEF Held
<1>2. \A r \in Ps : kind2[r] = (IF r = q THEN k ELSE kind[r]) /\ who2[r] = IF r = q THEN w ELSE who[r]
  BY DEF Held
<1> HIDE DEF kind2, who2
<1>3. ASSUME NEW r \in Ps
      PROVE  /\ kind2[r] \in {"m", "nextp"} => who2[r] \in Ms
             /\ kind2[r] \in {"startm", "handoffp"} => who2[r] \in Threads
             /\ kind2[r] \in {"idle", "syscall"} => who2[r] = Nil
  BY <1>2 DEF Held
<1>4. ASSUME NEW r \in Ps
      PROVE  /\ \A m \in Ms : p'[m] = r <=> kind2[r] = "m" /\ who2[r] = m
             /\ \A m \in Ms : nextp'[m] = r <=> kind2[r] = "nextp" /\ who2[r] = m
  BY <1>2 DEF Held
<1>5. ASSUME NEW r \in Ps
      PROVE  /\ \A t \in Threads : start'[t].p = r <=> kind2[r] = "startm" /\ who2[r] = t
             /\ \A t \in Threads : (hand'[t] = r /\ mpc'[t] # "syscall") <=> kind2[r] = "handoffp" /\ who2[r] = t
  BY <1>2 DEF Held
<1>6. ASSUME NEW r \in Ps
      PROVE  /\ r \in pidle' <=> kind2[r] = "idle"
             /\ r \in psyscall' <=> kind2[r] = "syscall"
  BY <1>2 DEF Held
<1>7. Held(kind2, who2)'
  BY <1>1, <1>3, <1>4, <1>5, <1>6 DEF Held
<1>8. QED  BY <1>7, HeldNext DEF HeldSome

\* A P that a thread has is not anywhere else.
LEMMA Alone ==
  ASSUME OneOwner, NEW q \in Ps
  PROVE  /\ \A m \in Ms : p[m] = q =>
              /\ q \notin pidle \cup psyscall
              /\ \A n \in Ms : nextp[n] # q /\ (p[n] = q => n = m)
              /\ \A t \in Threads : start[t].p # q /\ (hand[t] = q => mpc[t] = "syscall")
         /\ q \in pidle =>
              /\ q \notin psyscall /\ \A n \in Ms : p[n] # q /\ nextp[n] # q
              /\ \A t \in Threads : start[t].p # q /\ (hand[t] = q => mpc[t] = "syscall")
<1>1. PICK kind, who : Held(kind, who)
  BY OwnersHeld
<1>2. QED  BY <1>1 DEF Held

\* Every step keeps what is said about who has a P.
LEMMA NextPFits ==
  ASSUME SchedInv, Loose, [SchedNext]_svars
  PROVE  PFits'
<1>0. Control /\ PsTyped /\ PFits /\ RetFits
  BY DEF Loose, SchedInv
<1> USE ThreadsFit, <1>0 DEF Control, PsTyped, PFits, WithP, WithoutP, RetFits, Calling, Handing
<1>1. ASSUME NEW t \in Threads, WakepIdle(t)  PROVE PFits'
  BY <1>1 DEF WakepIdle
<1>2. ASSUME NEW t \in Threads, Wakep(t)  PROVE PFits'
  BY <1>2, WakepForm DEF Called
<1>3. ASSUME NEW t \in Threads, Startm(t)  PROVE PFits'
  BY <1>3, StartmForm DEF Called
<1>4. ASSUME NEW t \in Threads, StartmFails(t)  PROVE PFits'
  BY <1>4 DEF StartmFails
<1>5. ASSUME NEW t \in Threads, StartmUndo(t)  PROVE PFits'
  BY <1>5 DEF StartmUndo
<1>6. ASSUME NEW t \in Threads, StartmWake(t)  PROVE PFits'
  <2>1. /\ start[t].m \in Ms /\ start[t].m # t /\ mpc[t] = "startm2" /\ start[t].p \in Ps
        /\ mpc' = [mpc EXCEPT ![t] = ret[t], ![start[t].m] = "parked"]
        /\ nextp' = [nextp EXCEPT ![start[t].m] = start[t].p]
        /\ start' = [start EXCEPT ![t] = NoStart] /\ ret' = [ret EXCEPT ![t] = Nil]
    BY <1>6, StartmWakes
  <2>2. UNCHANGED <<p, hand, pidle, midle, looked, glist>>
    BY <1>6 DEF StartmWake
  <2>3. mpc[start[t].m] \in {"none", "parked"}
    BY <2>1 DEF SchedInv, IdleFits
  <2>30. t \in Ms => ret[t] \in {"run", "inject3", "syscall"}
    BY <2>1 DEF SchedInv, RetFits
  <2>31. t = Sysmon => ret[t] = "sysmon"
    BY <2>1 DEF SchedInv, RetFits
  <2>4. start[t].m \in Ms /\ p[start[t].m] = Nil
    BY <2>1, <2>3
  <2>5. mpc'[t] = ret[t] /\ ret'[t] = Nil
    BY <2>1
  <2>6. \A n \in Ms : n # t /\ n # start[t].m => mpc'[n] = mpc[n] /\ ret'[n] = ret[n]
    BY <2>1
  <2>7. mpc'[start[t].m] = "parked"
    BY <2>1
  <2>8. ASSUME t \in Ms  PROVE (WithP(t) => p[t] # Nil)' /\ (WithoutP(t) => p[t] = Nil)'
    BY <2>1, <2>2, <2>30, <2>5, <2>8
  <2>9. QED  BY <2>2, <2>4, <2>6, <2>7, <2>8
<1>7. ASSUME NEW t \in Threads, Handoff(t)  PROVE PFits'
  BY <1>7, HandoffForm DEF Called
<1>8. ASSUME NEW t \in Threads, HandoffSpin(t)  PROVE PFits'
  BY <1>8, HandoffForm DEF Called
<1>9. ASSUME NEW t \in Threads, HandoffIdle(t)  PROVE PFits'
  BY <1>9, HandoffForm DEF Called
<1>10. ASSUME NEW m \in Ms, Unpark(m)  PROVE PFits'
  BY <1>10 DEF Unpark
<1>11. ASSUME NEW m \in Ms, Stopm(m)  PROVE PFits'
  BY <1>11 DEF Stopm
<1>12. ASSUME NEW m \in Ms, Resetspinning(m)  PROVE PFits'
  BY <1>12 DEF Resetspinning, StopSpinning
<1>13. ASSUME NEW m \in Ms, Exit0(m)  PROVE PFits'
  BY <1>13 DEF Exit0, GetP
<1>14. ASSUME NEW m \in Ms, ScheduleGlobal(m)  PROVE PFits'
  BY <1>14 DEF ScheduleGlobal, GotG
<1>15. ASSUME NEW m \in Ms, RunqGet(m)  PROVE PFits'
  BY <1>15, RunqGetForm DEF GotG
<1>16. ASSUME NEW m \in Ms, Spin(m)  PROVE PFits'
  BY <1>16 DEF Spin
<1>17. ASSUME NEW m \in Ms, StartSpinning(m, "spin2", "steal")  PROVE PFits'
  BY <1>17 DEF StartSpinning
<1>18. ASSUME NEW m \in Ms, Steal(m)  PROVE PFits'
  BY <1>18 DEF Steal, runqsteal, GotG
<1>19. ASSUME NEW m \in Ms, StealNothing(m)  PROVE PFits'
  BY <1>19 DEF StealNothing, Passed
<1>20. ASSUME NEW m \in Ms, ReturnP(m)  PROVE PFits'
  BY <1>20, ReturnPForm DEF GotG, globrunqget
<1>21. ASSUME NEW m \in Ms, Unspin(m)  PROVE PFits'
  BY <1>21 DEF Unspin, StopSpinning
<1>22. ASSUME NEW m \in Ms, Recheck(m)  PROVE PFits'
  BY <1>22 DEF Recheck, Passed
<1>23. ASSUME NEW m \in Ms, RecheckP(m)  PROVE PFits'
  BY <1>23 DEF RecheckP, GetP
<1>24. ASSUME NEW m \in Ms, StartSpinning(m, "respin", "top")  PROVE PFits'
  BY <1>24 DEF StartSpinning
<1>25. ASSUME NEW m \in Ms, Netpoll(m)  PROVE PFits'
  BY <1>25 DEF Netpoll
<1>26. ASSUME NEW m \in Ms, PolledP(m)  PROVE PFits'
  BY <1>26, PolledPForm
<1>27. ASSUME NEW m \in Ms, Inject(m)  PROVE PFits'
  BY <1>27 DEF Inject
<1>28. ASSUME NEW m \in Ms, InjectGlobal(m)  PROVE PFits'
  BY <1>28 DEF InjectGlobal
<1>29. ASSUME NEW m \in Ms, StartIdle(m)  PROVE PFits'
  BY <1>29, StartIdleForm DEF Called
<1>30. ASSUME NEW m \in Ms, InjectLocal(m)  PROVE PFits'
  BY <1>30 DEF InjectLocal
<1>31. ASSUME NEW m \in Ms, Goready(m)  PROVE PFits'
  BY <1>31 DEF Goready, CallWakep, runqput
<1>32. ASSUME NEW m \in Ms, Park(m)  PROVE PFits'
  BY <1>32 DEF Park
<1>33. ASSUME NEW m \in Ms, Gosched(m)  PROVE PFits'
  BY <1>33 DEF Gosched
<1>34. ASSUME NEW m \in Ms, Entersyscall(m)  PROVE PFits'
  BY <1>34 DEF Entersyscall
<1>35. ASSUME NEW m \in Ms, Entersyscallblock(m)  PROVE PFits'
  BY <1>35 DEF Entersyscallblock
<1>36. ASSUME NEW m \in Ms, Exitsyscall(m)  PROVE PFits'
  BY <1>36 DEF Exitsyscall
<1>37. ASSUME NEW m \in Ms, Polled(m)  PROVE PFits'
  BY <1>37 DEF Polled
<1>38. ASSUME Retake  PROVE PFits'
  BY <1>38 DEF Retake
<1>39. CASE UNCHANGED svars
  BY <1>39 DEF svars
<1>40. QED
  BY <1>1, <1>2, <1>3, <1>4, <1>5, <1>6, <1>7, <1>8, <1>9, <1>10, <1>11, <1>12, <1>13, <1>14,
     <1>15, <1>16, <1>17, <1>18, <1>19, <1>20, <1>21, <1>22, <1>23, <1>24, <1>25, <1>26, <1>27, <1>28,
     <1>29, <1>30, <1>31, <1>32, <1>33, <1>34, <1>35, <1>36, <1>37, <1>38, <1>39 DEF SchedNext, Step, MStep, Environment

\* Every step keeps what is said about calls.
LEMMA NextRetFits ==
  ASSUME SchedInv, Loose, [SchedNext]_svars
  PROVE  RetFits'
<1>0. Control /\ RetFits
  BY DEF Loose, SchedInv
<1> USE ThreadsFit, <1>0 DEF Control, RetFits, Handing
<1>1. ASSUME NEW t \in Threads, WakepIdle(t)  PROVE RetFits'
  BY <1>1 DEF WakepIdle
<1>2. ASSUME NEW t \in Threads, Wakep(t)  PROVE RetFits'
  BY <1>2, WakepForm DEF Called
<1>3. ASSUME NEW t \in Threads, Startm(t)  PROVE RetFits'
  BY <1>3, StartmForm DEF Called
<1>4. ASSUME NEW t \in Threads, StartmFails(t)  PROVE RetFits'
  <2>1. mpc[t] = "startm" /\ start[t].p = Nil /\ start' = [start EXCEPT ![t] = NoStart] /\ hand' = hand
    BY <1>4 DEF StartmFails
  <2>2. t \in Ms /\ ret[t] \in {"run", "inject3"} /\ (start[t].spinning => ret[t] = "run")
    BY <2>1 DEF SchedInv, StartFits, RetFits
  <2>3. \/ Go(t, "startm3") /\ ret' = ret /\ ret[t] = "run"
        \/ Return(t)
    BY <1>4, <2>2 DEF StartmFails
  <2>4. QED  BY <2>1, <2>2, <2>3
<1>5. ASSUME NEW t \in Threads, StartmUndo(t)  PROVE RetFits'
  BY <1>5 DEF StartmUndo
<1>6. ASSUME NEW t \in Threads, StartmWake(t)  PROVE RetFits'
  <2>1. /\ start[t].m \in Ms /\ start[t].m # t /\ mpc[t] = "startm2" /\ start[t].p \in Ps
        /\ mpc' = [mpc EXCEPT ![t] = ret[t], ![start[t].m] = "parked"]
        /\ nextp' = [nextp EXCEPT ![start[t].m] = start[t].p]
        /\ start' = [start EXCEPT ![t] = NoStart] /\ ret' = [ret EXCEPT ![t] = Nil]
    BY <1>6, StartmWakes
  <2>2. UNCHANGED <<p, hand, pidle, midle, looked, glist>>
    BY <1>6 DEF StartmWake
  <2>3. mpc[start[t].m] \in {"none", "parked"}
    BY <2>1 DEF SchedInv, IdleFits
  <2>30. t \in Ms => ret[t] \in {"run", "inject3", "syscall"}
    BY <2>1 DEF SchedInv, RetFits
  <2>31. t = Sysmon => ret[t] = "sysmon"
    BY <2>1 DEF SchedInv, RetFits
  <2>4. QED  BY <2>1, <2>2, <2>3
<1>7. ASSUME NEW t \in Threads, Handoff(t)  PROVE RetFits'
  BY <1>7, HandoffForm DEF Called
<1>8. ASSUME NEW t \in Threads, HandoffSpin(t)  PROVE RetFits'
  BY <1>8, HandoffForm DEF Called
<1>9. ASSUME NEW t \in Threads, HandoffIdle(t)  PROVE RetFits'
  BY <1>9, HandoffForm DEF Called
<1>10. ASSUME NEW m \in Ms, Unpark(m)  PROVE RetFits'
  BY <1>10 DEF Unpark
<1>11. ASSUME NEW m \in Ms, Stopm(m)  PROVE RetFits'
  BY <1>11 DEF Stopm
<1>12. ASSUME NEW m \in Ms, Resetspinning(m)  PROVE RetFits'
  BY <1>12 DEF Resetspinning, StopSpinning
<1>13. ASSUME NEW m \in Ms, Exit0(m)  PROVE RetFits'
  BY <1>13 DEF Exit0, GetP
<1>14. ASSUME NEW m \in Ms, ScheduleGlobal(m)  PROVE RetFits'
  BY <1>14 DEF ScheduleGlobal, GotG
<1>15. ASSUME NEW m \in Ms, RunqGet(m)  PROVE RetFits'
  BY <1>15, RunqGetForm DEF GotG
<1>16. ASSUME NEW m \in Ms, Spin(m)  PROVE RetFits'
  BY <1>16 DEF Spin
<1>17. ASSUME NEW m \in Ms, StartSpinning(m, "spin2", "steal")  PROVE RetFits'
  BY <1>17 DEF StartSpinning
<1>18. ASSUME NEW m \in Ms, Steal(m)  PROVE RetFits'
  BY <1>18 DEF Steal, runqsteal, GotG
<1>19. ASSUME NEW m \in Ms, StealNothing(m)  PROVE RetFits'
  BY <1>19 DEF StealNothing, Passed
<1>20. ASSUME NEW m \in Ms, ReturnP(m)  PROVE RetFits'
  BY <1>20, ReturnPForm DEF GotG, globrunqget
<1>21. ASSUME NEW m \in Ms, Unspin(m)  PROVE RetFits'
  BY <1>21 DEF Unspin, StopSpinning
<1>22. ASSUME NEW m \in Ms, Recheck(m)  PROVE RetFits'
  BY <1>22 DEF Recheck, Passed
<1>23. ASSUME NEW m \in Ms, RecheckP(m)  PROVE RetFits'
  BY <1>23 DEF RecheckP, GetP
<1>24. ASSUME NEW m \in Ms, StartSpinning(m, "respin", "top")  PROVE RetFits'
  BY <1>24 DEF StartSpinning
<1>25. ASSUME NEW m \in Ms, Netpoll(m)  PROVE RetFits'
  BY <1>25 DEF Netpoll
<1>26. ASSUME NEW m \in Ms, PolledP(m)  PROVE RetFits'
  BY <1>26, PolledPForm
<1>27. ASSUME NEW m \in Ms, Inject(m)  PROVE RetFits'
  BY <1>27 DEF Inject
<1>28. ASSUME NEW m \in Ms, InjectGlobal(m)  PROVE RetFits'
  BY <1>28 DEF InjectGlobal
<1>29. ASSUME NEW m \in Ms, StartIdle(m)  PROVE RetFits'
  BY <1>29, StartIdleForm DEF Called
<1>30. ASSUME NEW m \in Ms, InjectLocal(m)  PROVE RetFits'
  BY <1>30 DEF InjectLocal
<1>31. ASSUME NEW m \in Ms, Goready(m)  PROVE RetFits'
  BY <1>31 DEF Goready, CallWakep, runqput
<1>32. ASSUME NEW m \in Ms, Park(m)  PROVE RetFits'
  BY <1>32 DEF Park
<1>33. ASSUME NEW m \in Ms, Gosched(m)  PROVE RetFits'
  BY <1>33 DEF Gosched
<1>34. ASSUME NEW m \in Ms, Entersyscall(m)  PROVE RetFits'
  BY <1>34 DEF Entersyscall
<1>35. ASSUME NEW m \in Ms, Entersyscallblock(m)  PROVE RetFits'
  BY <1>35 DEF Entersyscallblock
<1>36. ASSUME NEW m \in Ms, Exitsyscall(m)  PROVE RetFits'
  BY <1>36 DEF Exitsyscall
<1>37. ASSUME NEW m \in Ms, Polled(m)  PROVE RetFits'
  BY <1>37 DEF Polled
<1>38. ASSUME Retake  PROVE RetFits'
  BY <1>38 DEF Retake
<1>39. CASE UNCHANGED svars
  BY <1>39 DEF svars
<1>40. QED
  BY <1>1, <1>2, <1>3, <1>4, <1>5, <1>6, <1>7, <1>8, <1>9, <1>10, <1>11, <1>12, <1>13, <1>14,
     <1>15, <1>16, <1>17, <1>18, <1>19, <1>20, <1>21, <1>22, <1>23, <1>24, <1>25, <1>26, <1>27, <1>28,
     <1>29, <1>30, <1>31, <1>32, <1>33, <1>34, <1>35, <1>36, <1>37, <1>38, <1>39 DEF SchedNext, Step, MStep, Environment

\* Every step keeps what is said about the arguments of startm.
LEMMA NextStartFits ==
  ASSUME SchedInv, Loose, [SchedNext]_svars
  PROVE  StartFits'
<1>0. Control /\ PsTyped /\ ThreadsTyped /\ RetFits /\ StartFits /\ PFits
  BY DEF Loose, SchedInv
<1> HIDE DEF NoStart
<1> USE ThreadsFit, NoStartFits, <1>0 DEF Control, PsTyped, ThreadsTyped, RetFits, StartFits, Handing
<1>1. ASSUME NEW t \in Threads, WakepIdle(t)  PROVE StartFits'
  BY <1>1 DEF WakepIdle
<1>2. ASSUME NEW t \in Threads, Wakep(t)  PROVE StartFits'
  BY <1>2, WakepForm DEF Called
<1>3. ASSUME NEW t \in Threads, Startm(t)  PROVE StartFits'
  BY <1>3, StartmForm DEF Called
<1>4. ASSUME NEW t \in Threads, StartmFails(t)  PROVE StartFits'
  <2>1. mpc[t] = "startm" /\ start[t].p = Nil /\ start' = [start EXCEPT ![t] = NoStart] /\ hand' = hand
    BY <1>4 DEF StartmFails
  <2>2. t \in Ms /\ ret[t] \in {"run", "inject3"} /\ (start[t].spinning => ret[t] = "run")
    BY <2>1 DEF SchedInv, StartFits, RetFits
  <2>3. \/ Go(t, "startm3") /\ ret' = ret /\ ret[t] = "run"
        \/ Return(t)
    BY <1>4, <2>2 DEF StartmFails
  <2>4. QED  BY <2>1, <2>2, <2>3
<1>5. ASSUME NEW t \in Threads, StartmUndo(t)  PROVE StartFits'
  BY <1>5 DEF StartmUndo
<1>6. ASSUME NEW t \in Threads, StartmWake(t)  PROVE StartFits'
  <2>1. /\ start[t].m \in Ms /\ start[t].m # t /\ mpc[t] = "startm2" /\ start[t].p \in Ps
        /\ mpc' = [mpc EXCEPT ![t] = ret[t], ![start[t].m] = "parked"]
        /\ nextp' = [nextp EXCEPT ![start[t].m] = start[t].p]
        /\ start' = [start EXCEPT ![t] = NoStart] /\ ret' = [ret EXCEPT ![t] = Nil]
    BY <1>6, StartmWakes
  <2>2. UNCHANGED <<p, hand, pidle, midle, looked, glist>>
    BY <1>6 DEF StartmWake
  <2>3. mpc[start[t].m] \in {"none", "parked"}
    BY <2>1 DEF SchedInv, IdleFits
  <2>30. t \in Ms => ret[t] \in {"run", "inject3", "syscall"}
    BY <2>1 DEF SchedInv, RetFits
  <2>31. t = Sysmon => ret[t] = "sysmon"
    BY <2>1 DEF SchedInv, RetFits
  <2>4. QED  BY <2>1, <2>2, <2>3, <2>30, <2>31
<1>7. ASSUME NEW t \in Threads, Handoff(t)  PROVE StartFits'
  BY <1>7, HandoffForm DEF Called
<1>8. ASSUME NEW t \in Threads, HandoffSpin(t)  PROVE StartFits'
  BY <1>8, HandoffForm DEF Called
<1>9. ASSUME NEW t \in Threads, HandoffIdle(t)  PROVE StartFits'
  BY <1>9, HandoffForm DEF Called
<1>10. ASSUME NEW m \in Ms, Unpark(m)  PROVE StartFits'
  BY <1>10 DEF Unpark
<1>11. ASSUME NEW m \in Ms, Stopm(m)  PROVE StartFits'
  BY <1>11 DEF Stopm
<1>12. ASSUME NEW m \in Ms, Resetspinning(m)  PROVE StartFits'
  BY <1>12 DEF Resetspinning, StopSpinning
<1>13. ASSUME NEW m \in Ms, Exit0(m)  PROVE StartFits'
  BY <1>13 DEF Exit0, GetP
<1>14. ASSUME NEW m \in Ms, ScheduleGlobal(m)  PROVE StartFits'
  BY <1>14 DEF ScheduleGlobal, GotG
<1>15. ASSUME NEW m \in Ms, RunqGet(m)  PROVE StartFits'
  <2>1. mpc[m] \in {"schedule", "top"} /\ UNCHANGED <<start, hand, ret>>
    BY <1>15, RunqGetForm
  <2>2. Go(m, "found") \/ Go(m, "run") \/ Go(m, "spin")
    BY <1>15, RunqGetForm DEF GotG
  <2>3. QED  BY <2>1, <2>2
<1>16. ASSUME NEW m \in Ms, Spin(m)  PROVE StartFits'
  BY <1>16 DEF Spin
<1>17. ASSUME NEW m \in Ms, StartSpinning(m, "spin2", "steal")  PROVE StartFits'
  BY <1>17 DEF StartSpinning
<1>18. ASSUME NEW m \in Ms, Steal(m)  PROVE StartFits'
  BY <1>18 DEF Steal, runqsteal, GotG
<1>19. ASSUME NEW m \in Ms, StealNothing(m)  PROVE StartFits'
  BY <1>19 DEF StealNothing, Passed
<1>20. ASSUME NEW m \in Ms, ReturnP(m)  PROVE StartFits'
  <2>1. mpc[m] = "release" /\ UNCHANGED <<start, hand>>
    BY <1>20, ReturnPForm
  <2>2. /\ Go(m, "found") \/ Go(m, "run") \/ Go(m, "unspin") \/ Go(m, "netpoll")
        /\ ret' = ret \/ ret' = [ret EXCEPT ![m] = "respin"] \/ ret' = [ret EXCEPT ![m] = "top"]
    BY <1>20, ReturnPForm DEF GotG
  <2>3. QED  BY <2>1, <2>2
<1>21. ASSUME NEW m \in Ms, Unspin(m)  PROVE StartFits'
  BY <1>21 DEF Unspin, StopSpinning
<1>22. ASSUME NEW m \in Ms, Recheck(m)  PROVE StartFits'
  BY <1>22 DEF Recheck, Passed
<1>23. ASSUME NEW m \in Ms, RecheckP(m)  PROVE StartFits'
  BY <1>23 DEF RecheckP, GetP
<1>24. ASSUME NEW m \in Ms, StartSpinning(m, "respin", "top")  PROVE StartFits'
  BY <1>24 DEF StartSpinning
<1>25. ASSUME NEW m \in Ms, Netpoll(m)  PROVE StartFits'
  BY <1>25 DEF Netpoll
<1>26. ASSUME NEW m \in Ms, PolledP(m)  PROVE StartFits'
  BY <1>26, PolledPForm
<1>27. ASSUME NEW m \in Ms, Inject(m)  PROVE StartFits'
  BY <1>27 DEF Inject
<1>28. ASSUME NEW m \in Ms, InjectGlobal(m)  PROVE StartFits'
  BY <1>28 DEF InjectGlobal
<1>29. ASSUME NEW m \in Ms, StartIdle(m)  PROVE StartFits'
  BY <1>29, StartIdleForm DEF Called
<1>30. ASSUME NEW m \in Ms, InjectLocal(m)  PROVE StartFits'
  BY <1>30 DEF InjectLocal
<1>31. ASSUME NEW m \in Ms, Goready(m)  PROVE StartFits'
  BY <1>31 DEF Goready, CallWakep, runqput
<1>32. ASSUME NEW m \in Ms, Park(m)  PROVE StartFits'
  BY <1>32 DEF Park
<1>33. ASSUME NEW m \in Ms, Gosched(m)  PROVE StartFits'
  BY <1>33 DEF Gosched
<1>34. ASSUME NEW m \in Ms, Entersyscall(m)  PROVE StartFits'
  BY <1>34 DEF Entersyscall
<1>35. ASSUME NEW m \in Ms, Entersyscallblock(m)  PROVE StartFits'
  <2>1. p[m] \in Ps
    BY <1>35, PsFit DEF Entersyscallblock
  <2>2. QED  BY <1>35, <2>1 DEF Entersyscallblock
<1>36. ASSUME NEW m \in Ms, Exitsyscall(m)  PROVE StartFits'
  BY <1>36 DEF Exitsyscall
<1>37. ASSUME NEW m \in Ms, Polled(m)  PROVE StartFits'
  BY <1>37 DEF Polled
<1>38. ASSUME Retake  PROVE StartFits'
  BY <1>38 DEF Retake
<1>39. CASE UNCHANGED svars
  BY <1>39 DEF svars
<1>40. QED
  BY <1>1, <1>2, <1>3, <1>4, <1>5, <1>6, <1>7, <1>8, <1>9, <1>10, <1>11, <1>12, <1>13, <1>14,
     <1>15, <1>16, <1>17, <1>18, <1>19, <1>20, <1>21, <1>22, <1>23, <1>24, <1>25, <1>26, <1>27, <1>28,
     <1>29, <1>30, <1>31, <1>32, <1>33, <1>34, <1>35, <1>36, <1>37, <1>38, <1>39 DEF SchedNext, Step, MStep, Environment

\* Every step keeps what is said about lists and loops.
LEMMA NextListsFit ==
  ASSUME SchedInv, Loose, [SchedNext]_svars
  PROVE  ListsFit'
<1>0. Control /\ PsTyped /\ ListsTyped /\ RetFits /\ ListsFit /\ PFits
  BY DEF Loose, SchedInv
<1> USE ThreadsFit, NumbersFit, <1>0 DEF Control, PsTyped, ListsTyped, RetFits, PFits, WithP, WithoutP, ListsFit, Injects, Calling
<1>1. ASSUME NEW t \in Threads, WakepIdle(t)  PROVE ListsFit'
  BY <1>1 DEF WakepIdle
<1>2. ASSUME NEW t \in Threads, Wakep(t)  PROVE ListsFit'
  BY <1>2, WakepForm DEF Called
<1>3. ASSUME NEW t \in Threads, Startm(t)  PROVE ListsFit'
  BY <1>3, StartmForm DEF Called
<1>4. ASSUME NEW t \in Threads, StartmFails(t)  PROVE ListsFit'
  <2>1. mpc[t] = "startm" /\ start[t].p = Nil /\ start' = [start EXCEPT ![t] = NoStart] /\ hand' = hand
    BY <1>4 DEF StartmFails
  <2>2. t \in Ms /\ ret[t] \in {"run", "inject3"} /\ (start[t].spinning => ret[t] = "run")
    BY <2>1 DEF SchedInv, StartFits, RetFits
  <2>3. \/ Go(t, "startm3") /\ ret' = ret /\ ret[t] = "run"
        \/ Return(t)
    BY <1>4, <2>2 DEF StartmFails
  <2>4. UNCHANGED <<glist, p, looked>>
    BY <1>4 DEF StartmFails
  <2>5. \A m \in Ms : m # t => mpc'[m] = mpc[m] /\ ret'[m] = ret[m]
    BY <2>3
  <2>6. CASE Go(t, "startm3") /\ ret' = ret /\ ret[t] = "run"
    BY <2>1, <2>2, <2>4, <2>5, <2>6
  <2>7. CASE Return(t)
    <3>1. mpc'[t] = ret[t] /\ mpc[t] = "startm"
      BY <2>1, <2>2, <2>7
    <3>2. QED  BY <2>2, <2>4, <2>5, <3>1
  <2>8. QED  BY <2>3, <2>6, <2>7
<1>5. ASSUME NEW t \in Threads, StartmUndo(t)  PROVE ListsFit'
  BY <1>5 DEF StartmUndo
<1>6. ASSUME NEW t \in Threads, StartmWake(t)  PROVE ListsFit'
  <2>1. /\ start[t].m \in Ms /\ start[t].m # t /\ mpc[t] = "startm2" /\ start[t].p \in Ps
        /\ mpc' = [mpc EXCEPT ![t] = ret[t], ![start[t].m] = "parked"]
        /\ nextp' = [nextp EXCEPT ![start[t].m] = start[t].p]
        /\ start' = [start EXCEPT ![t] = NoStart] /\ ret' = [ret EXCEPT ![t] = Nil]
    BY <1>6, StartmWakes
  <2>2. UNCHANGED <<p, hand, pidle, midle, looked, glist>>
    BY <1>6 DEF StartmWake
  <2>3. mpc[start[t].m] \in {"none", "parked"}
    BY <2>1 DEF SchedInv, IdleFits
  <2>30. t \in Ms => ret[t] \in {"run", "inject3", "syscall"}
    BY <2>1 DEF SchedInv, RetFits
  <2>31. t = Sysmon => ret[t] = "sysmon"
    BY <2>1 DEF SchedInv, RetFits
  <2>32. \A m \in Ms : m # t /\ m # start[t].m => mpc'[m] = mpc[m] /\ ret'[m] = ret[m]
    BY <2>1
  <2>33. mpc'[start[t].m] = "parked" /\ (t \in Ms => mpc'[t] = ret[t])
    BY <2>1
  <2>34. ret'[start[t].m] = ret[start[t].m]
    BY <2>1
  <2>4. SUFFICES ASSUME NEW m \in Ms
                 PROVE  /\ mpc'[m] \notin {"polled"} \cup Injects /\ ~(mpc'[m] \in Calling /\ ret'[m] = "inject3") => glist[m] = NoGs
                        /\ mpc'[m] \in {"polled", "inject"} => glist[m].n = 0
                        /\ p[m] = Nil /\ mpc'[m] \notin {"polled", "inject"} => glist[m].rest = 0
                        /\ glist[m].n + glist[m].rest <= NGoroutines
                        /\ mpc'[m] \notin {"steal", "recheck"} => looked[m] = {}
    BY <2>2
  <2>5. CASE m = t
    BY <2>1, <2>30, <2>33, <2>5
  <2>6. CASE m = start[t].m
    BY <2>1, <2>3, <2>33, <2>34, <2>6
  <2>7. CASE m # t /\ m # start[t].m
    BY <2>32, <2>7
  <2>8. QED  BY <2>5, <2>6, <2>7
<1>7. ASSUME NEW t \in Threads, Handoff(t)  PROVE ListsFit'
  BY <1>7, HandoffForm DEF Called
<1>8. ASSUME NEW t \in Threads, HandoffSpin(t)  PROVE ListsFit'
  BY <1>8, HandoffForm DEF Called
<1>9. ASSUME NEW t \in Threads, HandoffIdle(t)  PROVE ListsFit'
  BY <1>9, HandoffForm DEF Called
<1>10. ASSUME NEW m \in Ms, Unpark(m)  PROVE ListsFit'
  BY <1>10 DEF Unpark
<1>11. ASSUME NEW m \in Ms, Stopm(m)  PROVE ListsFit'
  BY <1>11 DEF Stopm
<1>12. ASSUME NEW m \in Ms, Resetspinning(m)  PROVE ListsFit'
  BY <1>12 DEF Resetspinning, StopSpinning
<1>13. ASSUME NEW m \in Ms, Exit0(m)  PROVE ListsFit'
  BY <1>13 DEF Exit0, GetP
<1>14. ASSUME NEW m \in Ms, ScheduleGlobal(m)  PROVE ListsFit'
  BY <1>14 DEF ScheduleGlobal, GotG
<1>15. ASSUME NEW m \in Ms, RunqGet(m)  PROVE ListsFit'
  BY <1>15, RunqGetForm DEF GotG
<1>16. ASSUME NEW m \in Ms, Spin(m)  PROVE ListsFit'
  BY <1>16 DEF Spin
<1>17. ASSUME NEW m \in Ms, StartSpinning(m, "spin2", "steal")  PROVE ListsFit'
  BY <1>17 DEF StartSpinning
<1>18. ASSUME NEW m \in Ms, Steal(m)  PROVE ListsFit'
  BY <1>18 DEF Steal, runqsteal, GotG
<1>19. ASSUME NEW m \in Ms, StealNothing(m)  PROVE ListsFit'
  BY <1>19, SMTT(20) DEF StealNothing, Passed
<1>20. ASSUME NEW m \in Ms, ReturnP(m)  PROVE ListsFit'
  BY <1>20, ReturnPForm DEF GotG, globrunqget
<1>21. ASSUME NEW m \in Ms, Unspin(m)  PROVE ListsFit'
  BY <1>21 DEF Unspin, StopSpinning
<1>22. ASSUME NEW m \in Ms, Recheck(m)  PROVE ListsFit'
  BY <1>22, SMTT(20) DEF Recheck, Passed
<1>23. ASSUME NEW m \in Ms, RecheckP(m)  PROVE ListsFit'
  BY <1>23 DEF RecheckP, GetP
<1>24. ASSUME NEW m \in Ms, StartSpinning(m, "respin", "top")  PROVE ListsFit'
  BY <1>24 DEF StartSpinning
<1>25. ASSUME NEW m \in Ms, Netpoll(m)  PROVE ListsFit'
  BY <1>25 DEF Netpoll
<1>26. ASSUME NEW m \in Ms, PolledP(m)  PROVE ListsFit'
  BY <1>26, PolledPForm, SMTT(20)
<1>27. ASSUME NEW m \in Ms, Inject(m)  PROVE ListsFit'
  <2>1. PICK k \in 0..NGoroutines, n \in 0..NGoroutines :
           /\ n <= k /\ glist[m].rest = k /\ glist[m].n = 0 /\ mpc[m] = "inject" /\ (p[m] = Nil => n = k)
           /\ glist' = [glist EXCEPT ![m] = [n |-> n, rest |-> k - n]] /\ Go(m, "inject2")
           /\ UNCHANGED <<p, ret, looked>>
    BY <1>27, InjectForm
  <2>2. n + (k - n) <= NGoroutines /\ (p[m] = Nil => k - n = 0)
    BY <2>1
  <2>3. QED  BY <2>1, <2>2
<1>28. ASSUME NEW m \in Ms, InjectGlobal(m)  PROVE ListsFit'
  BY <1>28 DEF InjectGlobal
<1>29. ASSUME NEW m \in Ms, StartIdle(m)  PROVE ListsFit'
  BY <1>29, StartIdleForm DEF Called
<1>30. ASSUME NEW m \in Ms, InjectLocal(m)  PROVE ListsFit'
  BY <1>30 DEF InjectLocal
<1>31. ASSUME NEW m \in Ms, Goready(m)  PROVE ListsFit'
  BY <1>31 DEF Goready, CallWakep, runqput
<1>32. ASSUME NEW m \in Ms, Park(m)  PROVE ListsFit'
  BY <1>32 DEF Park
<1>33. ASSUME NEW m \in Ms, Gosched(m)  PROVE ListsFit'
  BY <1>33 DEF Gosched
<1>34. ASSUME NEW m \in Ms, Entersyscall(m)  PROVE ListsFit'
  BY <1>34 DEF Entersyscall
<1>35. ASSUME NEW m \in Ms, Entersyscallblock(m)  PROVE ListsFit'
  BY <1>35 DEF Entersyscallblock
<1>36. ASSUME NEW m \in Ms, Exitsyscall(m)  PROVE ListsFit'
  BY <1>36 DEF Exitsyscall
<1>37. ASSUME NEW m \in Ms, Polled(m)  PROVE ListsFit'
  BY <1>37, PolledForm
<1>38. ASSUME Retake  PROVE ListsFit'
  BY <1>38 DEF Retake
<1>39. CASE UNCHANGED svars
  BY <1>39 DEF svars
<1>40. QED
  BY <1>1, <1>2, <1>3, <1>4, <1>5, <1>6, <1>7, <1>8, <1>9, <1>10, <1>11, <1>12, <1>13, <1>14,
     <1>15, <1>16, <1>17, <1>18, <1>19, <1>20, <1>21, <1>22, <1>23, <1>24, <1>25, <1>26, <1>27, <1>28,
     <1>29, <1>30, <1>31, <1>32, <1>33, <1>34, <1>35, <1>36, <1>37, <1>38, <1>39 DEF SchedNext, Step, MStep, Environment

\* Every step keeps what is said about idle threads.
LEMMA NextIdleFits ==
  ASSUME SchedInv, Loose, [SchedNext]_svars
  PROVE  IdleFits'
<1>0. Control /\ PsTyped /\ ThreadsTyped /\ StartFits /\ IdleFits
  BY DEF Loose, SchedInv
<1> HIDE DEF NoStart
<1> USE ThreadsFit, NoStartFits, <1>0 DEF Control, PsTyped, ThreadsTyped, StartFits, IdleFits
<1>1. ASSUME NEW t \in Threads, WakepIdle(t)  PROVE IdleFits'
  BY <1>1 DEF WakepIdle
<1>2. ASSUME NEW t \in Threads, Wakep(t)  PROVE IdleFits'
  BY <1>2, WakepForm DEF Called
<1>3. ASSUME NEW t \in Threads, Startm(t)  PROVE IdleFits'
  BY <1>3, StartmForm DEF Called
<1>4. ASSUME NEW t \in Threads, StartmFails(t)  PROVE IdleFits'
  BY <1>4 DEF StartmFails
<1>5. ASSUME NEW t \in Threads, StartmUndo(t)  PROVE IdleFits'
  BY <1>5 DEF StartmUndo
<1>6. ASSUME NEW t \in Threads, StartmWake(t)  PROVE IdleFits'
  <2>1. /\ start[t].m \in Ms /\ start[t].m # t /\ mpc[t] = "startm2" /\ start[t].p \in Ps
        /\ mpc' = [mpc EXCEPT ![t] = ret[t], ![start[t].m] = "parked"]
        /\ nextp' = [nextp EXCEPT ![start[t].m] = start[t].p]
        /\ start' = [start EXCEPT ![t] = NoStart] /\ ret' = [ret EXCEPT ![t] = Nil]
    BY <1>6, StartmWakes
  <2>2. UNCHANGED <<p, hand, pidle, midle, looked, glist>>
    BY <1>6 DEF StartmWake
  <2>3. mpc[start[t].m] \in {"none", "parked"}
    BY <2>1 DEF SchedInv, IdleFits
  <2>30. t \in Ms => ret[t] \in {"run", "inject3", "syscall"}
    BY <2>1 DEF SchedInv, RetFits
  <2>31. t = Sysmon => ret[t] = "sysmon"
    BY <2>1 DEF SchedInv, RetFits
  <2>4. \A m \in Ms : start[t].m = m => m \notin midle /\ \A u \in Threads : start[u].m = m => u = t
    OBVIOUS
  <2>5. t \in Ms => t \notin midle /\ nextp[t] = Nil /\ \A u \in Threads : start[u].m # t
    BY <2>1
  <2>6. QED  BY <2>1, <2>2, <2>4, <2>5
<1>7. ASSUME NEW t \in Threads, Handoff(t)  PROVE IdleFits'
  BY <1>7, HandoffForm DEF Called
<1>8. ASSUME NEW t \in Threads, HandoffSpin(t)  PROVE IdleFits'
  BY <1>8, HandoffForm DEF Called
<1>9. ASSUME NEW t \in Threads, HandoffIdle(t)  PROVE IdleFits'
  BY <1>9, HandoffForm DEF Called
<1>10. ASSUME NEW m \in Ms, Unpark(m)  PROVE IdleFits'
  BY <1>10 DEF Unpark
<1>11. ASSUME NEW m \in Ms, Stopm(m)  PROVE IdleFits'
  BY <1>11 DEF Stopm
<1>12. ASSUME NEW m \in Ms, Resetspinning(m)  PROVE IdleFits'
  BY <1>12 DEF Resetspinning, StopSpinning
<1>13. ASSUME NEW m \in Ms, Exit0(m)  PROVE IdleFits'
  BY <1>13 DEF Exit0, GetP
<1>14. ASSUME NEW m \in Ms, ScheduleGlobal(m)  PROVE IdleFits'
  BY <1>14 DEF ScheduleGlobal, GotG
<1>15. ASSUME NEW m \in Ms, RunqGet(m)  PROVE IdleFits'
  BY <1>15, RunqGetForm DEF GotG
<1>16. ASSUME NEW m \in Ms, Spin(m)  PROVE IdleFits'
  BY <1>16 DEF Spin
<1>17. ASSUME NEW m \in Ms, StartSpinning(m, "spin2", "steal")  PROVE IdleFits'
  BY <1>17 DEF StartSpinning
<1>18. ASSUME NEW m \in Ms, Steal(m)  PROVE IdleFits'
  BY <1>18 DEF Steal, runqsteal, GotG
<1>19. ASSUME NEW m \in Ms, StealNothing(m)  PROVE IdleFits'
  BY <1>19 DEF StealNothing, Passed
<1>20. ASSUME NEW m \in Ms, ReturnP(m)  PROVE IdleFits'
  BY <1>20, ReturnPForm DEF GotG, globrunqget
<1>21. ASSUME NEW m \in Ms, Unspin(m)  PROVE IdleFits'
  BY <1>21 DEF Unspin, StopSpinning
<1>22. ASSUME NEW m \in Ms, Recheck(m)  PROVE IdleFits'
  BY <1>22 DEF Recheck, Passed
<1>23. ASSUME NEW m \in Ms, RecheckP(m)  PROVE IdleFits'
  BY <1>23 DEF RecheckP, GetP
<1>24. ASSUME NEW m \in Ms, StartSpinning(m, "respin", "top")  PROVE IdleFits'
  BY <1>24 DEF StartSpinning
<1>25. ASSUME NEW m \in Ms, Netpoll(m)  PROVE IdleFits'
  BY <1>25 DEF Netpoll
<1>26. ASSUME NEW m \in Ms, PolledP(m)  PROVE IdleFits'
  BY <1>26, PolledPForm
<1>27. ASSUME NEW m \in Ms, Inject(m)  PROVE IdleFits'
  BY <1>27 DEF Inject
<1>28. ASSUME NEW m \in Ms, InjectGlobal(m)  PROVE IdleFits'
  BY <1>28 DEF InjectGlobal
<1>29. ASSUME NEW m \in Ms, StartIdle(m)  PROVE IdleFits'
  BY <1>29, StartIdleForm DEF Called
<1>30. ASSUME NEW m \in Ms, InjectLocal(m)  PROVE IdleFits'
  BY <1>30 DEF InjectLocal
<1>31. ASSUME NEW m \in Ms, Goready(m)  PROVE IdleFits'
  BY <1>31 DEF Goready, CallWakep, runqput
<1>32. ASSUME NEW m \in Ms, Park(m)  PROVE IdleFits'
  BY <1>32 DEF Park
<1>33. ASSUME NEW m \in Ms, Gosched(m)  PROVE IdleFits'
  BY <1>33 DEF Gosched
<1>34. ASSUME NEW m \in Ms, Entersyscall(m)  PROVE IdleFits'
  BY <1>34 DEF Entersyscall
<1>35. ASSUME NEW m \in Ms, Entersyscallblock(m)  PROVE IdleFits'
  BY <1>35 DEF Entersyscallblock
<1>36. ASSUME NEW m \in Ms, Exitsyscall(m)  PROVE IdleFits'
  BY <1>36 DEF Exitsyscall
<1>37. ASSUME NEW m \in Ms, Polled(m)  PROVE IdleFits'
  BY <1>37 DEF Polled
<1>38. ASSUME Retake  PROVE IdleFits'
  BY <1>38 DEF Retake
<1>39. CASE UNCHANGED svars
  BY <1>39 DEF svars
<1>40. QED
  BY <1>1, <1>2, <1>3, <1>4, <1>5, <1>6, <1>7, <1>8, <1>9, <1>10, <1>11, <1>12, <1>13, <1>14,
     <1>15, <1>16, <1>17, <1>18, <1>19, <1>20, <1>21, <1>22, <1>23, <1>24, <1>25, <1>26, <1>27, <1>28,
     <1>29, <1>30, <1>31, <1>32, <1>33, <1>34, <1>35, <1>36, <1>37, <1>38, <1>39 DEF SchedNext, Step, MStep, Environment

\* Every step keeps what is said about threads that spin.
LEMMA NextSpinFits ==
  ASSUME SchedInv, Loose, [SchedNext]_svars
  PROVE  SpinFits'
<1>0. Control /\ ThreadsTyped /\ PsTyped /\ IdleFits /\ SpinFits /\ RetFits /\ StartFits
  BY DEF Loose, SchedInv
<1> USE ThreadsFit, <1>0 DEF Control, PsTyped, ThreadsTyped, IdleFits, SpinFits, RetFits
<1>1. ASSUME NEW t \in Threads, WakepIdle(t)  PROVE SpinFits'
  BY <1>1 DEF WakepIdle
<1>2. ASSUME NEW t \in Threads, Wakep(t)  PROVE SpinFits'
  BY <1>2 DEF Wakep, CallStartm
<1>3. ASSUME NEW t \in Threads, Startm(t)  PROVE SpinFits'
  BY <1>3 DEF Startm
<1>4. ASSUME NEW t \in Threads, StartmFails(t)  PROVE SpinFits'
  BY <1>4 DEF StartmFails
<1>5. ASSUME NEW t \in Threads, StartmUndo(t)  PROVE SpinFits'
  BY <1>5 DEF StartmUndo
<1>6. ASSUME NEW t \in Threads, StartmWake(t)  PROVE SpinFits'
  <2>1. /\ start[t].m \in Ms /\ start[t].m # t /\ mpc[t] = "startm2" /\ start[t].p \in Ps
        /\ mpc' = [mpc EXCEPT ![t] = ret[t], ![start[t].m] = "parked"]
        /\ spinning' = IF start[t].spinning THEN spinning \cup {start[t].m} ELSE spinning
        /\ nextp' = [nextp EXCEPT ![start[t].m] = start[t].p]
    BY <1>6, StartmWakes
  <2>2. t \in Ms => ret[t] \in {"run", "inject3", "syscall"} /\ t \notin spinning
    BY <2>1
  <2>3. start[t].m \notin spinning
    BY <1>6, StartmWakes
  <2>4. QED  BY <2>1, <2>2, <2>3
<1>7. ASSUME NEW t \in Threads, Handoff(t)  PROVE SpinFits'
  BY <1>7 DEF Handoff, StartFor, CallStartm, HandedOff
<1>8. ASSUME NEW t \in Threads, HandoffSpin(t)  PROVE SpinFits'
  BY <1>8 DEF HandoffSpin, StartFor, CallStartm, HandedOff
<1>9. ASSUME NEW t \in Threads, HandoffIdle(t)  PROVE SpinFits'
  BY <1>9 DEF HandoffIdle, StartFor, CallStartm, HandedOff
<1>10. ASSUME NEW m \in Ms, Unpark(m)  PROVE SpinFits'
  BY <1>10 DEF Unpark
<1>11. ASSUME NEW m \in Ms, Stopm(m)  PROVE SpinFits'
  BY <1>11 DEF Stopm
<1>12. ASSUME NEW m \in Ms, Resetspinning(m)  PROVE SpinFits'
  BY <1>12 DEF Resetspinning, StopSpinning
<1>13. ASSUME NEW m \in Ms, Exit0(m)  PROVE SpinFits'
  BY <1>13 DEF Exit0, GetP
<1>14. ASSUME NEW m \in Ms, ScheduleGlobal(m)  PROVE SpinFits'
  BY <1>14 DEF ScheduleGlobal, GotG
<1>15. ASSUME NEW m \in Ms, RunqGet(m)  PROVE SpinFits'
  BY <1>15, RunqGetForm DEF GotG
<1>16. ASSUME NEW m \in Ms, Spin(m)  PROVE SpinFits'
  BY <1>16 DEF Spin
<1>17. ASSUME NEW m \in Ms, StartSpinning(m, "spin2", "steal")  PROVE SpinFits'
  BY <1>17 DEF StartSpinning
<1>18. ASSUME NEW m \in Ms, Steal(m)  PROVE SpinFits'
  BY <1>18 DEF Steal, runqsteal, GotG
<1>19. ASSUME NEW m \in Ms, StealNothing(m)  PROVE SpinFits'
  BY <1>19 DEF StealNothing, Passed
<1>20. ASSUME NEW m \in Ms, ReturnP(m)  PROVE SpinFits'
  BY <1>20, ReturnPForm DEF GotG, globrunqget
<1>21. ASSUME NEW m \in Ms, Unspin(m)  PROVE SpinFits'
  BY <1>21 DEF Unspin, StopSpinning
<1>22. ASSUME NEW m \in Ms, Recheck(m)  PROVE SpinFits'
  BY <1>22 DEF Recheck, Passed
<1>23. ASSUME NEW m \in Ms, RecheckP(m)  PROVE SpinFits'
  BY <1>23 DEF RecheckP, GetP
<1>24. ASSUME NEW m \in Ms, StartSpinning(m, "respin", "top")  PROVE SpinFits'
  BY <1>24 DEF StartSpinning
<1>25. ASSUME NEW m \in Ms, Netpoll(m)  PROVE SpinFits'
  BY <1>25 DEF Netpoll
<1>26. ASSUME NEW m \in Ms, PolledP(m)  PROVE SpinFits'
  BY <1>26, PolledPForm
<1>27. ASSUME NEW m \in Ms, Inject(m)  PROVE SpinFits'
  BY <1>27 DEF Inject
<1>28. ASSUME NEW m \in Ms, InjectGlobal(m)  PROVE SpinFits'
  BY <1>28 DEF InjectGlobal
<1>29. ASSUME NEW m \in Ms, StartIdle(m)  PROVE SpinFits'
  BY <1>29 DEF StartIdle, CallStartm
<1>30. ASSUME NEW m \in Ms, InjectLocal(m)  PROVE SpinFits'
  BY <1>30 DEF InjectLocal
<1>31. ASSUME NEW m \in Ms, Goready(m)  PROVE SpinFits'
  BY <1>31 DEF Goready, CallWakep, runqput
<1>32. ASSUME NEW m \in Ms, Park(m)  PROVE SpinFits'
  BY <1>32 DEF Park
<1>33. ASSUME NEW m \in Ms, Gosched(m)  PROVE SpinFits'
  BY <1>33 DEF Gosched
<1>34. ASSUME NEW m \in Ms, Entersyscall(m)  PROVE SpinFits'
  BY <1>34 DEF Entersyscall
<1>35. ASSUME NEW m \in Ms, Entersyscallblock(m)  PROVE SpinFits'
  BY <1>35 DEF Entersyscallblock
<1>36. ASSUME NEW m \in Ms, Exitsyscall(m)  PROVE SpinFits'
  BY <1>36 DEF Exitsyscall
<1>37. ASSUME NEW m \in Ms, Polled(m)  PROVE SpinFits'
  BY <1>37 DEF Polled
<1>38. ASSUME Retake  PROVE SpinFits'
  BY <1>38 DEF Retake
<1>39. CASE UNCHANGED svars
  BY <1>39 DEF svars
<1>40. QED
  BY <1>1, <1>2, <1>3, <1>4, <1>5, <1>6, <1>7, <1>8, <1>9, <1>10, <1>11, <1>12, <1>13, <1>14,
     <1>15, <1>16, <1>17, <1>18, <1>19, <1>20, <1>21, <1>22, <1>23, <1>24, <1>25, <1>26, <1>27, <1>28,
     <1>29, <1>30, <1>31, <1>32, <1>33, <1>34, <1>35, <1>36, <1>37, <1>38, <1>39 DEF SchedNext, Step, MStep, Environment

\* The queue of a thread that has a goroutine grows: it is nobody else's.
LEMMA OwnQueueGrows ==
  ASSUME SchedInv, Loose, NEW m \in Ms, p[m] \in Ps, NEW l \in {"run", "found", "wakep"}, Go(m, l),
         \A r \in Ps : r # p[m] /\ runq[r] = 0 => runq'[r] = 0,
         UNCHANGED <<pidle, p, nextp, start, hand, spinning>>
  PROVE  EmptyFits'
<1>1. /\ p[m] \notin pidle
      /\ \A n \in Ms : nextp[n] # p[m] /\ (p[n] = p[m] => n = m)
      /\ \A t \in Threads : start[t].p # p[m] /\ (hand[t] = p[m] => mpc[t] = "syscall")
  BY Alone DEF SchedInv, NothingIsLost
<1>2. m \in Threads /\ mpc \in [Threads -> Locations] /\ pidle \subseteq Ps /\ p \in [Ms -> Ps \cup {Nil}]
      /\ nextp \in [Ms -> Ps \cup {Nil}] /\ hand \in [Threads -> Ps \cup {Nil}] /\ Ms \subseteq Threads
  BY ThreadsFit DEF Loose, Control, PsTyped
<1>3. \A t \in Threads : start[t].p \in Ps \cup {Nil}
  BY DEF Loose, ThreadsTyped, Starts
<1>4. \A t \in Threads : mpc[t] \in {"handoff2", "handoff3"} => hand[t] \in Ps
  BY PsFit
<1>5. \A n \in Ms : mpc[n] \in {"spin", "spin2", "steal", "release", "schedule"} => p[n] \in Ps
  BY PsFit
<1>6. /\ \A t \in Threads : mpc'[t] \in {"handoff2", "handoff3"} => mpc[t] \in {"handoff2", "handoff3"} /\ mpc'[t] = mpc[t]
      /\ \A n \in Ms : mpc'[n] \in {"spin", "spin2", "steal", "release", "schedule"} => n # m /\ mpc'[n] = mpc[n]
  BY <1>2
<1>7. EmptyFits
  BY DEF SchedInv
<1>8. \A q \in pidle : runq'[q] = 0
  BY <1>1, <1>2, <1>7 DEF EmptyFits
<1>9. ASSUME NEW t \in Threads
      PROVE  /\ start[t].spinning /\ start[t].p # Nil => runq'[start[t].p] = 0
             /\ mpc'[t] \in {"handoff2", "handoff3"} => runq'[hand[t]] = 0
  BY <1>1, <1>3, <1>4, <1>6, <1>7 DEF EmptyFits
<1>10. ASSUME NEW n \in Ms
       PROVE  /\ n \in spinning /\ nextp[n] # Nil => runq'[nextp[n]] = 0
              /\ n \in spinning /\ mpc'[n] = "schedule" => runq'[p[n]] = 0
              /\ mpc'[n] \in {"spin", "spin2", "steal", "release"} => runq'[p[n]] = 0
  BY <1>1, <1>2, <1>5, <1>6, <1>7 DEF EmptyFits
<1>11. QED  BY <1>8, <1>9, <1>10 DEF EmptyFits

\* Every step keeps what is said about Ps without local work.
LEMMA NextEmptyFits ==
  ASSUME SchedInv, Loose, [SchedNext]_svars
  PROVE  EmptyFits'
<1>0. Control /\ PsTyped /\ ThreadsTyped /\ QueuesTyped /\ EmptyFits /\ IdleFits /\ SpinFits /\ StartFits /\ RetFits
  BY DEF Loose, SchedInv
<1> HIDE DEF NoStart
<1> USE ThreadsFit, NoStartFits, NumbersFit, <1>0 DEF Control, PsTyped, ThreadsTyped, QueuesTyped, EmptyFits, IdleFits, SpinFits, StartFits, RetFits, Handing
<1>1. ASSUME NEW t \in Threads, WakepIdle(t)  PROVE EmptyFits'
  BY <1>1 DEF WakepIdle
<1>2. ASSUME NEW t \in Threads, Wakep(t)  PROVE EmptyFits'
  BY <1>2, WakepForm DEF Called
<1>3. ASSUME NEW t \in Threads, Startm(t)  PROVE EmptyFits'
  BY <1>3, StartmForm DEF Called
<1>4. ASSUME NEW t \in Threads, StartmFails(t)  PROVE EmptyFits'
  BY <1>4 DEF StartmFails
<1>5. ASSUME NEW t \in Threads, StartmUndo(t)  PROVE EmptyFits'
  BY <1>5 DEF StartmUndo
<1>6. ASSUME NEW t \in Threads, StartmWake(t)  PROVE EmptyFits'
  <2>1. /\ start[t].m \in Ms /\ start[t].m # t /\ mpc[t] = "startm2" /\ start[t].p \in Ps
        /\ mpc' = [mpc EXCEPT ![t] = ret[t], ![start[t].m] = "parked"]
        /\ nextp' = [nextp EXCEPT ![start[t].m] = start[t].p]
        /\ start' = [start EXCEPT ![t] = NoStart] /\ ret' = [ret EXCEPT ![t] = Nil]
    BY <1>6, StartmWakes
  <2>2. UNCHANGED <<p, hand, pidle, midle, looked, glist>>
    BY <1>6 DEF StartmWake
  <2>3. mpc[start[t].m] \in {"none", "parked"}
    BY <2>1 DEF SchedInv, IdleFits
  <2>30. t \in Ms => ret[t] \in {"run", "inject3", "syscall"}
    BY <2>1 DEF SchedInv, RetFits
  <2>31. t = Sysmon => ret[t] = "sysmon"
    BY <2>1 DEF SchedInv, RetFits
  <2>4. spinning' = IF start[t].spinning THEN spinning \cup {start[t].m} ELSE spinning
    BY <1>6, StartmWakes
  <2>5. runq' = runq
    BY <1>6 DEF StartmWake
  <2>6. start[t].m \notin spinning
    BY <1>6, StartmWakes
  <2>7. QED  BY <2>1, <2>2, <2>3, <2>30, <2>31, <2>4, <2>5, <2>6
<1>7. ASSUME NEW t \in Threads, Handoff(t)  PROVE EmptyFits'
  BY <1>7, HandoffForm DEF Called
<1>8. ASSUME NEW t \in Threads, HandoffSpin(t)  PROVE EmptyFits'
  BY <1>8, HandoffForm DEF Called
<1>9. ASSUME NEW t \in Threads, HandoffIdle(t)  PROVE EmptyFits'
  BY <1>9, HandoffForm DEF Called
<1>10. ASSUME NEW m \in Ms, Unpark(m)  PROVE EmptyFits'
  BY <1>10 DEF Unpark
<1>11. ASSUME NEW m \in Ms, Stopm(m)  PROVE EmptyFits'
  BY <1>11 DEF Stopm
<1>12. ASSUME NEW m \in Ms, Resetspinning(m)  PROVE EmptyFits'
  BY <1>12 DEF Resetspinning, StopSpinning
<1>13. ASSUME NEW m \in Ms, Exit0(m)  PROVE EmptyFits'
  BY <1>13 DEF Exit0, GetP
<1>14. ASSUME NEW m \in Ms, ScheduleGlobal(m)  PROVE EmptyFits'
  <2>1. mpc[m] = "schedule" /\ p[m] \in Ps
    BY <1>14, PsFit DEF ScheduleGlobal
  <2>2. \E n \in 1..RunqLen : runq' = [runq EXCEPT ![p[m]] = @ + n - 1]
    BY <1>14, <2>1, GlobrunqgetTakes DEF ScheduleGlobal
  <2>3. (Go(m, "found") \/ Go(m, "run")) /\ UNCHANGED <<p, nextp, start, hand, spinning, pidle>>
    BY <1>14 DEF ScheduleGlobal, GotG
  <2>4. QED  BY <2>1, <2>2, <2>3, OwnQueueGrows
<1>15. ASSUME NEW m \in Ms, RunqGet(m)  PROVE EmptyFits'
  <2>1. p[m] \in Ps /\ mpc[m] \in {"schedule", "top"} /\ UNCHANGED <<p, nextp, start, hand, spinning, pidle>>
    BY <1>15, RunqGetForm
  <2>2. CASE runq[p[m]] > 0 /\ GotG(m) /\ runq' = [runq EXCEPT ![p[m]] = @ - 1]
    <3>1. Go(m, "found") \/ Go(m, "run")
      BY <2>2 DEF GotG
    <3>2. QED  BY <2>1, <2>2, <3>1, OwnQueueGrows
  <2>3. CASE runq[p[m]] = 0 /\ globrunqget(p[m], 0) /\ GotG(m)
    <3>1. \E n \in 1..RunqLen : runq' = [runq EXCEPT ![p[m]] = @ + n - 1]
      BY <2>1, <2>3, GlobrunqgetTakes
    <3>2. Go(m, "found") \/ Go(m, "run")
      BY <2>3 DEF GotG
    <3>3. QED  BY <2>1, <3>1, <3>2, OwnQueueGrows
  <2>4. CASE runq[p[m]] = 0 /\ Go(m, "spin") /\ runq' = runq
    BY <2>1, <2>4
  <2>5. QED  BY <1>15, <2>2, <2>3, <2>4, RunqGetForm
<1>16. ASSUME NEW m \in Ms, Spin(m)  PROVE EmptyFits'
  BY <1>16 DEF Spin
<1>17. ASSUME NEW m \in Ms, StartSpinning(m, "spin2", "steal")  PROVE EmptyFits'
  BY <1>17 DEF StartSpinning
<1>18. ASSUME NEW m \in Ms, Steal(m)  PROVE EmptyFits'
  <2>1. PICK q \in Ps \ (pidle \cup {p[m]}) : runqsteal(p[m], q)
    BY <1>18 DEF Steal
  <2>2. mpc[m] = "steal" /\ p[m] \in Ps /\ runq[p[m]] = 0
    BY <1>18, PsFit DEF Steal, SchedInv, EmptyFits
  <2>3. PICK n \in 1..RunqLen : n <= runq[q] /\ runq' = [runq EXCEPT ![q] = @ - n, ![p[m]] = n - 1]
    BY <2>1, <2>2, RunqstealMoves
  <2>4. (Go(m, "found") \/ Go(m, "run")) /\ UNCHANGED <<p, nextp, start, hand, spinning, pidle>>
    BY <1>18 DEF Steal, GotG
  <2>5. runq[q] # 0
    BY <2>3
  <2>6. \A r \in Ps : r # p[m] /\ runq[r] = 0 => runq'[r] = 0
    BY <2>2, <2>3, <2>5
  <2>7. QED  BY <2>2, <2>4, <2>6, OwnQueueGrows
<1>19. ASSUME NEW m \in Ms, StealNothing(m)  PROVE EmptyFits'
  BY <1>19 DEF StealNothing, Passed
<1>20. ASSUME NEW m \in Ms, ReturnP(m)  PROVE EmptyFits'
  <2>1. mpc[m] = "release" /\ p[m] \in Ps /\ runq[p[m]] = 0 /\ UNCHANGED <<nextp, start, hand, spinning>>
    BY <1>20, ReturnPForm
  <2>2. CASE GotG(m) /\ globrunqget(p[m], 0) /\ UNCHANGED <<pidle, p>>
    <3>1. \E n \in 1..RunqLen : runq' = [runq EXCEPT ![p[m]] = @ + n - 1]
      BY <2>1, <2>2, GlobrunqgetTakes
    <3>2. Go(m, "found") \/ Go(m, "run")
      BY <2>2 DEF GotG
    <3>3. QED  BY <2>1, <2>2, <3>1, <3>2, OwnQueueGrows
  <2>3. CASE /\ Go(m, "unspin") \/ Go(m, "netpoll")
             /\ pidle' = pidle \cup {p[m]} /\ p' = [p EXCEPT ![m] = Nil] /\ runq' = runq
    BY <2>1, <2>3
  <2>4. QED  BY <1>20, <2>2, <2>3, ReturnPForm
<1>21. ASSUME NEW m \in Ms, Unspin(m)  PROVE EmptyFits'
  BY <1>21 DEF Unspin, StopSpinning
<1>22. ASSUME NEW m \in Ms, Recheck(m)  PROVE EmptyFits'
  BY <1>22 DEF Recheck, Passed
<1>23. ASSUME NEW m \in Ms, RecheckP(m)  PROVE EmptyFits'
  BY <1>23 DEF RecheckP, GetP
<1>24. ASSUME NEW m \in Ms, StartSpinning(m, "respin", "top")  PROVE EmptyFits'
  BY <1>24 DEF StartSpinning
<1>25. ASSUME NEW m \in Ms, Netpoll(m)  PROVE EmptyFits'
  BY <1>25 DEF Netpoll
<1>26. ASSUME NEW m \in Ms, PolledP(m)  PROVE EmptyFits'
  BY <1>26, PolledPForm
<1>27. ASSUME NEW m \in Ms, Inject(m)  PROVE EmptyFits'
  BY <1>27 DEF Inject
<1>28. ASSUME NEW m \in Ms, InjectGlobal(m)  PROVE EmptyFits'
  BY <1>28 DEF InjectGlobal
<1>29. ASSUME NEW m \in Ms, StartIdle(m)  PROVE EmptyFits'
  BY <1>29, StartIdleForm DEF Called
<1>30. ASSUME NEW m \in Ms, InjectLocal(m)  PROVE EmptyFits'
  <2>1. UNCHANGED <<p, nextp, start, hand, spinning, pidle>>
    BY <1>30 DEF InjectLocal
  <2>2. CASE p[m] = Nil
    BY <1>30, <2>1, <2>2 DEF InjectLocal
  <2>3. CASE p[m] # Nil
    <3>1. p[m] \in Ps /\ m \in Ms
      BY <2>3
    <3> DEFINE k == Min({glist[m].rest, RunqLen - runq[p[m]]})
    <3>2. Go(m, "run") /\ runq' = [runq EXCEPT ![p[m]] = @ + k]
      BY <1>30, <2>3 DEF InjectLocal
    <3> HIDE DEF k
    <3>3. \A r \in Ps : r # p[m] /\ runq[r] = 0 => runq'[r] = 0
      BY <3>1, <3>2
    <3> HIDE <1>0, ThreadsFit, NoStartFits, NumbersFit
    <3>4. QED  BY <2>1, <3>1, <3>2, <3>3, OwnQueueGrows
  <2>4. QED  BY <2>2, <2>3
<1>31. ASSUME NEW m \in Ms, Goready(m)  PROVE EmptyFits'
  <2>1. mpc[m] = "run" /\ p[m] \in Ps
    BY <1>31, PsFit DEF Goready
  <2>2. runqput(p[m]) /\ Go(m, "wakep") /\ UNCHANGED <<p, nextp, start, hand, spinning, pidle>>
    BY <1>31 DEF Goready, CallWakep
  <2>3. \A r \in Ps : r # p[m] /\ runq[r] = 0 => runq'[r] = 0
    BY <2>1, <2>2, RunqputPuts
  <2> HIDE <1>0, ThreadsFit, NoStartFits, NumbersFit
  <2>4. QED  BY <2>1, <2>2, <2>3, OwnQueueGrows
<1>32. ASSUME NEW m \in Ms, Park(m)  PROVE EmptyFits'
  BY <1>32 DEF Park
<1>33. ASSUME NEW m \in Ms, Gosched(m)  PROVE EmptyFits'
  BY <1>33 DEF Gosched
<1>34. ASSUME NEW m \in Ms, Entersyscall(m)  PROVE EmptyFits'
  BY <1>34 DEF Entersyscall
<1>35. ASSUME NEW m \in Ms, Entersyscallblock(m)  PROVE EmptyFits'
  BY <1>35 DEF Entersyscallblock
<1>36. ASSUME NEW m \in Ms, Exitsyscall(m)  PROVE EmptyFits'
  BY <1>36 DEF Exitsyscall
<1>37. ASSUME NEW m \in Ms, Polled(m)  PROVE EmptyFits'
  BY <1>37 DEF Polled
<1>38. ASSUME Retake  PROVE EmptyFits'
  BY <1>38 DEF Retake
<1>39. CASE UNCHANGED svars
  BY <1>39 DEF svars
<1>40. QED
  BY <1>1, <1>2, <1>3, <1>4, <1>5, <1>6, <1>7, <1>8, <1>9, <1>10, <1>11, <1>12, <1>13, <1>14,
     <1>15, <1>16, <1>17, <1>18, <1>19, <1>20, <1>21, <1>22, <1>23, <1>24, <1>25, <1>26, <1>27, <1>28,
     <1>29, <1>30, <1>31, <1>32, <1>33, <1>34, <1>35, <1>36, <1>37, <1>38, <1>39 DEF SchedNext, Step, MStep, Environment

\* Every step leaves every P with one owner.
LEMMA NextOneOwner ==
  ASSUME SchedInv, Loose, [SchedNext]_svars
  PROVE  OneOwner'
<1>0. Control /\ PsTyped /\ ThreadsTyped /\ IdleFits /\ StartFits /\ RetFits /\ PFits /\ OneOwner
  BY DEF Loose, SchedInv, NothingIsLost
<1>00. PICK kind, who : Held(kind, who)
  BY <1>0, OwnersHeld
<1> HIDE DEF NoStart
<1> USE ThreadsFit, NoStartFits, <1>0 DEF Control, PsTyped, ThreadsTyped, IdleFits, StartFits, RetFits, Handing
<1>1. ASSUME NEW t \in Threads, WakepIdle(t)  PROVE OneOwner'
  <2>1. UNCHANGED <<p, nextp, pidle, psyscall, hand>>
    BY <1>1 DEF WakepIdle
  <2>2. \A u \in Threads : start'[u].p = start[u].p
    BY <1>1 DEF WakepIdle
  <2>3. \A u \in Threads : hand[u] # Nil => mpc'[u] = mpc[u]
    BY <1>1 DEF WakepIdle
  <2>4. QED  BY <2>1, <2>2, <2>3, HeldStill
<1>2. ASSUME NEW t \in Threads, Wakep(t)  PROVE OneOwner'
  <2>1. UNCHANGED <<p, nextp, pidle, psyscall, hand>>
    BY <1>2, WakepForm DEF Called
  <2>2. \A u \in Threads : start'[u].p = start[u].p
    BY <1>2, WakepForm DEF Called
  <2>3. \A u \in Threads : hand[u] # Nil => mpc'[u] = mpc[u]
    BY <1>2, WakepForm DEF Called
  <2>4. QED  BY <2>1, <2>2, <2>3, HeldStill
<1>3. ASSUME NEW t \in Threads, Startm(t)  PROVE OneOwner'
  <2>100. PICK q \in Ps, m \in Ms :
         /\ mpc[t] = "startm" /\ Called(t, q, m, start[t].spinning)
         /\ (start[t].p = Nil /\ q \in pidle) \/ start[t].p = q
         /\ pidle' = pidle \ {q} /\ Go(t, "startm2")
         /\ UNCHANGED <<p, nextp, psyscall, hand>>
    BY <1>3, StartmForm
  <2>1. q \in Ps /\ t \in Threads /\ mpc[t] = "startm" /\ start'[t].p = q /\ ((start[t].p = Nil /\ q \in pidle) \/ start[t].p = q)
        /\ pidle' = pidle \ {q} /\ hand[t] = Nil /\ UNCHANGED <<p, nextp, psyscall, hand>>
        /\ \A u \in Threads : u # t => start'[u] = start[u] /\ mpc'[u] = mpc[u]
    BY <2>100 DEF Called
  <2>2. TRUE
    OBVIOUS
  <2>50. (kind[q] = "idle" /\ who[q] = Nil) \/ (kind[q] = "startm" /\ who[q] = t)
    <3>1. CASE start[t].p = Nil /\ q \in pidle
      <4>1. kind[q] = "idle"
        BY ONLY <1>00, <2>1, <3>1 DEF Held
      <4>2. \A r \in Ps : kind[r] = "idle" => who[r] = Nil
        BY ONLY <1>00 DEF Held
      <4> HIDE <1>0
      <4>3. QED  BY ONLY <2>1, <4>1, <4>2
    <3>2. CASE start[t].p = q
      BY <1>00, <2>1, <3>2 DEF Held
    <3>3. QED  BY <2>1, <3>1, <3>2
  <2>51. \A n \in Ms, r \in Ps : p'[n] = r <=> IF r = q THEN "startm" = "m" /\ t = n ELSE p[n] = r
    BY <1>00, <2>1, <2>2, <2>50 DEF Held, Called
  <2>52. \A n \in Ms, r \in Ps : nextp'[n] = r <=> IF r = q THEN "startm" = "nextp" /\ t = n ELSE nextp[n] = r
    BY <1>00, <2>1, <2>2, <2>50 DEF Held, Called
  <2>53. \A u \in Threads, r \in Ps : start'[u].p = r <=> IF r = q THEN "startm" = "startm" /\ t = u ELSE start[u].p = r
    BY <1>00, <2>1, <2>2, <2>50 DEF Held, Called
  <2>54. \A u \in Threads, r \in Ps : (hand'[u] = r /\ mpc'[u] # "syscall")
          <=> IF r = q THEN "startm" = "handoffp" /\ t = u ELSE hand[u] = r /\ mpc[u] # "syscall"
    BY <1>00, <2>1, <2>2, <2>50 DEF Held, Called
  <2>55. \A r \in Ps : r \in pidle' <=> IF r = q THEN "startm" = "idle" ELSE r \in pidle
    BY <1>00, <2>1, <2>2, <2>50 DEF Held, Called
  <2>56. \A r \in Ps : r \in psyscall' <=> IF r = q THEN "startm" = "syscall" ELSE r \in psyscall
    BY <1>00, <2>1, <2>2, <2>50 DEF Held, Called
  <2> HIDE <1>0, NoStartFits
  <2>57. QED
    BY ONLY <1>00, <2>1, <2>51, <2>52, <2>53, <2>54, <2>55, <2>56, ThreadsFit, HeldMoves
<1>4. ASSUME NEW t \in Threads, StartmFails(t)  PROVE OneOwner'
  <2>1. UNCHANGED <<p, nextp, pidle, psyscall, hand>>
    BY <1>4 DEF StartmFails
  <2>2. \A u \in Threads : start'[u].p = start[u].p
    BY <1>4 DEF StartmFails
  <2>3. \A u \in Threads : hand[u] # Nil => mpc'[u] = mpc[u]
    BY <1>4 DEF StartmFails
  <2>4. QED  BY <2>1, <2>2, <2>3, HeldStill
<1>5. ASSUME NEW t \in Threads, StartmUndo(t)  PROVE OneOwner'
  <2>1. UNCHANGED <<p, nextp, pidle, psyscall, hand>>
    BY <1>5 DEF StartmUndo
  <2>2. \A u \in Threads : start'[u].p = start[u].p
    BY <1>5 DEF StartmUndo
  <2>3. \A u \in Threads : hand[u] # Nil => mpc'[u] = mpc[u]
    BY <1>5 DEF StartmUndo
  <2>4. QED  BY <2>1, <2>2, <2>3, HeldStill
<1>6. ASSUME NEW t \in Threads, StartmWake(t)  PROVE OneOwner'
  <2>1. /\ start[t].m \in Ms /\ start[t].m # t /\ mpc[t] = "startm2" /\ start[t].p \in Ps
        /\ mpc' = [mpc EXCEPT ![t] = ret[t], ![start[t].m] = "parked"]
        /\ nextp' = [nextp EXCEPT ![start[t].m] = start[t].p]
        /\ start' = [start EXCEPT ![t] = NoStart] /\ ret' = [ret EXCEPT ![t] = Nil]
    BY <1>6, StartmWakes
  <2>2. UNCHANGED <<p, hand, pidle, midle, looked, glist>>
    BY <1>6 DEF StartmWake
  <2>3. mpc[start[t].m] \in {"none", "parked"}
    BY <2>1 DEF SchedInv, IdleFits
  <2>30. t \in Ms => ret[t] \in {"run", "inject3", "syscall"}
    BY <2>1 DEF SchedInv, RetFits
  <2>31. t = Sysmon => ret[t] = "sysmon"
    BY <2>1 DEF SchedInv, RetFits
  <2>4. PICK q \in Ps, m \in Ms : q = start[t].p /\ m = start[t].m
    BY <2>1
  <2>5. /\ q \in Ps /\ m \in Ms /\ m \in Threads /\ t \in Threads /\ start[t].p = q /\ nextp[m] = Nil
        /\ nextp' = [nextp EXCEPT ![m] = q] /\ start'[t].p = Nil /\ UNCHANGED <<p, hand, pidle, psyscall>>
    BY <1>6, <2>1, <2>2, <2>4, StartmWakes DEF StartmWake
  <2>6. hand[t] = Nil /\ hand[m] = Nil
    BY <2>1, <2>3, <2>4
  <2>7. \A u \in Threads : u # t => start'[u] = start[u]
    BY <2>1
  <2>8. \A u \in Threads : u # t /\ u # m => mpc'[u] = mpc[u]
    BY <2>1, <2>4
  <2>50. kind[q] = "startm" /\ who[q] = t
    BY <1>00, <2>5 DEF Held
  <2>51. \A n \in Ms, r \in Ps : p'[n] = r <=> IF r = q THEN "nextp" = "m" /\ m = n ELSE p[n] = r
    BY <1>00, <2>5, <2>6, <2>7, <2>8, <2>2, <2>50 DEF Held, Called
  <2>52. \A n \in Ms, r \in Ps : nextp'[n] = r <=> IF r = q THEN "nextp" = "nextp" /\ m = n ELSE nextp[n] = r
    BY <1>00, <2>5, <2>6, <2>7, <2>8, <2>2, <2>50 DEF Held, Called
  <2>53. \A u \in Threads, r \in Ps : start'[u].p = r <=> IF r = q THEN "nextp" = "startm" /\ m = u ELSE start[u].p = r
    BY <1>00, <2>5, <2>6, <2>7, <2>8, <2>2, <2>50 DEF Held, Called
  <2>54. \A u \in Threads, r \in Ps : (hand'[u] = r /\ mpc'[u] # "syscall")
          <=> IF r = q THEN "nextp" = "handoffp" /\ m = u ELSE hand[u] = r /\ mpc[u] # "syscall"
    BY <1>00, <2>5, <2>6, <2>7, <2>8, <2>2, <2>50 DEF Held, Called
  <2>55. \A r \in Ps : r \in pidle' <=> IF r = q THEN "nextp" = "idle" ELSE r \in pidle
    BY <1>00, <2>5, <2>6, <2>7, <2>8, <2>2, <2>50 DEF Held, Called
  <2>56. \A r \in Ps : r \in psyscall' <=> IF r = q THEN "nextp" = "syscall" ELSE r \in psyscall
    BY <1>00, <2>5, <2>6, <2>7, <2>8, <2>2, <2>50 DEF Held, Called
  <2> HIDE <1>0, NoStartFits
  <2>57. QED
    BY ONLY <1>00, <2>5, <2>51, <2>52, <2>53, <2>54, <2>55, <2>56, ThreadsFit, HeldMoves
<1>7. ASSUME NEW t \in Threads, Handoff(t)  PROVE OneOwner'
  <2>100. /\ mpc[t] \in {"handoff", "handoff2", "handoff3"} /\ hand[t] \in Ps
          /\ UNCHANGED <<p, nextp, psyscall>> /\ \A u \in Threads : u # t => mpc'[u] = mpc[u]
    <3>1. \A u \in Threads : u # t => mpc'[u] = mpc[u]
      BY <1>7, HandoffOthers
    <3>2. mpc[t] \in {"handoff", "handoff2", "handoff3"} /\ hand[t] \in Ps /\ UNCHANGED <<p, nextp, psyscall>>
      BY <1>7, HandoffForm
    <3>3. QED  BY <3>1, <3>2
  <2>101. CASE (Go(t, "handoff2") \/ Go(t, "handoff3")) /\ UNCHANGED <<hand, start, pidle>>
    <3>1. \A u \in Threads : mpc'[u] = "syscall" <=> mpc[u] = "syscall"
      BY <2>100, <2>101
    <3>2. QED  BY <2>100, <2>101, <3>1, HeldStill
  <2>102. CASE pidle' = pidle \cup {hand[t]} /\ hand' = [hand EXCEPT ![t] = Nil] /\ UNCHANGED start

    <3>1. /\ hand[t] \in Ps /\ t \in Threads /\ mpc[t] # "syscall" /\ UNCHANGED <<p, nextp, psyscall>>
      BY <2>100
    <3>2. /\ pidle' = pidle \cup {hand[t]} /\ hand' = [hand EXCEPT ![t] = Nil] /\ UNCHANGED start
          /\ \A u \in Threads : u # t => mpc'[u] = mpc[u]
      BY <2>100, <2>102
    <3>49. PICK q \in Ps : q = hand[t]
      BY <3>1
    <3>50. kind[q] = "handoffp" /\ who[q] = t
      BY <1>00, <3>1, <3>49 DEF Held
    <3>51. \A n \in Ms, r \in Ps : p'[n] = r <=> IF r = q THEN "idle" = "m" /\ Nil = n ELSE p[n] = r
      BY <1>00, <3>1, <3>2, <3>49, <3>50 DEF Held, Called
    <3>52. \A n \in Ms, r \in Ps : nextp'[n] = r <=> IF r = q THEN "idle" = "nextp" /\ Nil = n ELSE nextp[n] = r
      BY <1>00, <3>1, <3>2, <3>49, <3>50 DEF Held, Called
    <3>53. \A u \in Threads, r \in Ps : start'[u].p = r <=> IF r = q THEN "idle" = "startm" /\ Nil = u ELSE start[u].p = r
      BY <1>00, <3>1, <3>2, <3>49, <3>50 DEF Held, Called
    <3>54. \A u \in Threads, r \in Ps : (hand'[u] = r /\ mpc'[u] # "syscall")
            <=> IF r = q THEN "idle" = "handoffp" /\ Nil = u ELSE hand[u] = r /\ mpc[u] # "syscall"
      BY <1>00, <3>1, <3>2, <3>49, <3>50 DEF Held, Called
    <3>55. \A r \in Ps : r \in pidle' <=> IF r = q THEN "idle" = "idle" ELSE r \in pidle
      BY <1>00, <3>1, <3>2, <3>49, <3>50 DEF Held, Called
    <3>56. \A r \in Ps : r \in psyscall' <=> IF r = q THEN "idle" = "syscall" ELSE r \in psyscall
      BY <1>00, <3>1, <3>2, <3>49, <3>50 DEF Held, Called
    <3> HIDE <1>0, NoStartFits
    <3>57. QED
      BY ONLY <1>00, <3>1, <3>51, <3>52, <3>53, <3>54, <3>55, <3>56, ThreadsFit, HeldMoves
  <2>103. ASSUME NEW spin \in BOOLEAN, hand' = [hand EXCEPT ![t] = Nil], Called(t, hand[t], Nil, spin), UNCHANGED pidle
          PROVE  OneOwner'

    <3>1. /\ hand[t] \in Ps /\ t \in Threads /\ mpc[t] # "syscall" /\ UNCHANGED <<p, nextp, psyscall>>
      BY <2>100
    <3>2. /\ pidle' = pidle /\ hand' = [hand EXCEPT ![t] = Nil] /\ start'[t].p = hand[t] /\ start[t].p = Nil
          /\ \A u \in Threads : u # t => mpc'[u] = mpc[u] /\ start'[u] = start[u]
      BY <2>100, <2>103 DEF Called
    <3>49. PICK q \in Ps : q = hand[t]
      BY <3>1
    <3>50. kind[q] = "handoffp" /\ who[q] = t
      BY <1>00, <3>1, <3>49 DEF Held
    <3>51. \A n \in Ms, r \in Ps : p'[n] = r <=> IF r = q THEN "startm" = "m" /\ t = n ELSE p[n] = r
      BY <1>00, <3>1, <3>2, <3>49, <3>50 DEF Held, Called
    <3>52. \A n \in Ms, r \in Ps : nextp'[n] = r <=> IF r = q THEN "startm" = "nextp" /\ t = n ELSE nextp[n] = r
      BY <1>00, <3>1, <3>2, <3>49, <3>50 DEF Held, Called
    <3>53. \A u \in Threads, r \in Ps : start'[u].p = r <=> IF r = q THEN "startm" = "startm" /\ t = u ELSE start[u].p = r
      BY <1>00, <3>1, <3>2, <3>49, <3>50 DEF Held, Called
    <3>54. \A u \in Threads, r \in Ps : (hand'[u] = r /\ mpc'[u] # "syscall")
            <=> IF r = q THEN "startm" = "handoffp" /\ t = u ELSE hand[u] = r /\ mpc[u] # "syscall"
      BY <1>00, <3>1, <3>2, <3>49, <3>50 DEF Held, Called
    <3>55. \A r \in Ps : r \in pidle' <=> IF r = q THEN "startm" = "idle" ELSE r \in pidle
      BY <1>00, <3>1, <3>2, <3>49, <3>50 DEF Held, Called
    <3>56. \A r \in Ps : r \in psyscall' <=> IF r = q THEN "startm" = "syscall" ELSE r \in psyscall
      BY <1>00, <3>1, <3>2, <3>49, <3>50 DEF Held, Called
    <3> HIDE <1>0, NoStartFits
    <3>57. QED
      BY ONLY <1>00, <3>1, <3>51, <3>52, <3>53, <3>54, <3>55, <3>56, ThreadsFit, HeldMoves
  <2>104. QED  BY <1>7, <2>101, <2>102, <2>103, HandoffForm
<1>8. ASSUME NEW t \in Threads, HandoffSpin(t)  PROVE OneOwner'
  <2>100. /\ mpc[t] \in {"handoff", "handoff2", "handoff3"} /\ hand[t] \in Ps
          /\ UNCHANGED <<p, nextp, psyscall>> /\ \A u \in Threads : u # t => mpc'[u] = mpc[u]
    <3>1. \A u \in Threads : u # t => mpc'[u] = mpc[u]
      BY <1>8, HandoffOthers
    <3>2. mpc[t] \in {"handoff", "handoff2", "handoff3"} /\ hand[t] \in Ps /\ UNCHANGED <<p, nextp, psyscall>>
      BY <1>8, HandoffForm
    <3>3. QED  BY <3>1, <3>2
  <2>101. CASE (Go(t, "handoff2") \/ Go(t, "handoff3")) /\ UNCHANGED <<hand, start, pidle>>
    <3>1. \A u \in Threads : mpc'[u] = "syscall" <=> mpc[u] = "syscall"
      BY <2>100, <2>101
    <3>2. QED  BY <2>100, <2>101, <3>1, HeldStill
  <2>102. CASE pidle' = pidle \cup {hand[t]} /\ hand' = [hand EXCEPT ![t] = Nil] /\ UNCHANGED start

    <3>1. /\ hand[t] \in Ps /\ t \in Threads /\ mpc[t] # "syscall" /\ UNCHANGED <<p, nextp, psyscall>>
      BY <2>100
    <3>2. /\ pidle' = pidle \cup {hand[t]} /\ hand' = [hand EXCEPT ![t] = Nil] /\ UNCHANGED start
          /\ \A u \in Threads : u # t => mpc'[u] = mpc[u]
      BY <2>100, <2>102
    <3>49. PICK q \in Ps : q = hand[t]
      BY <3>1
    <3>50. kind[q] = "handoffp" /\ who[q] = t
      BY <1>00, <3>1, <3>49 DEF Held
    <3>51. \A n \in Ms, r \in Ps : p'[n] = r <=> IF r = q THEN "idle" = "m" /\ Nil = n ELSE p[n] = r
      BY <1>00, <3>1, <3>2, <3>49, <3>50 DEF Held, Called
    <3>52. \A n \in Ms, r \in Ps : nextp'[n] = r <=> IF r = q THEN "idle" = "nextp" /\ Nil = n ELSE nextp[n] = r
      BY <1>00, <3>1, <3>2, <3>49, <3>50 DEF Held, Called
    <3>53. \A u \in Threads, r \in Ps : start'[u].p = r <=> IF r = q THEN "idle" = "startm" /\ Nil = u ELSE start[u].p = r
      BY <1>00, <3>1, <3>2, <3>49, <3>50 DEF Held, Called
    <3>54. \A u \in Threads, r \in Ps : (hand'[u] = r /\ mpc'[u] # "syscall")
            <=> IF r = q THEN "idle" = "handoffp" /\ Nil = u ELSE hand[u] = r /\ mpc[u] # "syscall"
      BY <1>00, <3>1, <3>2, <3>49, <3>50 DEF Held, Called
    <3>55. \A r \in Ps : r \in pidle' <=> IF r = q THEN "idle" = "idle" ELSE r \in pidle
      BY <1>00, <3>1, <3>2, <3>49, <3>50 DEF Held, Called
    <3>56. \A r \in Ps : r \in psyscall' <=> IF r = q THEN "idle" = "syscall" ELSE r \in psyscall
      BY <1>00, <3>1, <3>2, <3>49, <3>50 DEF Held, Called
    <3> HIDE <1>0, NoStartFits
    <3>57. QED
      BY ONLY <1>00, <3>1, <3>51, <3>52, <3>53, <3>54, <3>55, <3>56, ThreadsFit, HeldMoves
  <2>103. ASSUME NEW spin \in BOOLEAN, hand' = [hand EXCEPT ![t] = Nil], Called(t, hand[t], Nil, spin), UNCHANGED pidle
          PROVE  OneOwner'

    <3>1. /\ hand[t] \in Ps /\ t \in Threads /\ mpc[t] # "syscall" /\ UNCHANGED <<p, nextp, psyscall>>
      BY <2>100
    <3>2. /\ pidle' = pidle /\ hand' = [hand EXCEPT ![t] = Nil] /\ start'[t].p = hand[t] /\ start[t].p = Nil
          /\ \A u \in Threads : u # t => mpc'[u] = mpc[u] /\ start'[u] = start[u]
      BY <2>100, <2>103 DEF Called
    <3>49. PICK q \in Ps : q = hand[t]
      BY <3>1
    <3>50. kind[q] = "handoffp" /\ who[q] = t
      BY <1>00, <3>1, <3>49 DEF Held
    <3>51. \A n \in Ms, r \in Ps : p'[n] = r <=> IF r = q THEN "startm" = "m" /\ t = n ELSE p[n] = r
      BY <1>00, <3>1, <3>2, <3>49, <3>50 DEF Held, Called
    <3>52. \A n \in Ms, r \in Ps : nextp'[n] = r <=> IF r = q THEN "startm" = "nextp" /\ t = n ELSE nextp[n] = r
      BY <1>00, <3>1, <3>2, <3>49, <3>50 DEF Held, Called
    <3>53. \A u \in Threads, r \in Ps : start'[u].p = r <=> IF r = q THEN "startm" = "startm" /\ t = u ELSE start[u].p = r
      BY <1>00, <3>1, <3>2, <3>49, <3>50 DEF Held, Called
    <3>54. \A u \in Threads, r \in Ps : (hand'[u] = r /\ mpc'[u] # "syscall")
            <=> IF r = q THEN "startm" = "handoffp" /\ t = u ELSE hand[u] = r /\ mpc[u] # "syscall"
      BY <1>00, <3>1, <3>2, <3>49, <3>50 DEF Held, Called
    <3>55. \A r \in Ps : r \in pidle' <=> IF r = q THEN "startm" = "idle" ELSE r \in pidle
      BY <1>00, <3>1, <3>2, <3>49, <3>50 DEF Held, Called
    <3>56. \A r \in Ps : r \in psyscall' <=> IF r = q THEN "startm" = "syscall" ELSE r \in psyscall
      BY <1>00, <3>1, <3>2, <3>49, <3>50 DEF Held, Called
    <3> HIDE <1>0, NoStartFits
    <3>57. QED
      BY ONLY <1>00, <3>1, <3>51, <3>52, <3>53, <3>54, <3>55, <3>56, ThreadsFit, HeldMoves
  <2>104. QED  BY <1>8, <2>101, <2>102, <2>103, HandoffForm
<1>9. ASSUME NEW t \in Threads, HandoffIdle(t)  PROVE OneOwner'
  <2>100. /\ mpc[t] \in {"handoff", "handoff2", "handoff3"} /\ hand[t] \in Ps
          /\ UNCHANGED <<p, nextp, psyscall>> /\ \A u \in Threads : u # t => mpc'[u] = mpc[u]
    <3>1. \A u \in Threads : u # t => mpc'[u] = mpc[u]
      BY <1>9, HandoffOthers
    <3>2. mpc[t] \in {"handoff", "handoff2", "handoff3"} /\ hand[t] \in Ps /\ UNCHANGED <<p, nextp, psyscall>>
      BY <1>9, HandoffForm
    <3>3. QED  BY <3>1, <3>2
  <2>101. CASE (Go(t, "handoff2") \/ Go(t, "handoff3")) /\ UNCHANGED <<hand, start, pidle>>
    <3>1. \A u \in Threads : mpc'[u] = "syscall" <=> mpc[u] = "syscall"
      BY <2>100, <2>101
    <3>2. QED  BY <2>100, <2>101, <3>1, HeldStill
  <2>102. CASE pidle' = pidle \cup {hand[t]} /\ hand' = [hand EXCEPT ![t] = Nil] /\ UNCHANGED start

    <3>1. /\ hand[t] \in Ps /\ t \in Threads /\ mpc[t] # "syscall" /\ UNCHANGED <<p, nextp, psyscall>>
      BY <2>100
    <3>2. /\ pidle' = pidle \cup {hand[t]} /\ hand' = [hand EXCEPT ![t] = Nil] /\ UNCHANGED start
          /\ \A u \in Threads : u # t => mpc'[u] = mpc[u]
      BY <2>100, <2>102
    <3>49. PICK q \in Ps : q = hand[t]
      BY <3>1
    <3>50. kind[q] = "handoffp" /\ who[q] = t
      BY <1>00, <3>1, <3>49 DEF Held
    <3>51. \A n \in Ms, r \in Ps : p'[n] = r <=> IF r = q THEN "idle" = "m" /\ Nil = n ELSE p[n] = r
      BY <1>00, <3>1, <3>2, <3>49, <3>50 DEF Held, Called
    <3>52. \A n \in Ms, r \in Ps : nextp'[n] = r <=> IF r = q THEN "idle" = "nextp" /\ Nil = n ELSE nextp[n] = r
      BY <1>00, <3>1, <3>2, <3>49, <3>50 DEF Held, Called
    <3>53. \A u \in Threads, r \in Ps : start'[u].p = r <=> IF r = q THEN "idle" = "startm" /\ Nil = u ELSE start[u].p = r
      BY <1>00, <3>1, <3>2, <3>49, <3>50 DEF Held, Called
    <3>54. \A u \in Threads, r \in Ps : (hand'[u] = r /\ mpc'[u] # "syscall")
            <=> IF r = q THEN "idle" = "handoffp" /\ Nil = u ELSE hand[u] = r /\ mpc[u] # "syscall"
      BY <1>00, <3>1, <3>2, <3>49, <3>50 DEF Held, Called
    <3>55. \A r \in Ps : r \in pidle' <=> IF r = q THEN "idle" = "idle" ELSE r \in pidle
      BY <1>00, <3>1, <3>2, <3>49, <3>50 DEF Held, Called
    <3>56. \A r \in Ps : r \in psyscall' <=> IF r = q THEN "idle" = "syscall" ELSE r \in psyscall
      BY <1>00, <3>1, <3>2, <3>49, <3>50 DEF Held, Called
    <3> HIDE <1>0, NoStartFits
    <3>57. QED
      BY ONLY <1>00, <3>1, <3>51, <3>52, <3>53, <3>54, <3>55, <3>56, ThreadsFit, HeldMoves
  <2>103. ASSUME NEW spin \in BOOLEAN, hand' = [hand EXCEPT ![t] = Nil], Called(t, hand[t], Nil, spin), UNCHANGED pidle
          PROVE  OneOwner'

    <3>1. /\ hand[t] \in Ps /\ t \in Threads /\ mpc[t] # "syscall" /\ UNCHANGED <<p, nextp, psyscall>>
      BY <2>100
    <3>2. /\ pidle' = pidle /\ hand' = [hand EXCEPT ![t] = Nil] /\ start'[t].p = hand[t] /\ start[t].p = Nil
          /\ \A u \in Threads : u # t => mpc'[u] = mpc[u] /\ start'[u] = start[u]
      BY <2>100, <2>103 DEF Called
    <3>49. PICK q \in Ps : q = hand[t]
      BY <3>1
    <3>50. kind[q] = "handoffp" /\ who[q] = t
      BY <1>00, <3>1, <3>49 DEF Held
    <3>51. \A n \in Ms, r \in Ps : p'[n] = r <=> IF r = q THEN "startm" = "m" /\ t = n ELSE p[n] = r
      BY <1>00, <3>1, <3>2, <3>49, <3>50 DEF Held, Called
    <3>52. \A n \in Ms, r \in Ps : nextp'[n] = r <=> IF r = q THEN "startm" = "nextp" /\ t = n ELSE nextp[n] = r
      BY <1>00, <3>1, <3>2, <3>49, <3>50 DEF Held, Called
    <3>53. \A u \in Threads, r \in Ps : start'[u].p = r <=> IF r = q THEN "startm" = "startm" /\ t = u ELSE start[u].p = r
      BY <1>00, <3>1, <3>2, <3>49, <3>50 DEF Held, Called
    <3>54. \A u \in Threads, r \in Ps : (hand'[u] = r /\ mpc'[u] # "syscall")
            <=> IF r = q THEN "startm" = "handoffp" /\ t = u ELSE hand[u] = r /\ mpc[u] # "syscall"
      BY <1>00, <3>1, <3>2, <3>49, <3>50 DEF Held, Called
    <3>55. \A r \in Ps : r \in pidle' <=> IF r = q THEN "startm" = "idle" ELSE r \in pidle
      BY <1>00, <3>1, <3>2, <3>49, <3>50 DEF Held, Called
    <3>56. \A r \in Ps : r \in psyscall' <=> IF r = q THEN "startm" = "syscall" ELSE r \in psyscall
      BY <1>00, <3>1, <3>2, <3>49, <3>50 DEF Held, Called
    <3> HIDE <1>0, NoStartFits
    <3>57. QED
      BY ONLY <1>00, <3>1, <3>51, <3>52, <3>53, <3>54, <3>55, <3>56, ThreadsFit, HeldMoves
  <2>104. QED  BY <1>9, <2>101, <2>102, <2>103, HandoffForm
<1>10. ASSUME NEW m \in Ms, Unpark(m)  PROVE OneOwner'
  <2>100. PICK q \in Ps : q = nextp[m]
    BY <1>10 DEF Unpark
  <2>1. /\ q \in Ps /\ m \in Ms /\ m \in Threads /\ nextp[m] = q /\ p[m] = Nil /\ hand[m] = Nil
        /\ nextp' = [nextp EXCEPT ![m] = Nil] /\ p' = [p EXCEPT ![m] = q] /\ UNCHANGED <<start, hand, pidle, psyscall>>
        /\ \A u \in Threads : u # m => mpc'[u] = mpc[u]
    BY <1>10, <2>100 DEF Unpark, PFits, WithoutP
  <2>2. TRUE
    OBVIOUS
  <2>50. kind[q] = "nextp" /\ who[q] = m
    BY <1>00, <2>1 DEF Held
  <2>51. \A n \in Ms, r \in Ps : p'[n] = r <=> IF r = q THEN "m" = "m" /\ m = n ELSE p[n] = r
    BY <1>00, <2>1, <2>2, <2>50 DEF Held, Called
  <2>52. \A n \in Ms, r \in Ps : nextp'[n] = r <=> IF r = q THEN "m" = "nextp" /\ m = n ELSE nextp[n] = r
    BY <1>00, <2>1, <2>2, <2>50 DEF Held, Called
  <2>53. \A u \in Threads, r \in Ps : start'[u].p = r <=> IF r = q THEN "m" = "startm" /\ m = u ELSE start[u].p = r
    BY <1>00, <2>1, <2>2, <2>50 DEF Held, Called
  <2>54. \A u \in Threads, r \in Ps : (hand'[u] = r /\ mpc'[u] # "syscall")
          <=> IF r = q THEN "m" = "handoffp" /\ m = u ELSE hand[u] = r /\ mpc[u] # "syscall"
    BY <1>00, <2>1, <2>2, <2>50 DEF Held, Called
  <2>55. \A r \in Ps : r \in pidle' <=> IF r = q THEN "m" = "idle" ELSE r \in pidle
    BY <1>00, <2>1, <2>2, <2>50 DEF Held, Called
  <2>56. \A r \in Ps : r \in psyscall' <=> IF r = q THEN "m" = "syscall" ELSE r \in psyscall
    BY <1>00, <2>1, <2>2, <2>50 DEF Held, Called
  <2> HIDE <1>0, NoStartFits
  <2>57. QED
    BY ONLY <1>00, <2>1, <2>51, <2>52, <2>53, <2>54, <2>55, <2>56, ThreadsFit, HeldMoves
<1>11. ASSUME NEW m \in Ms, Stopm(m)  PROVE OneOwner'
  <2>1. UNCHANGED <<p, nextp, pidle, psyscall, hand>>
    BY <1>11 DEF Stopm
  <2>2. \A u \in Threads : start'[u].p = start[u].p
    BY <1>11 DEF Stopm
  <2>3. \A u \in Threads : hand[u] # Nil => mpc'[u] = mpc[u]
    BY <1>11 DEF Stopm
  <2>4. QED  BY <2>1, <2>2, <2>3, HeldStill
<1>12. ASSUME NEW m \in Ms, Resetspinning(m)  PROVE OneOwner'
  <2>1. UNCHANGED <<p, nextp, pidle, psyscall, hand>>
    BY <1>12 DEF Resetspinning, StopSpinning
  <2>2. \A u \in Threads : start'[u].p = start[u].p
    BY <1>12 DEF Resetspinning, StopSpinning
  <2>3. \A u \in Threads : hand[u] # Nil => mpc'[u] = mpc[u]
    BY <1>12 DEF Resetspinning, StopSpinning
  <2>4. QED  BY <2>1, <2>2, <2>3, HeldStill
<1>13. ASSUME NEW m \in Ms, Exit0(m)  PROVE OneOwner'
  <2> USE DEF PFits, WithoutP
  <2>100. CASE pidle = {}
    <3>1. UNCHANGED <<p, nextp, pidle, psyscall, hand>>
      BY <1>13, <2>100 DEF Exit0
    <3>2. \A u \in Threads : start'[u].p = start[u].p
      BY <1>13, <2>100 DEF Exit0
    <3>3. \A u \in Threads : hand[u] # Nil => mpc'[u] = mpc[u]
      BY <1>13, <2>100 DEF Exit0
    <3>4. QED  BY <3>1, <3>2, <3>3, HeldStill
  <2>101. CASE pidle # {}
    <3>1. PICK q \in Ps : /\ q \in pidle /\ m \in Ms /\ m \in Threads /\ p' = [p EXCEPT ![m] = q] /\ pidle' = pidle \ {q} /\ p[m] = Nil
                          /\ UNCHANGED <<nextp, start, hand, psyscall>> /\ hand[m] = Nil /\ \A u \in Threads : u # m => mpc'[u] = mpc[u]
      BY <1>13, <2>101 DEF Exit0, GetP
    <3>2. TRUE
      OBVIOUS
    <3>50. kind[q] = "idle" /\ who[q] = Nil
      BY <1>00, <3>1 DEF Held
    <3>51. \A n \in Ms, r \in Ps : p'[n] = r <=> IF r = q THEN "m" = "m" /\ m = n ELSE p[n] = r
      BY <1>00, <3>1, <3>2, <3>50 DEF Held, Called
    <3>52. \A n \in Ms, r \in Ps : nextp'[n] = r <=> IF r = q THEN "m" = "nextp" /\ m = n ELSE nextp[n] = r
      BY <1>00, <3>1, <3>2, <3>50 DEF Held, Called
    <3>53. \A u \in Threads, r \in Ps : start'[u].p = r <=> IF r = q THEN "m" = "startm" /\ m = u ELSE start[u].p = r
      BY <1>00, <3>1, <3>2, <3>50 DEF Held, Called
    <3>54. \A u \in Threads, r \in Ps : (hand'[u] = r /\ mpc'[u] # "syscall")
            <=> IF r = q THEN "m" = "handoffp" /\ m = u ELSE hand[u] = r /\ mpc[u] # "syscall"
      BY <1>00, <3>1, <3>2, <3>50 DEF Held, Called
    <3>55. \A r \in Ps : r \in pidle' <=> IF r = q THEN "m" = "idle" ELSE r \in pidle
      BY <1>00, <3>1, <3>2, <3>50 DEF Held, Called
    <3>56. \A r \in Ps : r \in psyscall' <=> IF r = q THEN "m" = "syscall" ELSE r \in psyscall
      BY <1>00, <3>1, <3>2, <3>50 DEF Held, Called
    <3> HIDE <1>0, NoStartFits
    <3>57. QED
      BY ONLY <1>00, <3>1, <3>51, <3>52, <3>53, <3>54, <3>55, <3>56, ThreadsFit, HeldMoves
  <2>102. QED  BY <2>100, <2>101
<1>14. ASSUME NEW m \in Ms, ScheduleGlobal(m)  PROVE OneOwner'
  <2>1. UNCHANGED <<p, nextp, pidle, psyscall, hand>>
    BY <1>14 DEF ScheduleGlobal, GotG
  <2>2. \A u \in Threads : start'[u].p = start[u].p
    BY <1>14 DEF ScheduleGlobal, GotG
  <2>3. \A u \in Threads : hand[u] # Nil => mpc'[u] = mpc[u]
    BY <1>14 DEF ScheduleGlobal, GotG
  <2>4. QED  BY <2>1, <2>2, <2>3, HeldStill
<1>15. ASSUME NEW m \in Ms, RunqGet(m)  PROVE OneOwner'
  <2>1. UNCHANGED <<p, nextp, pidle, psyscall, hand>>
    BY <1>15, RunqGetForm DEF GotG
  <2>2. \A u \in Threads : start'[u].p = start[u].p
    BY <1>15, RunqGetForm DEF GotG
  <2>3. \A u \in Threads : hand[u] # Nil => mpc'[u] = mpc[u]
    BY <1>15, RunqGetForm DEF GotG
  <2>4. QED  BY <2>1, <2>2, <2>3, HeldStill
<1>16. ASSUME NEW m \in Ms, Spin(m)  PROVE OneOwner'
  <2>1. UNCHANGED <<p, nextp, pidle, psyscall, hand>>
    BY <1>16 DEF Spin
  <2>2. \A u \in Threads : start'[u].p = start[u].p
    BY <1>16 DEF Spin
  <2>3. \A u \in Threads : hand[u] # Nil => mpc'[u] = mpc[u]
    BY <1>16 DEF Spin
  <2>4. QED  BY <2>1, <2>2, <2>3, HeldStill
<1>17. ASSUME NEW m \in Ms, StartSpinning(m, "spin2", "steal")  PROVE OneOwner'
  <2>1. UNCHANGED <<p, nextp, pidle, psyscall, hand>>
    BY <1>17 DEF StartSpinning
  <2>2. \A u \in Threads : start'[u].p = start[u].p
    BY <1>17 DEF StartSpinning
  <2>3. \A u \in Threads : hand[u] # Nil => mpc'[u] = mpc[u]
    BY <1>17 DEF StartSpinning
  <2>4. QED  BY <2>1, <2>2, <2>3, HeldStill
<1>18. ASSUME NEW m \in Ms, Steal(m)  PROVE OneOwner'
  <2>1. UNCHANGED <<p, nextp, pidle, psyscall, hand>>
    BY <1>18 DEF Steal, runqsteal, GotG
  <2>2. \A u \in Threads : start'[u].p = start[u].p
    BY <1>18 DEF Steal, runqsteal, GotG
  <2>3. \A u \in Threads : hand[u] # Nil => mpc'[u] = mpc[u]
    BY <1>18 DEF Steal, runqsteal, GotG
  <2>4. QED  BY <2>1, <2>2, <2>3, HeldStill
<1>19. ASSUME NEW m \in Ms, StealNothing(m)  PROVE OneOwner'
  <2>1. UNCHANGED <<p, nextp, pidle, psyscall, hand>>
    BY <1>19 DEF StealNothing, Passed
  <2>2. \A u \in Threads : start'[u].p = start[u].p
    BY <1>19 DEF StealNothing, Passed
  <2>3. \A u \in Threads : hand[u] # Nil => mpc'[u] = mpc[u]
    BY <1>19 DEF StealNothing, Passed
  <2>4. QED  BY <2>1, <2>2, <2>3, HeldStill
<1>20. ASSUME NEW m \in Ms, ReturnP(m)  PROVE OneOwner'
  <2>100. CASE UNCHANGED <<pidle, p>>
    <3>1. UNCHANGED <<nextp, psyscall, hand, start>> /\ mpc[m] = "release"
      BY <1>20, ReturnPForm
    <3>2. \A u \in Threads : u # m => mpc'[u] = mpc[u]
      BY <1>20, ReturnPForm DEF GotG
    <3>3. QED  BY <2>100, <3>1, <3>2, HeldStill
  <2>101. ASSUME pidle' = pidle \cup {p[m]}, p' = [p EXCEPT ![m] = Nil]
          PROVE  OneOwner'

    <3>1. /\ p[m] \in Ps /\ m \in Ms /\ m \in Threads /\ hand[m] = Nil /\ pidle' = pidle \cup {p[m]} /\ p' = [p EXCEPT ![m] = Nil]
          /\ UNCHANGED <<nextp, psyscall, hand, start>>
      BY <1>20, <2>101, ReturnPForm
    <3>2. \A u \in Threads : u # m => mpc'[u] = mpc[u]
      BY <1>20, ReturnPForm DEF GotG
    <3>49. PICK q \in Ps : q = p[m]
      BY <3>1
    <3>50. kind[q] = "m" /\ who[q] = m
      BY <1>00, <3>1, <3>49 DEF Held
    <3>51. \A n \in Ms, r \in Ps : p'[n] = r <=> IF r = q THEN "idle" = "m" /\ Nil = n ELSE p[n] = r
      BY <1>00, <3>1, <3>2, <3>49, <3>50 DEF Held, Called
    <3>52. \A n \in Ms, r \in Ps : nextp'[n] = r <=> IF r = q THEN "idle" = "nextp" /\ Nil = n ELSE nextp[n] = r
      BY <1>00, <3>1, <3>2, <3>49, <3>50 DEF Held, Called
    <3>53. \A u \in Threads, r \in Ps : start'[u].p = r <=> IF r = q THEN "idle" = "startm" /\ Nil = u ELSE start[u].p = r
      BY <1>00, <3>1, <3>2, <3>49, <3>50 DEF Held, Called
    <3>54. \A u \in Threads, r \in Ps : (hand'[u] = r /\ mpc'[u] # "syscall")
            <=> IF r = q THEN "idle" = "handoffp" /\ Nil = u ELSE hand[u] = r /\ mpc[u] # "syscall"
      BY <1>00, <3>1, <3>2, <3>49, <3>50 DEF Held, Called
    <3>55. \A r \in Ps : r \in pidle' <=> IF r = q THEN "idle" = "idle" ELSE r \in pidle
      BY <1>00, <3>1, <3>2, <3>49, <3>50 DEF Held, Called
    <3>56. \A r \in Ps : r \in psyscall' <=> IF r = q THEN "idle" = "syscall" ELSE r \in psyscall
      BY <1>00, <3>1, <3>2, <3>49, <3>50 DEF Held, Called
    <3> HIDE <1>0, NoStartFits
    <3>57. QED
      BY ONLY <1>00, <3>1, <3>51, <3>52, <3>53, <3>54, <3>55, <3>56, ThreadsFit, HeldMoves
  <2>102. QED  BY <1>20, <2>100, <2>101, ReturnPForm
<1>21. ASSUME NEW m \in Ms, Unspin(m)  PROVE OneOwner'
  <2>1. UNCHANGED <<p, nextp, pidle, psyscall, hand>>
    BY <1>21 DEF Unspin, StopSpinning
  <2>2. \A u \in Threads : start'[u].p = start[u].p
    BY <1>21 DEF Unspin, StopSpinning
  <2>3. \A u \in Threads : hand[u] # Nil => mpc'[u] = mpc[u]
    BY <1>21 DEF Unspin, StopSpinning
  <2>4. QED  BY <2>1, <2>2, <2>3, HeldStill
<1>22. ASSUME NEW m \in Ms, Recheck(m)  PROVE OneOwner'
  <2>1. UNCHANGED <<p, nextp, pidle, psyscall, hand>>
    BY <1>22 DEF Recheck, Passed
  <2>2. \A u \in Threads : start'[u].p = start[u].p
    BY <1>22 DEF Recheck, Passed
  <2>3. \A u \in Threads : hand[u] # Nil => mpc'[u] = mpc[u]
    BY <1>22 DEF Recheck, Passed
  <2>4. QED  BY <2>1, <2>2, <2>3, HeldStill
<1>23. ASSUME NEW m \in Ms, RecheckP(m)  PROVE OneOwner'
  <2> USE DEF PFits, WithoutP
  <2>100. CASE pidle = {}
    <3>1. UNCHANGED <<p, nextp, pidle, psyscall, hand>>
      BY <1>23, <2>100 DEF RecheckP
    <3>2. \A u \in Threads : start'[u].p = start[u].p
      BY <1>23, <2>100 DEF RecheckP
    <3>3. \A u \in Threads : hand[u] # Nil => mpc'[u] = mpc[u]
      BY <1>23, <2>100 DEF RecheckP
    <3>4. QED  BY <3>1, <3>2, <3>3, HeldStill
  <2>101. CASE pidle # {}
    <3>1. PICK q \in Ps : /\ q \in pidle /\ m \in Ms /\ m \in Threads /\ p' = [p EXCEPT ![m] = q] /\ pidle' = pidle \ {q} /\ p[m] = Nil
                          /\ UNCHANGED <<nextp, start, hand, psyscall>> /\ hand[m] = Nil /\ \A u \in Threads : u # m => mpc'[u] = mpc[u]
      BY <1>23, <2>101 DEF RecheckP, GetP
    <3>2. TRUE
      OBVIOUS
    <3>50. kind[q] = "idle" /\ who[q] = Nil
      BY <1>00, <3>1 DEF Held
    <3>51. \A n \in Ms, r \in Ps : p'[n] = r <=> IF r = q THEN "m" = "m" /\ m = n ELSE p[n] = r
      BY <1>00, <3>1, <3>2, <3>50 DEF Held, Called
    <3>52. \A n \in Ms, r \in Ps : nextp'[n] = r <=> IF r = q THEN "m" = "nextp" /\ m = n ELSE nextp[n] = r
      BY <1>00, <3>1, <3>2, <3>50 DEF Held, Called
    <3>53. \A u \in Threads, r \in Ps : start'[u].p = r <=> IF r = q THEN "m" = "startm" /\ m = u ELSE start[u].p = r
      BY <1>00, <3>1, <3>2, <3>50 DEF Held, Called
    <3>54. \A u \in Threads, r \in Ps : (hand'[u] = r /\ mpc'[u] # "syscall")
            <=> IF r = q THEN "m" = "handoffp" /\ m = u ELSE hand[u] = r /\ mpc[u] # "syscall"
      BY <1>00, <3>1, <3>2, <3>50 DEF Held, Called
    <3>55. \A r \in Ps : r \in pidle' <=> IF r = q THEN "m" = "idle" ELSE r \in pidle
      BY <1>00, <3>1, <3>2, <3>50 DEF Held, Called
    <3>56. \A r \in Ps : r \in psyscall' <=> IF r = q THEN "m" = "syscall" ELSE r \in psyscall
      BY <1>00, <3>1, <3>2, <3>50 DEF Held, Called
    <3> HIDE <1>0, NoStartFits
    <3>57. QED
      BY ONLY <1>00, <3>1, <3>51, <3>52, <3>53, <3>54, <3>55, <3>56, ThreadsFit, HeldMoves
  <2>102. QED  BY <2>100, <2>101
<1>24. ASSUME NEW m \in Ms, StartSpinning(m, "respin", "top")  PROVE OneOwner'
  <2>1. UNCHANGED <<p, nextp, pidle, psyscall, hand>>
    BY <1>24 DEF StartSpinning
  <2>2. \A u \in Threads : start'[u].p = start[u].p
    BY <1>24 DEF StartSpinning
  <2>3. \A u \in Threads : hand[u] # Nil => mpc'[u] = mpc[u]
    BY <1>24 DEF StartSpinning
  <2>4. QED  BY <2>1, <2>2, <2>3, HeldStill
<1>25. ASSUME NEW m \in Ms, Netpoll(m)  PROVE OneOwner'
  <2>1. UNCHANGED <<p, nextp, pidle, psyscall, hand>>
    BY <1>25 DEF Netpoll
  <2>2. \A u \in Threads : start'[u].p = start[u].p
    BY <1>25 DEF Netpoll
  <2>3. \A u \in Threads : hand[u] # Nil => mpc'[u] = mpc[u]
    BY <1>25 DEF Netpoll
  <2>4. QED  BY <2>1, <2>2, <2>3, HeldStill
<1>26. ASSUME NEW m \in Ms, PolledP(m)  PROVE OneOwner'
  <2> USE DEF PFits, WithoutP
  <2>100. mpc[m] = "polled" /\ p[m] = Nil /\ UNCHANGED <<nextp, start, hand, psyscall>> /\ \A u \in Threads : u # m => mpc'[u] = mpc[u]
    BY <1>26, PolledPForm
  <2>101. CASE UNCHANGED <<p, pidle>>
    BY <2>100, <2>101, HeldStill
  <2>102. ASSUME NEW r0 \in pidle, p' = [p EXCEPT ![m] = r0], pidle' = pidle \ {r0}
          PROVE  OneOwner'
    <3>1. PICK q \in Ps : /\ q \in pidle /\ m \in Ms /\ m \in Threads /\ p' = [p EXCEPT ![m] = q] /\ pidle' = pidle \ {q} /\ p[m] = Nil
                          /\ UNCHANGED <<nextp, start, hand, psyscall>> /\ hand[m] = Nil /\ \A u \in Threads : u # m => mpc'[u] = mpc[u]
      BY <2>100, <2>102
    <3>2. TRUE
      OBVIOUS
    <3>50. kind[q] = "idle" /\ who[q] = Nil
      BY <1>00, <3>1 DEF Held
    <3>51. \A n \in Ms, r \in Ps : p'[n] = r <=> IF r = q THEN "m" = "m" /\ m = n ELSE p[n] = r
      BY <1>00, <3>1, <3>2, <3>50 DEF Held, Called
    <3>52. \A n \in Ms, r \in Ps : nextp'[n] = r <=> IF r = q THEN "m" = "nextp" /\ m = n ELSE nextp[n] = r
      BY <1>00, <3>1, <3>2, <3>50 DEF Held, Called
    <3>53. \A u \in Threads, r \in Ps : start'[u].p = r <=> IF r = q THEN "m" = "startm" /\ m = u ELSE start[u].p = r
      BY <1>00, <3>1, <3>2, <3>50 DEF Held, Called
    <3>54. \A u \in Threads, r \in Ps : (hand'[u] = r /\ mpc'[u] # "syscall")
            <=> IF r = q THEN "m" = "handoffp" /\ m = u ELSE hand[u] = r /\ mpc[u] # "syscall"
      BY <1>00, <3>1, <3>2, <3>50 DEF Held, Called
    <3>55. \A r \in Ps : r \in pidle' <=> IF r = q THEN "m" = "idle" ELSE r \in pidle
      BY <1>00, <3>1, <3>2, <3>50 DEF Held, Called
    <3>56. \A r \in Ps : r \in psyscall' <=> IF r = q THEN "m" = "syscall" ELSE r \in psyscall
      BY <1>00, <3>1, <3>2, <3>50 DEF Held, Called
    <3> HIDE <1>0, NoStartFits
    <3>57. QED
      BY ONLY <1>00, <3>1, <3>51, <3>52, <3>53, <3>54, <3>55, <3>56, ThreadsFit, HeldMoves
  <2>103. QED
    <3>1. UNCHANGED <<p, pidle>> \/ \E q \in pidle : p' = [p EXCEPT ![m] = q] /\ pidle' = pidle \ {q}
      BY <1>26, PolledPForm
    <3>2. QED  BY <2>101, <2>102, <3>1
<1>27. ASSUME NEW m \in Ms, Inject(m)  PROVE OneOwner'
  <2>1. UNCHANGED <<p, nextp, pidle, psyscall, hand>>
    BY <1>27 DEF Inject
  <2>2. \A u \in Threads : start'[u].p = start[u].p
    BY <1>27 DEF Inject
  <2>3. \A u \in Threads : hand[u] # Nil => mpc'[u] = mpc[u]
    BY <1>27 DEF Inject
  <2>4. QED  BY <2>1, <2>2, <2>3, HeldStill
<1>28. ASSUME NEW m \in Ms, InjectGlobal(m)  PROVE OneOwner'
  <2>1. UNCHANGED <<p, nextp, pidle, psyscall, hand>>
    BY <1>28 DEF InjectGlobal
  <2>2. \A u \in Threads : start'[u].p = start[u].p
    BY <1>28 DEF InjectGlobal
  <2>3. \A u \in Threads : hand[u] # Nil => mpc'[u] = mpc[u]
    BY <1>28 DEF InjectGlobal
  <2>4. QED  BY <2>1, <2>2, <2>3, HeldStill
<1>29. ASSUME NEW m \in Ms, StartIdle(m)  PROVE OneOwner'
  <2>1. UNCHANGED <<p, nextp, pidle, psyscall, hand>>
    BY <1>29, StartIdleForm DEF Called
  <2>2. \A u \in Threads : start'[u].p = start[u].p
    BY <1>29, StartIdleForm DEF Called
  <2>3. \A u \in Threads : hand[u] # Nil => mpc'[u] = mpc[u]
    BY <1>29, StartIdleForm DEF Called
  <2>4. QED  BY <2>1, <2>2, <2>3, HeldStill
<1>30. ASSUME NEW m \in Ms, InjectLocal(m)  PROVE OneOwner'
  <2>1. UNCHANGED <<p, nextp, pidle, psyscall, hand>>
    BY <1>30 DEF InjectLocal
  <2>2. \A u \in Threads : start'[u].p = start[u].p
    BY <1>30 DEF InjectLocal
  <2>3. \A u \in Threads : hand[u] # Nil => mpc'[u] = mpc[u]
    BY <1>30 DEF InjectLocal
  <2>4. QED  BY <2>1, <2>2, <2>3, HeldStill
<1>31. ASSUME NEW m \in Ms, Goready(m)  PROVE OneOwner'
  <2>1. UNCHANGED <<p, nextp, pidle, psyscall, hand>>
    BY <1>31 DEF Goready, CallWakep, runqput
  <2>2. \A u \in Threads : start'[u].p = start[u].p
    BY <1>31 DEF Goready, CallWakep, runqput
  <2>3. \A u \in Threads : hand[u] # Nil => mpc'[u] = mpc[u]
    BY <1>31 DEF Goready, CallWakep, runqput
  <2>4. QED  BY <2>1, <2>2, <2>3, HeldStill
<1>32. ASSUME NEW m \in Ms, Park(m)  PROVE OneOwner'
  <2>1. UNCHANGED <<p, nextp, pidle, psyscall, hand>>
    BY <1>32 DEF Park
  <2>2. \A u \in Threads : start'[u].p = start[u].p
    BY <1>32 DEF Park
  <2>3. \A u \in Threads : hand[u] # Nil => mpc'[u] = mpc[u]
    BY <1>32 DEF Park
  <2>4. QED  BY <2>1, <2>2, <2>3, HeldStill
<1>33. ASSUME NEW m \in Ms, Gosched(m)  PROVE OneOwner'
  <2>1. UNCHANGED <<p, nextp, pidle, psyscall, hand>>
    BY <1>33 DEF Gosched
  <2>2. \A u \in Threads : start'[u].p = start[u].p
    BY <1>33 DEF Gosched
  <2>3. \A u \in Threads : hand[u] # Nil => mpc'[u] = mpc[u]
    BY <1>33 DEF Gosched
  <2>4. QED  BY <2>1, <2>2, <2>3, HeldStill
<1>34. ASSUME NEW m \in Ms, Entersyscall(m)  PROVE OneOwner'
  <2>1. /\ p[m] \in Ps /\ m \in Ms /\ m \in Threads /\ hand[m] = Nil /\ psyscall' = psyscall \cup {p[m]} /\ p' = [p EXCEPT ![m] = Nil]
        /\ mpc'[m] = "syscall" /\ mpc[m] = "run" /\ hand' = [hand EXCEPT ![m] = p[m]]
        /\ UNCHANGED <<nextp, pidle, start>>
    BY <1>34, PsFit DEF Entersyscall
  <2>2. \A u \in Threads : u # m => mpc'[u] = mpc[u]
    BY <1>34 DEF Entersyscall
  <2>49. PICK q \in Ps : q = p[m]
    BY <2>1
  <2>50. kind[q] = "m" /\ who[q] = m
    BY <1>00, <2>1, <2>49 DEF Held
  <2>51. \A n \in Ms, r \in Ps : p'[n] = r <=> IF r = q THEN "syscall" = "m" /\ Nil = n ELSE p[n] = r
    BY <1>00, <2>1, <2>2, <2>49, <2>50 DEF Held, Called
  <2>52. \A n \in Ms, r \in Ps : nextp'[n] = r <=> IF r = q THEN "syscall" = "nextp" /\ Nil = n ELSE nextp[n] = r
    BY <1>00, <2>1, <2>2, <2>49, <2>50 DEF Held, Called
  <2>53. \A u \in Threads, r \in Ps : start'[u].p = r <=> IF r = q THEN "syscall" = "startm" /\ Nil = u ELSE start[u].p = r
    BY <1>00, <2>1, <2>2, <2>49, <2>50 DEF Held, Called
  <2>54. \A u \in Threads, r \in Ps : (hand'[u] = r /\ mpc'[u] # "syscall")
          <=> IF r = q THEN "syscall" = "handoffp" /\ Nil = u ELSE hand[u] = r /\ mpc[u] # "syscall"
    BY <1>00, <2>1, <2>2, <2>49, <2>50 DEF Held, Called
  <2>55. \A r \in Ps : r \in pidle' <=> IF r = q THEN "syscall" = "idle" ELSE r \in pidle
    BY <1>00, <2>1, <2>2, <2>49, <2>50 DEF Held, Called
  <2>56. \A r \in Ps : r \in psyscall' <=> IF r = q THEN "syscall" = "syscall" ELSE r \in psyscall
    BY <1>00, <2>1, <2>2, <2>49, <2>50 DEF Held, Called
  <2> HIDE <1>0, NoStartFits
  <2>57. QED
    BY ONLY <1>00, <2>1, <2>51, <2>52, <2>53, <2>54, <2>55, <2>56, ThreadsFit, HeldMoves
<1>35. ASSUME NEW m \in Ms, Entersyscallblock(m)  PROVE OneOwner'
  <2>1. /\ p[m] \in Ps /\ m \in Ms /\ m \in Threads /\ hand[m] = Nil /\ p' = [p EXCEPT ![m] = Nil]
        /\ mpc'[m] = "handoff" /\ mpc[m] = "run" /\ hand' = [hand EXCEPT ![m] = p[m]]
        /\ UNCHANGED <<nextp, pidle, psyscall, start>>
    BY <1>35, PsFit DEF Entersyscallblock
  <2>2. \A u \in Threads : u # m => mpc'[u] = mpc[u]
    BY <1>35 DEF Entersyscallblock
  <2>49. PICK q \in Ps : q = p[m]
    BY <2>1
  <2>50. kind[q] = "m" /\ who[q] = m
    BY <1>00, <2>1, <2>49 DEF Held
  <2>51. \A n \in Ms, r \in Ps : p'[n] = r <=> IF r = q THEN "handoffp" = "m" /\ m = n ELSE p[n] = r
    BY <1>00, <2>1, <2>2, <2>49, <2>50 DEF Held, Called
  <2>52. \A n \in Ms, r \in Ps : nextp'[n] = r <=> IF r = q THEN "handoffp" = "nextp" /\ m = n ELSE nextp[n] = r
    BY <1>00, <2>1, <2>2, <2>49, <2>50 DEF Held, Called
  <2>53. \A u \in Threads, r \in Ps : start'[u].p = r <=> IF r = q THEN "handoffp" = "startm" /\ m = u ELSE start[u].p = r
    BY <1>00, <2>1, <2>2, <2>49, <2>50 DEF Held, Called
  <2>54. \A u \in Threads, r \in Ps : (hand'[u] = r /\ mpc'[u] # "syscall")
          <=> IF r = q THEN "handoffp" = "handoffp" /\ m = u ELSE hand[u] = r /\ mpc[u] # "syscall"
    BY <1>00, <2>1, <2>2, <2>49, <2>50 DEF Held, Called
  <2>55. \A r \in Ps : r \in pidle' <=> IF r = q THEN "handoffp" = "idle" ELSE r \in pidle
    BY <1>00, <2>1, <2>2, <2>49, <2>50 DEF Held, Called
  <2>56. \A r \in Ps : r \in psyscall' <=> IF r = q THEN "handoffp" = "syscall" ELSE r \in psyscall
    BY <1>00, <2>1, <2>2, <2>49, <2>50 DEF Held, Called
  <2> HIDE <1>0, NoStartFits
  <2>57. QED
    BY ONLY <1>00, <2>1, <2>51, <2>52, <2>53, <2>54, <2>55, <2>56, ThreadsFit, HeldMoves
<1>36. ASSUME NEW m \in Ms, Exitsyscall(m)  PROVE OneOwner'
  <2>100. CASE hand[m] \in psyscall

    <3>1. /\ hand[m] \in Ps /\ hand[m] \in psyscall /\ m \in Ms /\ m \in Threads /\ p[m] = Nil /\ psyscall' = psyscall \ {hand[m]}
          /\ p' = [p EXCEPT ![m] = hand[m]] /\ mpc[m] = "syscall" /\ mpc'[m] = "run" /\ hand' = [hand EXCEPT ![m] = Nil]
          /\ UNCHANGED <<nextp, pidle, start>>
      BY <1>36, <2>100 DEF Exitsyscall, PFits, WithoutP
    <3>2. \A u \in Threads : u # m => mpc'[u] = mpc[u]
      BY <1>36, <2>100 DEF Exitsyscall
    <3>49. PICK q \in Ps : q = hand[m]
      BY <3>1
    <3>50. kind[q] = "syscall" /\ who[q] = Nil
      BY <1>00, <3>1, <3>49 DEF Held
    <3>51. \A n \in Ms, r \in Ps : p'[n] = r <=> IF r = q THEN "m" = "m" /\ m = n ELSE p[n] = r
      BY <1>00, <3>1, <3>2, <3>49, <3>50 DEF Held, Called
    <3>52. \A n \in Ms, r \in Ps : nextp'[n] = r <=> IF r = q THEN "m" = "nextp" /\ m = n ELSE nextp[n] = r
      BY <1>00, <3>1, <3>2, <3>49, <3>50 DEF Held, Called
    <3>53. \A u \in Threads, r \in Ps : start'[u].p = r <=> IF r = q THEN "m" = "startm" /\ m = u ELSE start[u].p = r
      BY <1>00, <3>1, <3>2, <3>49, <3>50 DEF Held, Called
    <3>54. \A u \in Threads, r \in Ps : (hand'[u] = r /\ mpc'[u] # "syscall")
            <=> IF r = q THEN "m" = "handoffp" /\ m = u ELSE hand[u] = r /\ mpc[u] # "syscall"
      BY <1>00, <3>1, <3>2, <3>49, <3>50 DEF Held, Called
    <3>55. \A r \in Ps : r \in pidle' <=> IF r = q THEN "m" = "idle" ELSE r \in pidle
      BY <1>00, <3>1, <3>2, <3>49, <3>50 DEF Held, Called
    <3>56. \A r \in Ps : r \in psyscall' <=> IF r = q THEN "m" = "syscall" ELSE r \in psyscall
      BY <1>00, <3>1, <3>2, <3>49, <3>50 DEF Held, Called
    <3> HIDE <1>0, NoStartFits
    <3>57. QED
      BY ONLY <1>00, <3>1, <3>51, <3>52, <3>53, <3>54, <3>55, <3>56, ThreadsFit, HeldMoves
  <2>101. CASE hand[m] \notin psyscall
    <3>1. /\ mpc[m] = "syscall" /\ hand' = [hand EXCEPT ![m] = Nil] /\ Go(m, "exit0")
          /\ UNCHANGED <<p, nextp, pidle, psyscall, start>>
      BY <1>36, <2>101 DEF Exitsyscall
    <3>2. Held(kind, who)'
      BY <1>00, <3>1 DEF Held
    <3>3. QED  BY <3>2, HeldNext DEF HeldSome
  <2>102. QED  BY <2>100, <2>101
<1>37. ASSUME NEW m \in Ms, Polled(m)  PROVE OneOwner'
  <2>1. UNCHANGED <<p, nextp, pidle, psyscall, hand>>
    BY <1>37 DEF Polled
  <2>2. \A u \in Threads : start'[u].p = start[u].p
    BY <1>37 DEF Polled
  <2>3. \A u \in Threads : hand[u] # Nil => mpc'[u] = mpc[u]
    BY <1>37 DEF Polled
  <2>4. QED  BY <2>1, <2>2, <2>3, HeldStill
<1>38. ASSUME Retake  PROVE OneOwner'
  <2>100. PICK q \in psyscall : psyscall' = psyscall \ {q} /\ hand' = [hand EXCEPT ![Sysmon] = q]
    BY <1>38 DEF Retake
  <2>1. /\ q \in Ps /\ q \in psyscall /\ Sysmon \in Threads /\ hand[Sysmon] = Nil /\ psyscall' = psyscall \ {q} /\ hand' = [hand EXCEPT ![Sysmon] = q]
        /\ mpc'[Sysmon] = "handoff" /\ mpc[Sysmon] = "sysmon"
        /\ UNCHANGED <<p, nextp, pidle, start>>
    BY <1>38, <2>100 DEF Retake
  <2>2. \A u \in Threads : u # Sysmon => mpc'[u] = mpc[u]
    BY <1>38 DEF Retake
  <2>50. kind[q] = "syscall" /\ who[q] = Nil
    BY <1>00, <2>1 DEF Held
  <2>51. \A n \in Ms, r \in Ps : p'[n] = r <=> IF r = q THEN "handoffp" = "m" /\ Sysmon = n ELSE p[n] = r
    BY <1>00, <2>1, <2>2, <2>50 DEF Held, Called
  <2>52. \A n \in Ms, r \in Ps : nextp'[n] = r <=> IF r = q THEN "handoffp" = "nextp" /\ Sysmon = n ELSE nextp[n] = r
    BY <1>00, <2>1, <2>2, <2>50 DEF Held, Called
  <2>53. \A u \in Threads, r \in Ps : start'[u].p = r <=> IF r = q THEN "handoffp" = "startm" /\ Sysmon = u ELSE start[u].p = r
    BY <1>00, <2>1, <2>2, <2>50 DEF Held, Called
  <2>54. \A u \in Threads, r \in Ps : (hand'[u] = r /\ mpc'[u] # "syscall")
          <=> IF r = q THEN "handoffp" = "handoffp" /\ Sysmon = u ELSE hand[u] = r /\ mpc[u] # "syscall"
    BY <1>00, <2>1, <2>2, <2>50 DEF Held, Called
  <2>55. \A r \in Ps : r \in pidle' <=> IF r = q THEN "handoffp" = "idle" ELSE r \in pidle
    BY <1>00, <2>1, <2>2, <2>50 DEF Held, Called
  <2>56. \A r \in Ps : r \in psyscall' <=> IF r = q THEN "handoffp" = "syscall" ELSE r \in psyscall
    BY <1>00, <2>1, <2>2, <2>50 DEF Held, Called
  <2> HIDE <1>0, NoStartFits
  <2>57. QED
    BY ONLY <1>00, <2>1, <2>51, <2>52, <2>53, <2>54, <2>55, <2>56, ThreadsFit, HeldMoves
<1>39. CASE UNCHANGED svars
  BY <1>39, HeldStill DEF svars
<1>40. QED
  BY <1>1, <1>2, <1>3, <1>4, <1>5, <1>6, <1>7, <1>8, <1>9, <1>10, <1>11, <1>12, <1>13, <1>14,
     <1>15, <1>16, <1>17, <1>18, <1>19, <1>20, <1>21, <1>22, <1>23, <1>24, <1>25, <1>26, <1>27, <1>28,
     <1>29, <1>30, <1>31, <1>32, <1>33, <1>34, <1>35, <1>36, <1>37, <1>38, <1>39 DEF SchedNext, Step, MStep, Environment

-----------------------------------------------------------------------------
(* The threads that spin. *)

\* Those for whom nmspinning has been raised though they do not spin yet.
Owed == {t \in Threads : start[t].spinning \/ mpc[t] = "startm3"}
SpinCount == nmspinning = Cardinality(spinning) + Cardinality(Owed)

\* Finitely many threads spin, or are owed a count.
LEMMA CountsFinite ==
  ASSUME Loose
  PROVE  /\ IsFiniteSet(spinning) /\ Cardinality(spinning) \in Nat
         /\ IsFiniteSet(Owed) /\ Cardinality(Owed) \in Nat
<1>1. IsFiniteSet(Ms) /\ IsFiniteSet(Threads)
  BY SchedAssumption, FS_AddElement DEF Threads
<1>2. IsFiniteSet(spinning) /\ IsFiniteSet(Owed)
  BY <1>1, FS_Subset DEF Loose, ThreadsTyped, Owed
<1>3. QED  BY <1>2, FS_CardinalityType

\* A step that neither starts nor ends spinning, nor a call of startm.
LEMMA CountStill ==
  ASSUME SpinCount, UNCHANGED <<nmspinning, spinning>>,
         \A t \in Threads : (start'[t].spinning \/ mpc'[t] = "startm3") <=> (start[t].spinning \/ mpc[t] = "startm3")
  PROVE  SpinCount'
<1>1. Owed' = Owed
  BY DEF Owed
<1>2. QED  BY <1>1 DEF SpinCount

\* Every step keeps the count of spinning threads.
LEMMA NextSpinCount ==
  ASSUME SchedInv, Loose, [SchedNext]_svars
  PROVE  SpinCount'
<1>0. Control /\ ThreadsTyped /\ nmspinning \in Nat /\ SpinFits /\ StartFits /\ RetFits /\ SpinCount
  BY DEF Loose, SchedInv, SpinnersCounted, SpinCount, Owed
<1> HIDE DEF NoStart
<1> USE ThreadsFit, NoStartFits, <1>0 DEF Control, ThreadsTyped, SpinFits, StartFits, RetFits, Handing
<1>1. ASSUME NEW t \in Threads, WakepIdle(t)  PROVE SpinCount'
  <2>1. UNCHANGED <<nmspinning, spinning>>
    BY <1>1 DEF WakepIdle
  <2>2. \A u \in Threads : (start'[u].spinning \/ mpc'[u] = "startm3") <=> (start[u].spinning \/ mpc[u] = "startm3")
    BY <1>1 DEF WakepIdle
  <2>3. QED  BY <2>1, <2>2, CountStill
<1>2. ASSUME NEW t \in Threads, Wakep(t)  PROVE SpinCount'
  <2>100. CASE UNCHANGED <<nmspinning, start>> /\ mpc'[t] # "startm3"
    <3>1. mpc[t] # "startm3" /\ spinning' = spinning /\ \A u \in Threads : u # t => mpc'[u] = mpc[u]
      BY <1>2 DEF Wakep, CallStartm
    <3>2. QED  BY <2>100, <3>1, CountStill
  <2>101. CASE /\ nmspinning = 0 /\ nmspinning' = 1 /\ start'[t].spinning /\ ~start[t].spinning /\ mpc[t] # "startm3"
               /\ \A u \in Threads : u # t => start'[u] = start[u]
    <3>1. spinning' = spinning /\ \A u \in Threads : u # t => mpc'[u] = mpc[u]
      BY <1>2 DEF Wakep, CallStartm
    <3>2. Owed' = Owed \cup {t} /\ t \notin Owed
      BY <2>101, <3>1 DEF Owed
    <3>3. Cardinality(Owed') = Cardinality(Owed) + 1
      <4>1. IsFiniteSet(Owed)
        BY CountsFinite
      <4>2. QED  BY ONLY <3>2, <4>1, FS_AddElement
    <3>4. QED  BY <2>101, <3>1, <3>3, CountsFinite DEF SpinCount
  <2>102. QED  BY <1>2, <2>100, <2>101, WakepForm DEF Called
<1>3. ASSUME NEW t \in Threads, Startm(t)  PROVE SpinCount'
  <2>1. UNCHANGED <<nmspinning, spinning>>
    BY <1>3, StartmForm DEF Called
  <2>2. \A u \in Threads : (start'[u].spinning \/ mpc'[u] = "startm3") <=> (start[u].spinning \/ mpc[u] = "startm3")
    BY <1>3, StartmForm DEF Called
  <2>3. QED  BY <2>1, <2>2, CountStill
<1>4. ASSUME NEW t \in Threads, StartmFails(t)  PROVE SpinCount'
  <2>1. UNCHANGED <<nmspinning, spinning>>
    BY <1>4 DEF StartmFails
  <2>2. \A u \in Threads : (start'[u].spinning \/ mpc'[u] = "startm3") <=> (start[u].spinning \/ mpc[u] = "startm3")
    BY <1>4 DEF StartmFails
  <2>3. QED  BY <2>1, <2>2, CountStill
<1>5. ASSUME NEW t \in Threads, StartmUndo(t)  PROVE SpinCount'
  <2>1. t \in Owed /\ Owed' = Owed \ {t}
    BY <1>5 DEF StartmUndo, Owed
  <2>2. Cardinality(Owed') = Cardinality(Owed) - 1
    BY <2>1, CountsFinite, FS_RemoveElement
  <2>3. spinning' = spinning /\ nmspinning' = nmspinning - 1
    BY <1>5 DEF StartmUndo
  <2>4. QED  BY <2>2, <2>3, CountsFinite DEF SpinCount
<1>6. ASSUME NEW t \in Threads, StartmWake(t)  PROVE SpinCount'
  <2>1. /\ start[t].m \in Ms /\ start[t].m # t /\ mpc[t] = "startm2" /\ start[t].p \in Ps
        /\ mpc' = [mpc EXCEPT ![t] = ret[t], ![start[t].m] = "parked"]
        /\ nextp' = [nextp EXCEPT ![start[t].m] = start[t].p]
        /\ start' = [start EXCEPT ![t] = NoStart] /\ ret' = [ret EXCEPT ![t] = Nil]
    BY <1>6, StartmWakes
  <2>2. UNCHANGED <<p, hand, pidle, midle, looked, glist>>
    BY <1>6 DEF StartmWake
  <2>3. mpc[start[t].m] \in {"none", "parked"}
    BY <2>1 DEF SchedInv, IdleFits
  <2>30. t \in Ms => ret[t] \in {"run", "inject3", "syscall"}
    BY <2>1 DEF SchedInv, RetFits
  <2>31. t = Sysmon => ret[t] = "sysmon"
    BY <2>1 DEF SchedInv, RetFits
  <2>4. /\ spinning' = IF start[t].spinning THEN spinning \cup {start[t].m} ELSE spinning
        /\ start[t].m \notin spinning /\ nmspinning' = nmspinning
    BY <1>6, StartmWakes DEF StartmWake
  <2>5. mpc'[t] # "startm3" /\ \A u \in Threads : u # t => (mpc'[u] = "startm3" <=> mpc[u] = "startm3")
    BY <2>1, <2>3, <2>30, <2>31
  <2>6. ~start'[t].spinning /\ \A u \in Threads : u # t => start'[u] = start[u]
    BY <2>1
  <2>7. CASE start[t].spinning
    <3>1. t \in Owed /\ Owed' = Owed \ {t}
      BY <2>5, <2>6, <2>7 DEF Owed
    <3>2. Cardinality(Owed') = Cardinality(Owed) - 1 /\ Cardinality(spinning') = Cardinality(spinning) + 1
      <4>1. IsFiniteSet(Owed) /\ IsFiniteSet(spinning) /\ spinning' = spinning \cup {start[t].m} /\ start[t].m \notin spinning
        BY <2>4, <2>7, CountsFinite
      <4>2. Cardinality(Owed') = Cardinality(Owed) - 1
        BY ONLY <3>1, <4>1, FS_RemoveElement
      <4>3. Cardinality(spinning') = Cardinality(spinning) + 1
        BY ONLY <4>1, FS_AddElement
      <4>4. QED  BY <4>2, <4>3
    <3>3. QED  BY <2>4, <3>2, CountsFinite DEF SpinCount
  <2>8. CASE ~start[t].spinning
    BY <2>1, <2>4, <2>5, <2>6, <2>8, CountStill
  <2>9. QED  BY <2>7, <2>8
<1>7. ASSUME NEW t \in Threads, Handoff(t)  PROVE SpinCount'
  <2>100. CASE UNCHANGED <<nmspinning, start>> /\ mpc'[t] # "startm3"
    <3>1. mpc[t] # "startm3" /\ spinning' = spinning /\ \A u \in Threads : u # t => mpc'[u] = mpc[u]
      BY <1>7, HandoffForm, HandoffOthers
    <3>2. QED  BY <2>100, <3>1, CountStill
  <2>101. CASE /\ nmspinning = 0 /\ nmspinning' = 1 /\ start'[t].spinning /\ ~start[t].spinning /\ mpc[t] # "startm3"
               /\ \A u \in Threads : u # t => start'[u] = start[u]
    <3>1. spinning' = spinning /\ \A u \in Threads : u # t => mpc'[u] = mpc[u]
      BY <1>7, HandoffForm, HandoffOthers
    <3>2. Owed' = Owed \cup {t} /\ t \notin Owed
      BY <2>101, <3>1 DEF Owed
    <3>3. Cardinality(Owed') = Cardinality(Owed) + 1
      <4>1. IsFiniteSet(Owed)
        BY CountsFinite
      <4>2. QED  BY ONLY <3>2, <4>1, FS_AddElement
    <3>4. QED  BY <2>101, <3>1, <3>3, CountsFinite DEF SpinCount
  <2>102. CASE nmspinning' = nmspinning /\ ~start'[t].spinning /\ mpc'[t] # "startm3" /\ \A u \in Threads : u # t => start'[u] = start[u]
    <3>1. ~start[t].spinning /\ mpc[t] # "startm3" /\ spinning' = spinning /\ \A u \in Threads : u # t => mpc'[u] = mpc[u]
      BY <1>7, HandoffForm, HandoffOthers
    <3>2. QED  BY <2>102, <3>1, CountStill
  <2>103. QED  BY <1>7, <2>100, <2>101, <2>102, HandoffForm DEF Called
<1>8. ASSUME NEW t \in Threads, HandoffSpin(t)  PROVE SpinCount'
  <2>100. CASE UNCHANGED <<nmspinning, start>> /\ mpc'[t] # "startm3"
    <3>1. mpc[t] # "startm3" /\ spinning' = spinning /\ \A u \in Threads : u # t => mpc'[u] = mpc[u]
      BY <1>8, HandoffForm, HandoffOthers
    <3>2. QED  BY <2>100, <3>1, CountStill
  <2>101. CASE /\ nmspinning = 0 /\ nmspinning' = 1 /\ start'[t].spinning /\ ~start[t].spinning /\ mpc[t] # "startm3"
               /\ \A u \in Threads : u # t => start'[u] = start[u]
    <3>1. spinning' = spinning /\ \A u \in Threads : u # t => mpc'[u] = mpc[u]
      BY <1>8, HandoffForm, HandoffOthers
    <3>2. Owed' = Owed \cup {t} /\ t \notin Owed
      BY <2>101, <3>1 DEF Owed
    <3>3. Cardinality(Owed') = Cardinality(Owed) + 1
      <4>1. IsFiniteSet(Owed)
        BY CountsFinite
      <4>2. QED  BY ONLY <3>2, <4>1, FS_AddElement
    <3>4. QED  BY <2>101, <3>1, <3>3, CountsFinite DEF SpinCount
  <2>102. CASE nmspinning' = nmspinning /\ ~start'[t].spinning /\ mpc'[t] # "startm3" /\ \A u \in Threads : u # t => start'[u] = start[u]
    <3>1. ~start[t].spinning /\ mpc[t] # "startm3" /\ spinning' = spinning /\ \A u \in Threads : u # t => mpc'[u] = mpc[u]
      <4>1. mpc[t] \in {"handoff", "handoff2", "handoff3"} /\ spinning' = spinning
        BY <1>8, HandoffForm
      <4>2. \A u \in Threads : u # t => mpc'[u] = mpc[u]
        BY <1>8, HandoffOthers
      <4>3. start[t] = NoStart
        BY <4>1 DEF SchedInv, StartFits
      <4>4. QED  BY <4>1, <4>2, <4>3
    <3>2. QED  BY <2>102, <3>1, CountStill
  <2>103. QED  BY <1>8, <2>100, <2>101, <2>102, HandoffForm DEF Called
<1>9. ASSUME NEW t \in Threads, HandoffIdle(t)  PROVE SpinCount'
  <2>100. CASE UNCHANGED <<nmspinning, start>> /\ mpc'[t] # "startm3"
    <3>1. mpc[t] # "startm3" /\ spinning' = spinning /\ \A u \in Threads : u # t => mpc'[u] = mpc[u]
      BY <1>9, HandoffForm, HandoffOthers
    <3>2. QED  BY <2>100, <3>1, CountStill
  <2>101. CASE /\ nmspinning = 0 /\ nmspinning' = 1 /\ start'[t].spinning /\ ~start[t].spinning /\ mpc[t] # "startm3"
               /\ \A u \in Threads : u # t => start'[u] = start[u]
    <3>1. spinning' = spinning /\ \A u \in Threads : u # t => mpc'[u] = mpc[u]
      BY <1>9, HandoffForm, HandoffOthers
    <3>2. Owed' = Owed \cup {t} /\ t \notin Owed
      BY <2>101, <3>1 DEF Owed
    <3>3. Cardinality(Owed') = Cardinality(Owed) + 1
      <4>1. IsFiniteSet(Owed)
        BY CountsFinite
      <4>2. QED  BY ONLY <3>2, <4>1, FS_AddElement
    <3>4. QED  BY <2>101, <3>1, <3>3, CountsFinite DEF SpinCount
  <2>102. CASE nmspinning' = nmspinning /\ ~start'[t].spinning /\ mpc'[t] # "startm3" /\ \A u \in Threads : u # t => start'[u] = start[u]
    <3>1. ~start[t].spinning /\ mpc[t] # "startm3" /\ spinning' = spinning /\ \A u \in Threads : u # t => mpc'[u] = mpc[u]
      <4>1. mpc[t] \in {"handoff", "handoff2", "handoff3"} /\ spinning' = spinning
        BY <1>9, HandoffForm
      <4>2. \A u \in Threads : u # t => mpc'[u] = mpc[u]
        BY <1>9, HandoffOthers
      <4>3. start[t] = NoStart
        BY <4>1 DEF SchedInv, StartFits
      <4>4. QED  BY <4>1, <4>2, <4>3
    <3>2. QED  BY <2>102, <3>1, CountStill
  <2>103. QED  BY <1>9, <2>100, <2>101, <2>102, HandoffForm DEF Called
<1>10. ASSUME NEW m \in Ms, Unpark(m)  PROVE SpinCount'
  <2>1. UNCHANGED <<nmspinning, spinning>>
    BY <1>10 DEF Unpark
  <2>2. \A u \in Threads : (start'[u].spinning \/ mpc'[u] = "startm3") <=> (start[u].spinning \/ mpc[u] = "startm3")
    BY <1>10 DEF Unpark
  <2>3. QED  BY <2>1, <2>2, CountStill
<1>11. ASSUME NEW m \in Ms, Stopm(m)  PROVE SpinCount'
  <2>1. UNCHANGED <<nmspinning, spinning>>
    BY <1>11 DEF Stopm
  <2>2. \A u \in Threads : (start'[u].spinning \/ mpc'[u] = "startm3") <=> (start[u].spinning \/ mpc[u] = "startm3")
    BY <1>11 DEF Stopm
  <2>3. QED  BY <2>1, <2>2, CountStill
<1>12. ASSUME NEW m \in Ms, Resetspinning(m)  PROVE SpinCount'
  <2>1. spinning' = spinning \ {m} /\ m \in spinning /\ nmspinning' = nmspinning - 1
    BY <1>12 DEF Resetspinning, StopSpinning
  <2>2. Owed' = Owed
    BY <1>12 DEF Resetspinning, StopSpinning, Owed
  <2>3. Cardinality(spinning') = Cardinality(spinning) - 1
    BY <2>1, CountsFinite, FS_RemoveElement
  <2>4. QED  BY <2>1, <2>2, <2>3, CountsFinite DEF SpinCount
<1>13. ASSUME NEW m \in Ms, Exit0(m)  PROVE SpinCount'
  <2>1. UNCHANGED <<nmspinning, spinning>>
    BY <1>13 DEF Exit0, GetP
  <2>2. \A u \in Threads : (start'[u].spinning \/ mpc'[u] = "startm3") <=> (start[u].spinning \/ mpc[u] = "startm3")
    BY <1>13 DEF Exit0, GetP
  <2>3. QED  BY <2>1, <2>2, CountStill
<1>14. ASSUME NEW m \in Ms, ScheduleGlobal(m)  PROVE SpinCount'
  <2>1. UNCHANGED <<nmspinning, spinning>>
    BY <1>14 DEF ScheduleGlobal, GotG
  <2>2. \A u \in Threads : (start'[u].spinning \/ mpc'[u] = "startm3") <=> (start[u].spinning \/ mpc[u] = "startm3")
    BY <1>14 DEF ScheduleGlobal, GotG
  <2>3. QED  BY <2>1, <2>2, CountStill
<1>15. ASSUME NEW m \in Ms, RunqGet(m)  PROVE SpinCount'
  <2>1. UNCHANGED <<nmspinning, spinning>>
    BY <1>15, RunqGetForm DEF GotG
  <2>2. \A u \in Threads : (start'[u].spinning \/ mpc'[u] = "startm3") <=> (start[u].spinning \/ mpc[u] = "startm3")
    BY <1>15, RunqGetForm DEF GotG
  <2>3. QED  BY <2>1, <2>2, CountStill
<1>16. ASSUME NEW m \in Ms, Spin(m)  PROVE SpinCount'
  <2>1. UNCHANGED <<nmspinning, spinning>>
    BY <1>16 DEF Spin
  <2>2. \A u \in Threads : (start'[u].spinning \/ mpc'[u] = "startm3") <=> (start[u].spinning \/ mpc[u] = "startm3")
    BY <1>16 DEF Spin
  <2>3. QED  BY <2>1, <2>2, CountStill
<1>17. ASSUME NEW m \in Ms, StartSpinning(m, "spin2", "steal")  PROVE SpinCount'
  <2>1. spinning' = spinning \cup {m} /\ m \notin spinning /\ nmspinning' = nmspinning + 1
    BY <1>17 DEF StartSpinning
  <2>2. Owed' = Owed
    BY <1>17 DEF StartSpinning, Owed
  <2>3. Cardinality(spinning') = Cardinality(spinning) + 1
    <3>1. IsFiniteSet(spinning)
      BY CountsFinite
    <3>2. QED  BY ONLY <2>1, <3>1, FS_AddElement
  <2>4. QED  BY <2>1, <2>2, <2>3, CountsFinite DEF SpinCount
<1>18. ASSUME NEW m \in Ms, Steal(m)  PROVE SpinCount'
  <2>1. UNCHANGED <<nmspinning, spinning>>
    BY <1>18 DEF Steal, runqsteal, GotG
  <2>2. \A u \in Threads : (start'[u].spinning \/ mpc'[u] = "startm3") <=> (start[u].spinning \/ mpc[u] = "startm3")
    BY <1>18 DEF Steal, runqsteal, GotG
  <2>3. QED  BY <2>1, <2>2, CountStill
<1>19. ASSUME NEW m \in Ms, StealNothing(m)  PROVE SpinCount'
  <2>1. UNCHANGED <<nmspinning, spinning>>
    BY <1>19 DEF StealNothing, Passed
  <2>2. \A u \in Threads : (start'[u].spinning \/ mpc'[u] = "startm3") <=> (start[u].spinning \/ mpc[u] = "startm3")
    BY <1>19 DEF StealNothing, Passed
  <2>3. QED  BY <2>1, <2>2, CountStill
<1>20. ASSUME NEW m \in Ms, ReturnP(m)  PROVE SpinCount'
  <2>1. UNCHANGED <<nmspinning, spinning>>
    BY <1>20, ReturnPForm DEF GotG, globrunqget
  <2>2. \A u \in Threads : (start'[u].spinning \/ mpc'[u] = "startm3") <=> (start[u].spinning \/ mpc[u] = "startm3")
    BY <1>20, ReturnPForm DEF GotG, globrunqget
  <2>3. QED  BY <2>1, <2>2, CountStill
<1>21. ASSUME NEW m \in Ms, Unspin(m)  PROVE SpinCount'
  <2>1. spinning' = spinning \ {m} /\ m \in spinning /\ nmspinning' = nmspinning - 1
    BY <1>21 DEF Unspin, StopSpinning
  <2>2. Owed' = Owed
    BY <1>21 DEF Unspin, StopSpinning, Owed
  <2>3. Cardinality(spinning') = Cardinality(spinning) - 1
    BY <2>1, CountsFinite, FS_RemoveElement
  <2>4. QED  BY <2>1, <2>2, <2>3, CountsFinite DEF SpinCount
<1>22. ASSUME NEW m \in Ms, Recheck(m)  PROVE SpinCount'
  <2>1. UNCHANGED <<nmspinning, spinning>>
    BY <1>22 DEF Recheck, Passed
  <2>2. \A u \in Threads : (start'[u].spinning \/ mpc'[u] = "startm3") <=> (start[u].spinning \/ mpc[u] = "startm3")
    BY <1>22 DEF Recheck, Passed
  <2>3. QED  BY <2>1, <2>2, CountStill
<1>23. ASSUME NEW m \in Ms, RecheckP(m)  PROVE SpinCount'
  <2>1. UNCHANGED <<nmspinning, spinning>>
    BY <1>23 DEF RecheckP, GetP
  <2>2. \A u \in Threads : (start'[u].spinning \/ mpc'[u] = "startm3") <=> (start[u].spinning \/ mpc[u] = "startm3")
    BY <1>23 DEF RecheckP, GetP
  <2>3. QED  BY <2>1, <2>2, CountStill
<1>24. ASSUME NEW m \in Ms, StartSpinning(m, "respin", "top")  PROVE SpinCount'
  <2>1. spinning' = spinning \cup {m} /\ m \notin spinning /\ nmspinning' = nmspinning + 1
    BY <1>24 DEF StartSpinning
  <2>2. Owed' = Owed
    BY <1>24 DEF StartSpinning, Owed
  <2>3. Cardinality(spinning') = Cardinality(spinning) + 1
    <3>1. IsFiniteSet(spinning)
      BY CountsFinite
    <3>2. QED  BY ONLY <2>1, <3>1, FS_AddElement
  <2>4. QED  BY <2>1, <2>2, <2>3, CountsFinite DEF SpinCount
<1>25. ASSUME NEW m \in Ms, Netpoll(m)  PROVE SpinCount'
  <2>1. UNCHANGED <<nmspinning, spinning>>
    BY <1>25 DEF Netpoll
  <2>2. \A u \in Threads : (start'[u].spinning \/ mpc'[u] = "startm3") <=> (start[u].spinning \/ mpc[u] = "startm3")
    BY <1>25 DEF Netpoll
  <2>3. QED  BY <2>1, <2>2, CountStill
<1>26. ASSUME NEW m \in Ms, PolledP(m)  PROVE SpinCount'
  <2>1. UNCHANGED <<nmspinning, spinning>>
    BY <1>26, PolledPForm
  <2>2. \A u \in Threads : (start'[u].spinning \/ mpc'[u] = "startm3") <=> (start[u].spinning \/ mpc[u] = "startm3")
    BY <1>26, PolledPForm
  <2>3. QED  BY <2>1, <2>2, CountStill
<1>27. ASSUME NEW m \in Ms, Inject(m)  PROVE SpinCount'
  <2>1. UNCHANGED <<nmspinning, spinning>>
    BY <1>27 DEF Inject
  <2>2. \A u \in Threads : (start'[u].spinning \/ mpc'[u] = "startm3") <=> (start[u].spinning \/ mpc[u] = "startm3")
    BY <1>27 DEF Inject
  <2>3. QED  BY <2>1, <2>2, CountStill
<1>28. ASSUME NEW m \in Ms, InjectGlobal(m)  PROVE SpinCount'
  <2>1. UNCHANGED <<nmspinning, spinning>>
    BY <1>28 DEF InjectGlobal
  <2>2. \A u \in Threads : (start'[u].spinning \/ mpc'[u] = "startm3") <=> (start[u].spinning \/ mpc[u] = "startm3")
    BY <1>28 DEF InjectGlobal
  <2>3. QED  BY <2>1, <2>2, CountStill
<1>29. ASSUME NEW m \in Ms, StartIdle(m)  PROVE SpinCount'
  <2>1. UNCHANGED <<nmspinning, spinning>>
    BY <1>29, StartIdleForm DEF Called
  <2>2. \A u \in Threads : (start'[u].spinning \/ mpc'[u] = "startm3") <=> (start[u].spinning \/ mpc[u] = "startm3")
    BY <1>29, StartIdleForm DEF Called
  <2>3. QED  BY <2>1, <2>2, CountStill
<1>30. ASSUME NEW m \in Ms, InjectLocal(m)  PROVE SpinCount'
  <2>1. UNCHANGED <<nmspinning, spinning>>
    BY <1>30 DEF InjectLocal
  <2>2. \A u \in Threads : (start'[u].spinning \/ mpc'[u] = "startm3") <=> (start[u].spinning \/ mpc[u] = "startm3")
    BY <1>30 DEF InjectLocal
  <2>3. QED  BY <2>1, <2>2, CountStill
<1>31. ASSUME NEW m \in Ms, Goready(m)  PROVE SpinCount'
  <2>1. UNCHANGED <<nmspinning, spinning>>
    BY <1>31 DEF Goready, CallWakep, runqput
  <2>2. \A u \in Threads : (start'[u].spinning \/ mpc'[u] = "startm3") <=> (start[u].spinning \/ mpc[u] = "startm3")
    BY <1>31 DEF Goready, CallWakep, runqput
  <2>3. QED  BY <2>1, <2>2, CountStill
<1>32. ASSUME NEW m \in Ms, Park(m)  PROVE SpinCount'
  <2>1. UNCHANGED <<nmspinning, spinning>>
    BY <1>32 DEF Park
  <2>2. \A u \in Threads : (start'[u].spinning \/ mpc'[u] = "startm3") <=> (start[u].spinning \/ mpc[u] = "startm3")
    BY <1>32 DEF Park
  <2>3. QED  BY <2>1, <2>2, CountStill
<1>33. ASSUME NEW m \in Ms, Gosched(m)  PROVE SpinCount'
  <2>1. UNCHANGED <<nmspinning, spinning>>
    BY <1>33 DEF Gosched
  <2>2. \A u \in Threads : (start'[u].spinning \/ mpc'[u] = "startm3") <=> (start[u].spinning \/ mpc[u] = "startm3")
    BY <1>33 DEF Gosched
  <2>3. QED  BY <2>1, <2>2, CountStill
<1>34. ASSUME NEW m \in Ms, Entersyscall(m)  PROVE SpinCount'
  <2>1. UNCHANGED <<nmspinning, spinning>>
    BY <1>34 DEF Entersyscall
  <2>2. \A u \in Threads : (start'[u].spinning \/ mpc'[u] = "startm3") <=> (start[u].spinning \/ mpc[u] = "startm3")
    BY <1>34 DEF Entersyscall
  <2>3. QED  BY <2>1, <2>2, CountStill
<1>35. ASSUME NEW m \in Ms, Entersyscallblock(m)  PROVE SpinCount'
  <2>1. UNCHANGED <<nmspinning, spinning>>
    BY <1>35 DEF Entersyscallblock
  <2>2. \A u \in Threads : (start'[u].spinning \/ mpc'[u] = "startm3") <=> (start[u].spinning \/ mpc[u] = "startm3")
    BY <1>35 DEF Entersyscallblock
  <2>3. QED  BY <2>1, <2>2, CountStill
<1>36. ASSUME NEW m \in Ms, Exitsyscall(m)  PROVE SpinCount'
  <2>1. UNCHANGED <<nmspinning, spinning>>
    BY <1>36 DEF Exitsyscall
  <2>2. \A u \in Threads : (start'[u].spinning \/ mpc'[u] = "startm3") <=> (start[u].spinning \/ mpc[u] = "startm3")
    BY <1>36 DEF Exitsyscall
  <2>3. QED  BY <2>1, <2>2, CountStill
<1>37. ASSUME NEW m \in Ms, Polled(m)  PROVE SpinCount'
  <2>1. UNCHANGED <<nmspinning, spinning>>
    BY <1>37 DEF Polled
  <2>2. \A u \in Threads : (start'[u].spinning \/ mpc'[u] = "startm3") <=> (start[u].spinning \/ mpc[u] = "startm3")
    BY <1>37 DEF Polled
  <2>3. QED  BY <2>1, <2>2, CountStill
<1>38. ASSUME Retake  PROVE SpinCount'
  <2>1. UNCHANGED <<nmspinning, spinning>>
    BY <1>38 DEF Retake
  <2>2. \A u \in Threads : (start'[u].spinning \/ mpc'[u] = "startm3") <=> (start[u].spinning \/ mpc[u] = "startm3")
    BY <1>38 DEF Retake
  <2>3. QED  BY <2>1, <2>2, CountStill
<1>39. CASE UNCHANGED svars
  BY <1>39, CountStill DEF svars
<1>40. QED
  BY <1>1, <1>2, <1>3, <1>4, <1>5, <1>6, <1>7, <1>8, <1>9, <1>10, <1>11, <1>12, <1>13, <1>14,
     <1>15, <1>16, <1>17, <1>18, <1>19, <1>20, <1>21, <1>22, <1>23, <1>24, <1>25, <1>26, <1>27, <1>28,
     <1>29, <1>30, <1>31, <1>32, <1>33, <1>34, <1>35, <1>36, <1>37, <1>38, <1>39 DEF SchedNext, Step, MStep, Environment

-----------------------------------------------------------------------------
(* The goroutines. *)

\* What NothingIsLost adds up.
Carriers == {m \in Ms : Carrying(m)}
InQueues == Cardinality(Places(runq, Ps))
Lists == [m \in Ms |-> Injecting(m)]
Injected == Cardinality(Places(Lists, Ms))
Sum == NGoroutines = waiting + runqsize + InQueues + Cardinality(Carriers) + Injected
Smalls == Small(runq, Ps) /\ Small(Lists, Ms)

\* No number is greater than the places that are counted.
LEMMA SmallsFit == QueuesTyped /\ ListsTyped /\ ListsFit => Smalls
<1> SUFFICES ASSUME QueuesTyped, ListsTyped, ListsFit  PROVE Smalls
  OBVIOUS
<1>1. Small(runq, Ps)
  BY NumbersFit DEF QueuesTyped, Small
<1>2. ASSUME NEW m \in Ms  PROVE Lists[m] \in 0..(NGoroutines + RunqLen)
  <2>1. glist[m].n \in Nat /\ glist[m].rest \in Nat /\ glist[m].n + glist[m].rest <= NGoroutines
    BY DEF ListsTyped, ListsFit
  <2>2. Injecting(m) \in 0..(NGoroutines + RunqLen)
    <3>1. CASE mpc[m] = "inject2"
      BY <2>1, <3>1, NumbersFit DEF Injecting
    <3>2. CASE mpc[m] # "inject2"
      BY <2>1, <3>2, NumbersFit DEF Injecting
    <3>3. QED  BY <3>1, <3>2
  <2>3. QED  BY <2>2 DEF Lists
<1>3. QED  BY <1>1, <1>2 DEF Smalls, Small

\* And after a step.
LEMMA SmallsNext == (QueuesTyped /\ ListsTyped /\ ListsFit => Smalls)'
BY SmallsFit, PTL

\* What is added up are numbers.
LEMMA TermsFit ==
  /\ IsFiniteSet(Ms) /\ IsFiniteSet(Ps) /\ IsFiniteSet(Carriers) /\ Cardinality(Carriers) \in Nat
  /\ InQueues \in Nat /\ Injected \in Nat
<1>1. IsFiniteSet(Ms) /\ IsFiniteSet(Ps)
  BY SchedAssumption
<1>2. IsFiniteSet(Carriers)
  BY <1>1, FS_Subset DEF Carriers
<1>3. QED  BY <1>1, <1>2, FS_CardinalityType, PlacesFinite DEF InQueues, Injected

\* And after a step.
LEMMA TermsNext ==
  (/\ IsFiniteSet(Ms) /\ IsFiniteSet(Ps) /\ IsFiniteSet(Carriers) /\ Cardinality(Carriers) \in Nat
   /\ InQueues \in Nat /\ Injected \in Nat)'
BY TermsFit, PTL

\* Nobody gets or leaves a goroutine.
LEMMA CarriersStay ==
  ASSUME \A m \in Ms : Carrying(m)' <=> Carrying(m)
  PROVE  Cardinality(Carriers') = Cardinality(Carriers)
<1>1. Carriers' = Carriers
  BY DEF Carriers
<1>2. QED  BY <1>1

\* One thread leaves its goroutine.
LEMMA CarrierLeaves ==
  ASSUME NEW m \in Ms, Carrying(m), ~Carrying(m)', \A n \in Ms : n # m => (Carrying(n)' <=> Carrying(n))
  PROVE  Cardinality(Carriers') = Cardinality(Carriers) - 1
<1>1. Carriers' = Carriers \ {m} /\ m \in Carriers
  BY DEF Carriers
<1>2. IsFiniteSet(Carriers)
  BY TermsFit
<1>3. QED  BY ONLY <1>1, <1>2, FS_RemoveElement

\* One thread gets a goroutine.
LEMMA CarrierComes ==
  ASSUME NEW m \in Ms, ~Carrying(m), Carrying(m)', \A n \in Ms : n # m => (Carrying(n)' <=> Carrying(n))
  PROVE  Cardinality(Carriers') = Cardinality(Carriers) + 1
<1>1. Carriers' = Carriers \cup {m} /\ m \notin Carriers
  BY DEF Carriers
<1>2. IsFiniteSet(Carriers)
  BY TermsFit
<1>3. QED  BY ONLY <1>1, <1>2, FS_AddElement

\* No list from netpoll changes.
LEMMA InjectedStays ==
  ASSUME \A m \in Ms : Injecting(m)' = Injecting(m)
  PROVE  Injected' = Injected
<1>1. Lists' = Lists
  BY DEF Lists
<1>2. QED  BY <1>1 DEF Injected, Places

\* One list from netpoll changes.
LEMMA InjectedMoves ==
  ASSUME Smalls, Smalls', NEW m \in Ms, \A n \in Ms : n # m => Injecting(n)' = Injecting(n)
  PROVE  Injected' = Injected - Injecting(m) + Injecting(m)'
<1>1. \A n \in Ms : Lists[n] = Injecting(n) /\ Lists'[n] = Injecting(n)'
  BY DEF Lists
<1>2. IsFiniteSet(Ms) /\ Small(Lists, Ms) /\ Small(Lists', Ms)
  BY TermsFit DEF Smalls, Small
<1>3. Cardinality(Places(Lists', Ms)) = Cardinality(Places(Lists, Ms)) - Lists[m] + Lists'[m]
  BY ONLY <1>1, <1>2, m \in Ms, \A n \in Ms : n # m => Injecting(n)' = Injecting(n), PlacesMove
<1>4. QED  BY <1>1, <1>3 DEF Injected, Places

\* One local queue changes.
LEMMA QueueMoves ==
  ASSUME Smalls, Smalls', NEW q \in Ps, \A r \in Ps : r # q => runq'[r] = runq[r]
  PROVE  InQueues' = InQueues - runq[q] + runq'[q]
<1>1. IsFiniteSet(Ps) /\ Small(runq, Ps) /\ Small(runq', Ps)
  BY TermsFit DEF Smalls, Small
<1>2. Cardinality(Places(runq', Ps)) = Cardinality(Places(runq, Ps)) - runq[q] + runq'[q]
  BY <1>1, PlacesMove
<1>3. QED  BY <1>2 DEF InQueues, Places

\* Two local queues change, where one thread steals from another.
LEMMA QueuesMove ==
  ASSUME Smalls, Smalls', NEW q \in Ps, NEW r \in Ps, q # r, \A s \in Ps : s # q /\ s # r => runq'[s] = runq[s]
  PROVE  InQueues' = InQueues - runq[q] - runq[r] + runq'[q] + runq'[r]
<1>1. IsFiniteSet(Ps) /\ Small(runq, Ps) /\ Small(runq', Ps)
  BY TermsFit DEF Smalls, Small
<1>2. Cardinality(Places(runq', Ps)) = Cardinality(Places(runq, Ps)) - runq[q] - runq[r] + runq'[q] + runq'[r]
  BY <1>1, PlacesMoveTwo
<1>3. QED  BY <1>2 DEF InQueues, Places

\* No local queue changes.
LEMMA QueuesStay ==
  ASSUME runq' = runq
  PROVE  InQueues' = InQueues
BY DEF InQueues, Places

\* No goroutine moves.
LEMMA SumStill ==
  ASSUME Sum, UNCHANGED <<waiting, runqsize, runq>>, \A m \in Ms : Carrying(m)' <=> Carrying(m),
         \A m \in Ms : Injecting(m)' = Injecting(m)
  PROVE  Sum'
BY CarriersStay, InjectedStays, QueuesStay DEF Sum

\* No step loses a goroutine.
LEMMA NextSum ==
  ASSUME SchedInv, Loose, [SchedNext]_svars, Smalls, Smalls', Sum
  PROVE  Sum'
<1>0. Control /\ PsTyped /\ QueuesTyped /\ ListsTyped /\ PFits /\ RetFits
  BY DEF Loose, SchedInv
<1>00. waiting \in Nat /\ runqsize \in Nat
  BY <1>0 DEF QueuesTyped
<1> HIDE DEF NoStart
<1> USE ThreadsFit, NumbersFit, <1>0 DEF Control, PsTyped, QueuesTyped, ListsTyped, PFits, WithP, WithoutP, Calling, RetFits, Handing, Carrying, Injecting
<1>1. ASSUME NEW t \in Threads, WakepIdle(t)  PROVE Sum'
  <2>1. UNCHANGED <<waiting, runqsize, runq>>
    BY <1>1 DEF WakepIdle
  <2>2. \A n \in Ms : Carrying(n)' <=> Carrying(n)
    BY <1>1 DEF WakepIdle
  <2>3. \A n \in Ms : Injecting(n)' = Injecting(n)
    BY <1>1 DEF WakepIdle
  <2>4. QED  BY <2>1, <2>2, <2>3, SumStill
<1>2. ASSUME NEW t \in Threads, Wakep(t)  PROVE Sum'
  <2>1. UNCHANGED <<waiting, runqsize, runq>>
    BY <1>2, WakepForm DEF Called
  <2>2. \A n \in Ms : Carrying(n)' <=> Carrying(n)
    BY <1>2, WakepForm DEF Called
  <2>3. \A n \in Ms : Injecting(n)' = Injecting(n)
    BY <1>2, WakepForm DEF Called
  <2>4. QED  BY <2>1, <2>2, <2>3, SumStill
<1>3. ASSUME NEW t \in Threads, Startm(t)  PROVE Sum'
  <2>1. UNCHANGED <<waiting, runqsize, runq>>
    BY <1>3, StartmForm DEF Called
  <2>2. \A n \in Ms : Carrying(n)' <=> Carrying(n)
    BY <1>3, StartmForm DEF Called
  <2>3. \A n \in Ms : Injecting(n)' = Injecting(n)
    BY <1>3, StartmForm DEF Called
  <2>4. QED  BY <2>1, <2>2, <2>3, SumStill
<1>4. ASSUME NEW t \in Threads, StartmFails(t)  PROVE Sum'
  <2>1. UNCHANGED <<waiting, runqsize, runq, p, glist>>
    BY <1>4 DEF StartmFails
  <2>2. mpc[t] = "startm" /\ start[t].p = Nil
    BY <1>4 DEF StartmFails
  <2>3. t \in Ms /\ ret[t] \in {"run", "inject3"} /\ (start[t].spinning => ret[t] = "run")
    BY <2>2 DEF SchedInv, StartFits
  <2>4. \/ Go(t, "startm3") /\ ret' = ret /\ ret[t] = "run"
        \/ Return(t)
    BY <1>4, <2>3 DEF StartmFails
  <2>5. \A n \in Ms : (Carrying(n)' <=> Carrying(n)) /\ Injecting(n)' = Injecting(n)
    BY <2>1, <2>2, <2>3, <2>4
  <2>6. QED  BY <2>1, <2>5, SumStill
<1>5. ASSUME NEW t \in Threads, StartmUndo(t)  PROVE Sum'
  <2>1. UNCHANGED <<waiting, runqsize, runq>>
    BY <1>5 DEF StartmUndo
  <2>2. \A n \in Ms : Carrying(n)' <=> Carrying(n)
    BY <1>5 DEF StartmUndo
  <2>3. \A n \in Ms : Injecting(n)' = Injecting(n)
    BY <1>5 DEF StartmUndo
  <2>4. QED  BY <2>1, <2>2, <2>3, SumStill
<1>6. ASSUME NEW t \in Threads, StartmWake(t)  PROVE Sum'
  <2>1. /\ start[t].m \in Ms /\ start[t].m # t /\ mpc[t] = "startm2" /\ start[t].p \in Ps
        /\ mpc' = [mpc EXCEPT ![t] = ret[t], ![start[t].m] = "parked"]
        /\ nextp' = [nextp EXCEPT ![start[t].m] = start[t].p]
        /\ start' = [start EXCEPT ![t] = NoStart] /\ ret' = [ret EXCEPT ![t] = Nil]
    BY <1>6, StartmWakes
  <2>2. UNCHANGED <<p, hand, pidle, midle, looked, glist>>
    BY <1>6 DEF StartmWake
  <2>3. mpc[start[t].m] \in {"none", "parked"}
    BY <2>1 DEF SchedInv, IdleFits
  <2>30. t \in Ms => ret[t] \in {"run", "inject3", "syscall"}
    BY <2>1 DEF SchedInv, RetFits
  <2>31. t = Sysmon => ret[t] = "sysmon"
    BY <2>1 DEF SchedInv, RetFits
  <2>4. UNCHANGED <<waiting, runqsize, runq>>
    BY <1>6 DEF StartmWake
  <2>5. \A n \in Ms : n # t /\ n # start[t].m => mpc'[n] = mpc[n] /\ ret'[n] = ret[n]
    BY <2>1
  <2>6. mpc'[t] = ret[t] /\ mpc'[start[t].m] = "parked"
    BY <2>1
  <2>7. ASSUME t \in Ms  PROVE (Carrying(t)' <=> Carrying(t)) /\ Injecting(t)' = Injecting(t)
    <3>1. CASE ret[t] \in {"run", "syscall"}
      BY <2>1, <2>2, <2>6, <3>1 DEF Carrying, Injecting
    <3>2. CASE ret[t] = "inject3"
      BY <2>1, <2>2, <2>6, <3>2 DEF Carrying, Injecting
    <3>3. QED  BY <2>7, <2>30, <3>1, <3>2
  <2>8. PICK m \in Ms : m = start[t].m
    BY <2>1
  <2>81. mpc'[m] = "parked" /\ mpc[m] \in {"none", "parked"} /\ glist' = glist
    BY <2>2, <2>3, <2>6, <2>8
  <2>82. (Carrying(m)' <=> Carrying(m)) /\ Injecting(m)' = Injecting(m)
    BY <2>81 DEF Carrying, Injecting
  <2>9. \A n \in Ms : n # t /\ n # m => (Carrying(n)' <=> Carrying(n)) /\ Injecting(n)' = Injecting(n)
    BY <2>2, <2>5, <2>8 DEF Carrying, Injecting
  <2>10. \A n \in Ms : (Carrying(n)' <=> Carrying(n)) /\ Injecting(n)' = Injecting(n)
    <3> HIDE <1>0 DEF Carrying, Injecting
    <3>1. QED  BY ONLY <2>7, <2>82, <2>9
  <2>11. QED  BY <2>4, <2>10, SumStill
<1>7. ASSUME NEW t \in Threads, Handoff(t)  PROVE Sum'
  <2>1. UNCHANGED <<waiting, runqsize, runq>>
    BY <1>7, HandoffForm DEF Called
  <2>2. \A n \in Ms : Carrying(n)' <=> Carrying(n)
    BY <1>7, HandoffForm DEF Called
  <2>3. \A n \in Ms : Injecting(n)' = Injecting(n)
    BY <1>7, HandoffForm DEF Called
  <2>4. QED  BY <2>1, <2>2, <2>3, SumStill
<1>8. ASSUME NEW t \in Threads, HandoffSpin(t)  PROVE Sum'
  <2>1. UNCHANGED <<waiting, runqsize, runq>>
    BY <1>8, HandoffForm DEF Called
  <2>2. \A n \in Ms : Carrying(n)' <=> Carrying(n)
    BY <1>8, HandoffForm DEF Called
  <2>3. \A n \in Ms : Injecting(n)' = Injecting(n)
    BY <1>8, HandoffForm DEF Called
  <2>4. QED  BY <2>1, <2>2, <2>3, SumStill
<1>9. ASSUME NEW t \in Threads, HandoffIdle(t)  PROVE Sum'
  <2>1. UNCHANGED <<waiting, runqsize, runq>>
    BY <1>9, HandoffForm DEF Called
  <2>2. \A n \in Ms : Carrying(n)' <=> Carrying(n)
    BY <1>9, HandoffForm DEF Called
  <2>3. \A n \in Ms : Injecting(n)' = Injecting(n)
    BY <1>9, HandoffForm DEF Called
  <2>4. QED  BY <2>1, <2>2, <2>3, SumStill
<1>10. ASSUME NEW m \in Ms, Unpark(m)  PROVE Sum'
  <2>1. UNCHANGED <<waiting, runqsize, runq>>
    BY <1>10 DEF Unpark
  <2>2. \A n \in Ms : Carrying(n)' <=> Carrying(n)
    BY <1>10 DEF Unpark
  <2>3. \A n \in Ms : Injecting(n)' = Injecting(n)
    BY <1>10 DEF Unpark
  <2>4. QED  BY <2>1, <2>2, <2>3, SumStill
<1>11. ASSUME NEW m \in Ms, Stopm(m)  PROVE Sum'
  <2>1. UNCHANGED <<waiting, runqsize, runq>>
    BY <1>11 DEF Stopm
  <2>2. \A n \in Ms : Carrying(n)' <=> Carrying(n)
    BY <1>11 DEF Stopm
  <2>3. \A n \in Ms : Injecting(n)' = Injecting(n)
    BY <1>11 DEF Stopm
  <2>4. QED  BY <2>1, <2>2, <2>3, SumStill
<1>12. ASSUME NEW m \in Ms, Resetspinning(m)  PROVE Sum'
  <2>1. UNCHANGED <<waiting, runqsize, runq>>
    BY <1>12 DEF Resetspinning, StopSpinning
  <2>2. \A n \in Ms : Carrying(n)' <=> Carrying(n)
    BY <1>12 DEF Resetspinning, StopSpinning
  <2>3. \A n \in Ms : Injecting(n)' = Injecting(n)
    BY <1>12 DEF Resetspinning, StopSpinning
  <2>4. QED  BY <2>1, <2>2, <2>3, SumStill
<1>13. ASSUME NEW m \in Ms, Exit0(m)  PROVE Sum'
  <2>100. CASE pidle # {}
    <3>1. mpc[m] = "exit0" /\ Go(m, "run") /\ UNCHANGED <<waiting, runqsize, runq, ret, glist>> /\ \E q : p' = [p EXCEPT ![m] = q]
      BY <1>13, <2>100 DEF Exit0, GetP
    <3>2. \A n \in Ms : (Carrying(n)' <=> Carrying(n)) /\ Injecting(n)' = Injecting(n)
      BY <3>1 DEF Carrying, Injecting
    <3>3. QED  BY <3>1, <3>2, SumStill
  <2>101. CASE pidle = {}

    <3>1. /\ mpc[m] = "exit0" /\ mpc'[m] = "stopm" /\ runqsize' = runqsize + 1 /\ UNCHANGED <<p, glist, runq, waiting>>
          /\ \A n \in Ms : n # m => mpc'[n] = mpc[n] /\ ret'[n] = ret[n]
      BY <1>13, <2>101 DEF Exit0
    <3>50. \A n \in Ms : n # m => (Carrying(n)' <=> Carrying(n)) /\ Injecting(n)' = Injecting(n)
      BY <3>1 DEF Carrying, Injecting
    <3>51. Carrying(m) /\ ~Carrying(m)'
      BY <3>1 DEF Carrying
    <3>52. Cardinality(Carriers') = Cardinality(Carriers) - 1
      BY <3>50, <3>51, CarrierLeaves
    <3>53. Injecting(m)' = Injecting(m)
      BY <3>1 DEF Injecting
    <3>54. Injected' = Injected
      BY <3>50, <3>53, InjectedStays
    <3>55. InQueues' = InQueues
      BY <3>1, QueuesStay
    <3> HIDE <1>0, ThreadsFit, NoStartFits, NumbersFit
    <3>56. QED
      BY <1>00, <3>1, <3>52, <3>53, <3>54, <3>55, TermsFit DEF Sum
  <2>102. QED  BY <2>100, <2>101
<1>14. ASSUME NEW m \in Ms, ScheduleGlobal(m)  PROVE Sum'
  <2>1. /\ mpc[m] = "schedule" /\ p[m] \in Ps /\ globrunqget(p[m], 1) /\ mpc'[m] \in {"found", "run"}
        /\ UNCHANGED <<p, ret, glist, waiting>> /\ \A n \in Ms : n # m => mpc'[n] = mpc[n]
    BY <1>14, PsFit DEF ScheduleGlobal, GotG
  <2>2. PICK x \in 1..RunqLen : x <= runqsize /\ runqsize' = runqsize - x /\ runq' = [runq EXCEPT ![p[m]] = @ + x - 1]
    BY <2>1, GlobrunqgetTakes
  <2>3. /\ runqsize' = runqsize - x /\ runq'[p[m]] = runq[p[m]] + x - 1 /\ x \in Nat /\ runq[p[m]] \in Nat
        /\ \A r \in Ps : r # p[m] => runq'[r] = runq[r]
    BY <2>1, <2>2
  <2>50. \A n \in Ms : n # m => (Carrying(n)' <=> Carrying(n)) /\ Injecting(n)' = Injecting(n)
    BY <2>1 DEF Carrying, Injecting
  <2>51. ~Carrying(m) /\ Carrying(m)'
    BY <2>1 DEF Carrying
  <2>52. Cardinality(Carriers') = Cardinality(Carriers) + 1
    BY <2>50, <2>51, CarrierComes
  <2>53. Injecting(m)' = Injecting(m)
    BY <2>1 DEF Injecting
  <2>54. Injected' = Injected
    BY <2>50, <2>53, InjectedStays
  <2>55. InQueues' = InQueues - runq[p[m]] + runq'[p[m]]
    BY <2>1, <2>3, QueueMoves
  <2> HIDE <1>0, ThreadsFit, NoStartFits, NumbersFit
  <2>56. QED
    BY <1>00, <2>1, <2>3, <2>52, <2>54, <2>55, TermsFit DEF Sum
<1>15. ASSUME NEW m \in Ms, RunqGet(m)  PROVE Sum'
  <2>100. /\ mpc[m] \in {"schedule", "top"} /\ p[m] \in Ps
          /\ UNCHANGED <<p, ret, glist, waiting>>
    BY <1>15, RunqGetForm
  <2>101. ASSUME GotG(m), runq[p[m]] > 0, runq' = [runq EXCEPT ![p[m]] = @ - 1], UNCHANGED runqsize
          PROVE  Sum'

    <3>1. /\ mpc[m] \in {"schedule", "top"} /\ p[m] \in Ps /\ mpc'[m] \in {"found", "run"}
          /\ UNCHANGED <<p, ret, glist, waiting>> /\ \A n \in Ms : n # m => mpc'[n] = mpc[n]
      BY <2>100, <2>101 DEF GotG
    <3>3. /\ runqsize' = runqsize /\ runq'[p[m]] = runq[p[m]] - 1 /\ runq[p[m]] \in Nat
          /\ \A r \in Ps : r # p[m] => runq'[r] = runq[r]
      BY <3>1, <2>101
    <3>50. \A n \in Ms : n # m => (Carrying(n)' <=> Carrying(n)) /\ Injecting(n)' = Injecting(n)
      BY <3>1 DEF Carrying, Injecting
    <3>51. ~Carrying(m) /\ Carrying(m)'
      BY <3>1 DEF Carrying
    <3>52. Cardinality(Carriers') = Cardinality(Carriers) + 1
      BY <3>50, <3>51, CarrierComes
    <3>53. Injecting(m)' = Injecting(m)
      BY <3>1 DEF Injecting
    <3>54. Injected' = Injected
      BY <3>50, <3>53, InjectedStays
    <3>55. InQueues' = InQueues - runq[p[m]] + runq'[p[m]]
      BY <3>1, <3>3, QueueMoves
    <3> HIDE <1>0, ThreadsFit, NoStartFits, NumbersFit
    <3>56. QED
      BY <1>00, <3>1, <3>3, <3>52, <3>54, <3>55, TermsFit DEF Sum
  <2>102. ASSUME GotG(m), globrunqget(p[m], 0), runq[p[m]] = 0
          PROVE  Sum'

    <3>1. /\ mpc[m] \in {"schedule", "top"} /\ p[m] \in Ps /\ globrunqget(p[m], 0) /\ runq[p[m]] = 0 /\ mpc'[m] \in {"found", "run"}
          /\ UNCHANGED <<p, ret, glist, waiting>> /\ \A n \in Ms : n # m => mpc'[n] = mpc[n]
      BY <2>100, <2>102 DEF GotG
    <3>2. PICK x \in 1..RunqLen : x <= runqsize /\ runqsize' = runqsize - x /\ runq' = [runq EXCEPT ![p[m]] = @ + x - 1]
      BY <3>1, GlobrunqgetTakes
    <3>3. /\ runqsize' = runqsize - x /\ runq'[p[m]] = runq[p[m]] + x - 1 /\ x \in Nat /\ runq[p[m]] \in Nat
          /\ \A r \in Ps : r # p[m] => runq'[r] = runq[r]
      BY <3>1, <3>2
    <3>50. \A n \in Ms : n # m => (Carrying(n)' <=> Carrying(n)) /\ Injecting(n)' = Injecting(n)
      BY <3>1 DEF Carrying, Injecting
    <3>51. ~Carrying(m) /\ Carrying(m)'
      BY <3>1 DEF Carrying
    <3>52. Cardinality(Carriers') = Cardinality(Carriers) + 1
      BY <3>50, <3>51, CarrierComes
    <3>53. Injecting(m)' = Injecting(m)
      BY <3>1 DEF Injecting
    <3>54. Injected' = Injected
      BY <3>50, <3>53, InjectedStays
    <3>55. InQueues' = InQueues - runq[p[m]] + runq'[p[m]]
      BY <3>1, <3>3, QueueMoves
    <3> HIDE <1>0, ThreadsFit, NoStartFits, NumbersFit
    <3>56. QED
      BY <1>00, <3>1, <3>3, <3>52, <3>54, <3>55, TermsFit DEF Sum
  <2>103. CASE Go(m, "spin") /\ UNCHANGED <<runq, runqsize>>
    <3>1. \A n \in Ms : (Carrying(n)' <=> Carrying(n)) /\ Injecting(n)' = Injecting(n)
      BY <2>100, <2>103 DEF Carrying, Injecting
    <3>2. QED  BY <2>100, <2>103, <3>1, SumStill
  <2>104. QED  BY <1>15, <2>101, <2>102, <2>103, RunqGetForm
<1>16. ASSUME NEW m \in Ms, Spin(m)  PROVE Sum'
  <2>1. UNCHANGED <<waiting, runqsize, runq>>
    BY <1>16 DEF Spin
  <2>2. \A n \in Ms : Carrying(n)' <=> Carrying(n)
    BY <1>16 DEF Spin
  <2>3. \A n \in Ms : Injecting(n)' = Injecting(n)
    BY <1>16 DEF Spin
  <2>4. QED  BY <2>1, <2>2, <2>3, SumStill
<1>17. ASSUME NEW m \in Ms, StartSpinning(m, "spin2", "steal")  PROVE Sum'
  <2>1. UNCHANGED <<waiting, runqsize, runq>>
    BY <1>17 DEF StartSpinning
  <2>2. \A n \in Ms : Carrying(n)' <=> Carrying(n)
    BY <1>17 DEF StartSpinning
  <2>3. \A n \in Ms : Injecting(n)' = Injecting(n)
    BY <1>17 DEF StartSpinning
  <2>4. QED  BY <2>1, <2>2, <2>3, SumStill
<1>18. ASSUME NEW m \in Ms, Steal(m)  PROVE Sum'
  <2>0. PICK q \in Ps \ (pidle \cup {p[m]}) : runqsteal(p[m], q)
    BY <1>18 DEF Steal
  <2>1. /\ mpc[m] = "steal" /\ p[m] \in Ps /\ runq[p[m]] = 0 /\ mpc'[m] \in {"found", "run"}
        /\ UNCHANGED <<p, ret, glist, waiting>> /\ \A n \in Ms : n # m => mpc'[n] = mpc[n]
    BY <1>18, PsFit DEF Steal, GotG, SchedInv, EmptyFits
  <2>2. PICK x \in 1..RunqLen : /\ x <= runq[q] /\ runqsize' = runqsize
                                /\ runq' = [runq EXCEPT ![q] = @ - x, ![p[m]] = x - 1]
    BY <2>0, <2>1, RunqstealMoves
  <2>3. /\ runqsize' = runqsize /\ runq'[p[m]] = x - 1 /\ runq'[q] = runq[q] - x /\ x \in Nat /\ runq[p[m]] = 0 /\ runq[q] \in Nat
        /\ \A r \in Ps : r # p[m] /\ r # q => runq'[r] = runq[r]
    BY <2>0, <2>1, <2>2
  <2>50. \A n \in Ms : n # m => (Carrying(n)' <=> Carrying(n)) /\ Injecting(n)' = Injecting(n)
    BY <2>1 DEF Carrying, Injecting
  <2>51. ~Carrying(m) /\ Carrying(m)'
    BY <2>1 DEF Carrying
  <2>52. Cardinality(Carriers') = Cardinality(Carriers) + 1
    BY <2>50, <2>51, CarrierComes
  <2>53. Injecting(m)' = Injecting(m)
    BY <2>1 DEF Injecting
  <2>54. Injected' = Injected
    BY <2>50, <2>53, InjectedStays
  <2>55. InQueues' = InQueues - runq[p[m]] - runq[q] + runq'[p[m]] + runq'[q]
    BY <2>0, <2>1, <2>3, QueuesMove
  <2> HIDE <1>0, ThreadsFit, NoStartFits, NumbersFit
  <2>56. QED
    BY <1>00, <2>1, <2>3, <2>52, <2>54, <2>55, TermsFit DEF Sum
<1>19. ASSUME NEW m \in Ms, StealNothing(m)  PROVE Sum'
  <2>1. UNCHANGED <<waiting, runqsize, runq>>
    BY <1>19 DEF StealNothing, Passed
  <2>2. \A n \in Ms : Carrying(n)' <=> Carrying(n)
    BY <1>19 DEF StealNothing, Passed
  <2>3. \A n \in Ms : Injecting(n)' = Injecting(n)
    BY <1>19 DEF StealNothing, Passed
  <2>4. QED  BY <2>1, <2>2, <2>3, SumStill
<1>20. ASSUME NEW m \in Ms, ReturnP(m)  PROVE Sum'
  <2>100. mpc[m] = "release" /\ p[m] \in Ps /\ runq[p[m]] = 0 /\ UNCHANGED <<glist, waiting>>
    BY <1>20, ReturnPForm
  <2>101. ASSUME GotG(m), globrunqget(p[m], 0), UNCHANGED <<p, ret>>
          PROVE  Sum'

    <3>1. /\ mpc[m] = "release" /\ p[m] \in Ps /\ globrunqget(p[m], 0) /\ runq[p[m]] = 0 /\ mpc'[m] \in {"found", "run"}
          /\ UNCHANGED <<p, ret, glist, waiting>> /\ \A n \in Ms : n # m => mpc'[n] = mpc[n]
      BY <2>100, <2>101 DEF GotG
    <3>2. PICK x \in 1..RunqLen : x <= runqsize /\ runqsize' = runqsize - x /\ runq' = [runq EXCEPT ![p[m]] = @ + x - 1]
      BY <3>1, GlobrunqgetTakes
    <3>3. /\ runqsize' = runqsize - x /\ runq'[p[m]] = runq[p[m]] + x - 1 /\ x \in Nat /\ runq[p[m]] \in Nat
          /\ \A r \in Ps : r # p[m] => runq'[r] = runq[r]
      BY <3>1, <3>2
    <3>50. \A n \in Ms : n # m => (Carrying(n)' <=> Carrying(n)) /\ Injecting(n)' = Injecting(n)
      BY <3>1 DEF Carrying, Injecting
    <3>51. ~Carrying(m) /\ Carrying(m)'
      BY <3>1 DEF Carrying
    <3>52. Cardinality(Carriers') = Cardinality(Carriers) + 1
      BY <3>50, <3>51, CarrierComes
    <3>53. Injecting(m)' = Injecting(m)
      BY <3>1 DEF Injecting
    <3>54. Injected' = Injected
      BY <3>50, <3>53, InjectedStays
    <3>55. InQueues' = InQueues - runq[p[m]] + runq'[p[m]]
      BY <3>1, <3>3, QueueMoves
    <3> HIDE <1>0, ThreadsFit, NoStartFits, NumbersFit
    <3>56. QED
      BY <1>00, <3>1, <3>3, <3>52, <3>54, <3>55, TermsFit DEF Sum
  <2>102. ASSUME NEW l \in {"unspin", "netpoll"}, Go(m, l), NEW r0, ret' = [ret EXCEPT ![m] = r0],
                 p' = [p EXCEPT ![m] = Nil], UNCHANGED <<runq, runqsize>>
          PROVE  Sum'
    <3>1. \A n \in Ms : (Carrying(n)' <=> Carrying(n)) /\ Injecting(n)' = Injecting(n)
      BY <2>100, <2>102 DEF Carrying, Injecting
    <3>2. QED  BY <2>100, <2>102, <3>1, SumStill
  <2>103. CASE GotG(m) /\ globrunqget(p[m], 0) /\ UNCHANGED <<p, ret>>
    BY <2>101, <2>103
  <2>104. CASE ~(GotG(m) /\ globrunqget(p[m], 0) /\ UNCHANGED <<p, ret>>)
    <3>1. /\ Go(m, IF m \in spinning THEN "unspin" ELSE "netpoll") /\ p' = [p EXCEPT ![m] = Nil]
          /\ ret' = [ret EXCEPT ![m] = IF m \in spinning THEN "respin" ELSE "top"] /\ UNCHANGED <<runq, runqsize>>
      BY <1>20, <2>104, ReturnPForm
    <3>2. QED  BY <2>102, <3>1
  <2>105. QED  BY <2>103, <2>104
<1>21. ASSUME NEW m \in Ms, Unspin(m)  PROVE Sum'
  <2>1. UNCHANGED <<waiting, runqsize, runq>>
    BY <1>21 DEF Unspin, StopSpinning
  <2>2. \A n \in Ms : Carrying(n)' <=> Carrying(n)
    BY <1>21 DEF Unspin, StopSpinning
  <2>3. \A n \in Ms : Injecting(n)' = Injecting(n)
    BY <1>21 DEF Unspin, StopSpinning
  <2>4. QED  BY <2>1, <2>2, <2>3, SumStill
<1>22. ASSUME NEW m \in Ms, Recheck(m)  PROVE Sum'
  <2>1. UNCHANGED <<waiting, runqsize, runq>>
    BY <1>22 DEF Recheck, Passed
  <2>2. \A n \in Ms : Carrying(n)' <=> Carrying(n)
    BY <1>22 DEF Recheck, Passed
  <2>3. \A n \in Ms : Injecting(n)' = Injecting(n)
    BY <1>22 DEF Recheck, Passed
  <2>4. QED  BY <2>1, <2>2, <2>3, SumStill
<1>23. ASSUME NEW m \in Ms, RecheckP(m)  PROVE Sum'
  <2>1. UNCHANGED <<waiting, runqsize, runq>>
    BY <1>23 DEF RecheckP, GetP
  <2>2. \A n \in Ms : Carrying(n)' <=> Carrying(n)
    BY <1>23 DEF RecheckP, GetP
  <2>3. \A n \in Ms : Injecting(n)' = Injecting(n)
    BY <1>23 DEF RecheckP, GetP
  <2>4. QED  BY <2>1, <2>2, <2>3, SumStill
<1>24. ASSUME NEW m \in Ms, StartSpinning(m, "respin", "top")  PROVE Sum'
  <2>1. UNCHANGED <<waiting, runqsize, runq>>
    BY <1>24 DEF StartSpinning
  <2>2. \A n \in Ms : Carrying(n)' <=> Carrying(n)
    BY <1>24 DEF StartSpinning
  <2>3. \A n \in Ms : Injecting(n)' = Injecting(n)
    BY <1>24 DEF StartSpinning
  <2>4. QED  BY <2>1, <2>2, <2>3, SumStill
<1>25. ASSUME NEW m \in Ms, Netpoll(m)  PROVE Sum'
  <2>1. UNCHANGED <<waiting, runqsize, runq>>
    BY <1>25 DEF Netpoll
  <2>2. \A n \in Ms : Carrying(n)' <=> Carrying(n)
    BY <1>25 DEF Netpoll
  <2>3. \A n \in Ms : Injecting(n)' = Injecting(n)
    BY <1>25 DEF Netpoll
  <2>4. QED  BY <2>1, <2>2, <2>3, SumStill
<1>26. ASSUME NEW m \in Ms, PolledP(m)  PROVE Sum'
  <2>100. /\ mpc[m] = "polled" /\ glist[m].n = 0 /\ glist[m].rest \in 0..NGoroutines /\ p[m] = Nil
          /\ UNCHANGED <<waiting, runq, runqsize>> /\ ret[m] \in {"respin", "top"}
    BY <1>26, PolledPForm
  <2>101. ASSUME NEW l \in {"respin", "top", "stopm", "inject"}, Go(m, l), l = "inject" => p' = p, UNCHANGED glist,
                 NEW r0, ret' = [ret EXCEPT ![m] = r0], NEW q, p' = [p EXCEPT ![m] = q]
          PROVE  Sum'
    <3>1. \A n \in Ms : (Carrying(n)' <=> Carrying(n)) /\ Injecting(n)' = Injecting(n)
      BY <2>100, <2>101 DEF Carrying, Injecting
    <3>2. QED  BY <2>100, <3>1, SumStill
  <2>102. ASSUME NEW l \in {"run", "inject"}, Go(m, l), glist[m].rest > 0, glist'[m].n = 0, glist'[m].rest = glist[m].rest - 1,
                 \A n \in Ms : n # m => glist'[n] = glist[n],
                 NEW r0, ret' = [ret EXCEPT ![m] = r0], NEW q \in Ps, p' = [p EXCEPT ![m] = q]
          PROVE  Sum'

    <3>1. /\ mpc[m] = "polled" /\ mpc'[m] \in {"run", "inject"} /\ p'[m] # Nil /\ glist[m].n = 0 /\ glist[m].rest \in Nat
          /\ glist'[m].n = 0 /\ glist'[m].rest = glist[m].rest - 1 /\ UNCHANGED <<waiting, runq, runqsize>>
          /\ \A n \in Ms : n # m => mpc'[n] = mpc[n] /\ glist'[n] = glist[n] /\ ret'[n] = ret[n] /\ p'[n] = p[n]
      BY <2>100, <2>102
    <3>50. \A n \in Ms : n # m => (Carrying(n)' <=> Carrying(n)) /\ Injecting(n)' = Injecting(n)
      BY <3>1 DEF Carrying, Injecting
    <3>51. ~Carrying(m) /\ Carrying(m)'
      BY <3>1 DEF Carrying
    <3>52. Cardinality(Carriers') = Cardinality(Carriers) + 1
      BY <3>50, <3>51, CarrierComes
    <3>53. Injecting(m) = glist[m].rest /\ Injecting(m)' = glist[m].rest - 1
      BY <3>1 DEF Injecting
    <3>54. Injected' = Injected - Injecting(m) + Injecting(m)'
      BY <3>50, InjectedMoves
    <3>55. InQueues' = InQueues
      BY <3>1, QueuesStay
    <3> HIDE <1>0, ThreadsFit, NoStartFits, NumbersFit
    <3>56. QED
      BY <1>00, <3>1, <3>52, <3>53, <3>54, <3>55, TermsFit DEF Sum
  <2>103. CASE \E q \in pidle :
                 /\ p' = [p EXCEPT ![m] = q] /\ pidle' = pidle \ {q}
                 /\ glist[m].rest = 0 /\ Go(m, ret[m]) /\ glist' = glist
                 /\ ret' = [ret EXCEPT ![m] = IF @ = "respin" THEN @ ELSE Nil]
    BY <2>100, <2>101, <2>103
  <2>104. CASE \E q \in pidle :
                 /\ p' = [p EXCEPT ![m] = q] /\ pidle' = pidle \ {q}
                 /\ glist[m].rest = 1 /\ Go(m, "run") /\ glist' = [glist EXCEPT ![m] = NoGs] /\ ret' = [ret EXCEPT ![m] = Nil]
    <3>1. PICK q \in pidle : p' = [p EXCEPT ![m] = q]
      BY <2>104
    <3>2. glist[m].rest > 0 /\ glist'[m].n = 0 /\ glist'[m].rest = glist[m].rest - 1 /\ \A n \in Ms : n # m => glist'[n] = glist[n]
      BY <2>104
    <3>3. QED  BY <2>102, <2>104, <3>1, <3>2
  <2>105. CASE \E q \in pidle :
                 /\ p' = [p EXCEPT ![m] = q] /\ pidle' = pidle \ {q}
                 /\ glist[m].rest > 1 /\ Go(m, "inject") /\ glist' = [glist EXCEPT ![m] = [n |-> 0, rest |-> glist[m].rest - 1]]
                 /\ ret' = [ret EXCEPT ![m] = Nil]
    <3>1. PICK q \in pidle : p' = [p EXCEPT ![m] = q]
      BY <2>105
    <3>2. glist[m].rest > 0 /\ glist'[m].n = 0 /\ glist'[m].rest = glist[m].rest - 1 /\ \A n \in Ms : n # m => glist'[n] = glist[n]
      BY <2>100, <2>105
    <3>3. QED  BY <2>102, <2>105, <3>1, <3>2
  <2>106. CASE /\ pidle = {} /\ Go(m, IF glist[m].rest = 0 THEN "stopm" ELSE "inject")
               /\ ret' = [ret EXCEPT ![m] = "top"] /\ UNCHANGED <<p, glist>>
    <3>1. Go(m, "stopm") \/ Go(m, "inject")
      BY <2>106
    <3>2. p' = [p EXCEPT ![m] = Nil]
      BY <2>100, <2>106
    <3>3. QED  BY <2>101, <2>106, <3>1, <3>2
  <2>107. QED  BY <1>26, <2>103, <2>104, <2>105, <2>106, PolledPForm
<1>27. ASSUME NEW m \in Ms, Inject(m)  PROVE Sum'
  <2>1. PICK k \in 0..NGoroutines, x \in 0..NGoroutines :
           /\ x <= k /\ glist[m].rest = k /\ glist[m].n = 0 /\ mpc[m] = "inject"
           /\ glist' = [glist EXCEPT ![m] = [n |-> x, rest |-> k - x]] /\ Go(m, "inject2")
           /\ UNCHANGED <<p, ret, waiting, runq, runqsize>>
    BY <1>27, InjectForm
  <2>2. \A n \in Ms : Carrying(n)' <=> Carrying(n)
    BY <2>1 DEF Carrying
  <2>3. \A n \in Ms : n # m => Injecting(n)' = Injecting(n)
    BY <2>1 DEF Injecting
  <2>4. Injecting(m) = k /\ Injecting(m)' = k
    <3>1. glist'[m].n = x /\ glist'[m].rest = k - x /\ mpc'[m] = "inject2" /\ mpc[m] = "inject" /\ glist[m].rest = k
      BY <2>1
    <3>2. k - x + x = k /\ k + 0 = k
      BY <2>1
    <3>3. QED  BY <3>1, <3>2 DEF Injecting
  <2>5. QED  BY <2>1, <2>2, <2>3, <2>4, SumStill
<1>28. ASSUME NEW m \in Ms, InjectGlobal(m)  PROVE Sum'
  <2>1. /\ mpc[m] = "inject2" /\ mpc'[m] = "inject3" /\ runqsize' = runqsize + glist[m].n /\ UNCHANGED <<p, ret, glist, runq, waiting>>
        /\ glist[m].n \in Nat /\ glist[m].rest \in Nat
        /\ \A n \in Ms : n # m => mpc'[n] = mpc[n]
    BY <1>28 DEF InjectGlobal
  <2>50. \A n \in Ms : n # m => (Carrying(n)' <=> Carrying(n)) /\ Injecting(n)' = Injecting(n)
    BY <2>1 DEF Carrying, Injecting
  <2>51. Carrying(m)' <=> Carrying(m)
    BY <2>1 DEF Carrying
  <2>52. Cardinality(Carriers') = Cardinality(Carriers)
    BY <2>50, <2>51, CarriersStay
  <2>53. Injecting(m) = glist[m].rest + glist[m].n /\ Injecting(m)' = glist[m].rest + 0
    BY <2>1 DEF Injecting
  <2>54. Injected' = Injected - Injecting(m) + Injecting(m)'
    BY <2>50, InjectedMoves
  <2>55. InQueues' = InQueues
    BY <2>1, QueuesStay
  <2> HIDE <1>0, ThreadsFit, NoStartFits, NumbersFit
  <2>56. QED
    BY <1>00, <2>1, <2>52, <2>53, <2>54, <2>55, TermsFit DEF Sum
<1>29. ASSUME NEW m \in Ms, StartIdle(m)  PROVE Sum'
  <2>1. UNCHANGED <<waiting, runqsize, runq>>
    BY <1>29, StartIdleForm DEF Called
  <2>2. \A n \in Ms : Carrying(n)' <=> Carrying(n)
    BY <1>29, StartIdleForm DEF Called
  <2>3. \A n \in Ms : Injecting(n)' = Injecting(n)
    BY <1>29, StartIdleForm DEF Called
  <2>4. QED  BY <2>1, <2>2, <2>3, SumStill
<1>30. ASSUME NEW m \in Ms, InjectLocal(m)  PROVE Sum'
  <2>100. mpc[m] = "inject3" /\ glist' = [glist EXCEPT ![m] = NoGs] /\ UNCHANGED <<p, waiting>>
    BY <1>30 DEF InjectLocal
  <2>101. CASE p[m] = Nil
    <3>1. Go(m, "stopm") /\ ret' = [ret EXCEPT ![m] = "top"] /\ UNCHANGED <<runq, runqsize>>
      BY <1>30, <2>101 DEF InjectLocal
    <3>2. glist[m].rest = 0
      BY <2>100, <2>101 DEF SchedInv, ListsFit
    <3>3. \A n \in Ms : (Carrying(n)' <=> Carrying(n)) /\ Injecting(n)' = Injecting(n)
      BY <2>100, <2>101, <3>1, <3>2 DEF Carrying, Injecting
    <3>4. QED  BY <2>100, <3>1, <3>3, SumStill
  <2>102. CASE p[m] # Nil
    <3> DEFINE k == Min({glist[m].rest, RunqLen - runq[p[m]]})
    <3>2. /\ p[m] \in Ps /\ glist[m].rest \in Nat /\ RunqLen - runq[p[m]] \in Nat /\ runq[p[m]] \in Nat
      BY <2>102
    <3>4. k \in Nat
      BY <3>2, LeastOfTwo
    <3>5. runq' = [runq EXCEPT ![p[m]] = @ + k] /\ runqsize' = runqsize + glist[m].rest - k /\ Go(m, "run") /\ ret' = [ret EXCEPT ![m] = Nil]
      BY <1>30, <2>102 DEF InjectLocal
    <3> HIDE DEF k
    <3>6. runq'[p[m]] = runq[p[m]] + k /\ \A r \in Ps : r # p[m] => runq'[r] = runq[r]
      BY <3>2, <3>5

    <3>1. /\ p[m] \in Ps /\ mpc[m] = "inject3" /\ mpc'[m] = "run" /\ runqsize' = runqsize + glist[m].rest - k /\ UNCHANGED <<p, waiting>>
          /\ glist[m].rest \in Nat /\ k \in Nat /\ runq[p[m]] \in Nat /\ p[m] # Nil /\ glist'[m].rest = 0
          /\ runq'[p[m]] = runq[p[m]] + k /\ \A r \in Ps : r # p[m] => runq'[r] = runq[r]
          /\ \A n \in Ms : n # m => mpc'[n] = mpc[n] /\ glist'[n] = glist[n] /\ ret'[n] = ret[n]
      BY <2>100, <2>102, <3>2, <3>4, <3>5, <3>6
    <3>50. \A n \in Ms : n # m => (Carrying(n)' <=> Carrying(n)) /\ Injecting(n)' = Injecting(n)
      BY <3>1 DEF Carrying, Injecting
    <3>51. Carrying(m)' <=> Carrying(m)
      BY <3>1 DEF Carrying
    <3>52. Cardinality(Carriers') = Cardinality(Carriers)
      BY <3>50, <3>51, CarriersStay
    <3>53. Injecting(m) = glist[m].rest /\ Injecting(m)' = 0
      BY <3>1 DEF Injecting
    <3>54. Injected' = Injected - Injecting(m) + Injecting(m)'
      BY <3>50, InjectedMoves
    <3>55. InQueues' = InQueues - runq[p[m]] + runq'[p[m]]
      BY <3>1, QueueMoves
    <3> HIDE <1>0, ThreadsFit, NoStartFits, NumbersFit
    <3>56. QED
      BY <1>00, <3>1, <3>52, <3>53, <3>54, <3>55, TermsFit DEF Sum
  <2>103. QED  BY <2>101, <2>102
<1>31. ASSUME NEW m \in Ms, Goready(m)  PROVE Sum'
  <2>1. /\ mpc[m] = "run" /\ mpc'[m] = "wakep" /\ ret'[m] = "run" /\ p[m] \in Ps /\ waiting' = waiting - 1 /\ UNCHANGED <<p, glist>>
        /\ \A n \in Ms : n # m => mpc'[n] = mpc[n] /\ ret'[n] = ret[n]
    BY <1>31, PsFit DEF Goready, CallWakep
  <2>2. \E x \in Int : /\ runqsize' = runqsize - x /\ runq'[p[m]] = runq[p[m]] + x + 1
                       /\ \A r \in Ps : r # p[m] => runq'[r] = runq[r]
    <3>1. runqput(p[m])
      BY <1>31 DEF Goready
    <3>2. CASE runqsize' = runqsize /\ runq' = [runq EXCEPT ![p[m]] = @ + 1]
      <4>1. runqsize' = runqsize - 0 /\ runq'[p[m]] = runq[p[m]] + 0 + 1 /\ \A r \in Ps : r # p[m] => runq'[r] = runq[r]
        BY <2>1, <3>2
      <4>2. QED  BY <4>1
    <3>3. ASSUME NEW y \in 1..RunqLen, runqsize' = runqsize + y + 1, runq' = [runq EXCEPT ![p[m]] = @ - y]
          PROVE  \E x \in Int : /\ runqsize' = runqsize - x /\ runq'[p[m]] = runq[p[m]] + x + 1
                                /\ \A r \in Ps : r # p[m] => runq'[r] = runq[r]
      <4>1. 0 - y - 1 \in Int /\ runq[p[m]] \in Nat
        BY <2>1
      <4>2. runqsize' = runqsize - (0 - y - 1) /\ runq'[p[m]] = runq[p[m]] + (0 - y - 1) + 1
        BY <2>1, <3>3, <4>1
      <4>3. \A r \in Ps : r # p[m] => runq'[r] = runq[r]
        BY <2>1, <3>3
      <4>4. QED  BY <4>1, <4>2, <4>3
    <3>4. QED  BY <2>1, <3>1, <3>2, <3>3, RunqputPuts
  <2>3. PICK x \in Int : /\ runqsize' = runqsize - x /\ runq'[p[m]] = runq[p[m]] + x + 1
                        /\ \A r \in Ps : r # p[m] => runq'[r] = runq[r]
    BY <2>2
  <2>50. \A n \in Ms : (Carrying(n)' <=> Carrying(n)) /\ Injecting(n)' = Injecting(n)
    BY <2>1 DEF Carrying, Injecting
  <2>52. Cardinality(Carriers') = Cardinality(Carriers)
    BY <2>50, CarriersStay
  <2>54. Injected' = Injected
    BY <2>50, InjectedStays
  <2>55. InQueues' = InQueues - runq[p[m]] + runq'[p[m]]
    BY <2>1, <2>3, QueueMoves
  <2>57. runq[p[m]] \in Nat
    BY <2>1
  <2> HIDE <1>0, ThreadsFit, NoStartFits, NumbersFit
  <2>58. QED
    BY <1>00, <2>1, <2>3, <2>52, <2>54, <2>55, <2>57, TermsFit DEF Sum
<1>32. ASSUME NEW m \in Ms, Park(m)  PROVE Sum'
  <2>1. /\ mpc[m] = "run" /\ mpc'[m] = "schedule" /\ waiting' = waiting + 1 /\ UNCHANGED <<p, ret, glist, runq, runqsize>>
        /\ \A n \in Ms : n # m => mpc'[n] = mpc[n]
    BY <1>32 DEF Park
  <2>50. \A n \in Ms : n # m => (Carrying(n)' <=> Carrying(n)) /\ Injecting(n)' = Injecting(n)
    BY <2>1 DEF Carrying, Injecting
  <2>51. Carrying(m) /\ ~Carrying(m)'
    BY <2>1 DEF Carrying
  <2>52. Cardinality(Carriers') = Cardinality(Carriers) - 1
    BY <2>50, <2>51, CarrierLeaves
  <2>53. Injecting(m)' = Injecting(m)
    BY <2>1 DEF Injecting
  <2>54. Injected' = Injected
    BY <2>50, <2>53, InjectedStays
  <2>55. InQueues' = InQueues
    BY <2>1, QueuesStay
  <2> HIDE <1>0, ThreadsFit, NoStartFits, NumbersFit
  <2>56. QED
    BY <1>00, <2>1, <2>52, <2>53, <2>54, <2>55, TermsFit DEF Sum
<1>33. ASSUME NEW m \in Ms, Gosched(m)  PROVE Sum'
  <2>1. /\ mpc[m] = "run" /\ mpc'[m] = "schedule" /\ runqsize' = runqsize + 1 /\ UNCHANGED <<p, ret, glist, runq, waiting>>
        /\ \A n \in Ms : n # m => mpc'[n] = mpc[n]
    BY <1>33 DEF Gosched
  <2>50. \A n \in Ms : n # m => (Carrying(n)' <=> Carrying(n)) /\ Injecting(n)' = Injecting(n)
    BY <2>1 DEF Carrying, Injecting
  <2>51. Carrying(m) /\ ~Carrying(m)'
    BY <2>1 DEF Carrying
  <2>52. Cardinality(Carriers') = Cardinality(Carriers) - 1
    BY <2>50, <2>51, CarrierLeaves
  <2>53. Injecting(m)' = Injecting(m)
    BY <2>1 DEF Injecting
  <2>54. Injected' = Injected
    BY <2>50, <2>53, InjectedStays
  <2>55. InQueues' = InQueues
    BY <2>1, QueuesStay
  <2> HIDE <1>0, ThreadsFit, NoStartFits, NumbersFit
  <2>56. QED
    BY <1>00, <2>1, <2>52, <2>53, <2>54, <2>55, TermsFit DEF Sum
<1>34. ASSUME NEW m \in Ms, Entersyscall(m)  PROVE Sum'
  <2>1. UNCHANGED <<waiting, runqsize, runq>>
    BY <1>34 DEF Entersyscall
  <2>2. \A n \in Ms : Carrying(n)' <=> Carrying(n)
    BY <1>34 DEF Entersyscall
  <2>3. \A n \in Ms : Injecting(n)' = Injecting(n)
    BY <1>34 DEF Entersyscall
  <2>4. QED  BY <2>1, <2>2, <2>3, SumStill
<1>35. ASSUME NEW m \in Ms, Entersyscallblock(m)  PROVE Sum'
  <2>1. UNCHANGED <<waiting, runqsize, runq>>
    BY <1>35 DEF Entersyscallblock
  <2>2. \A n \in Ms : Carrying(n)' <=> Carrying(n)
    BY <1>35 DEF Entersyscallblock
  <2>3. \A n \in Ms : Injecting(n)' = Injecting(n)
    BY <1>35 DEF Entersyscallblock
  <2>4. QED  BY <2>1, <2>2, <2>3, SumStill
<1>36. ASSUME NEW m \in Ms, Exitsyscall(m)  PROVE Sum'
  <2>1. UNCHANGED <<waiting, runqsize, runq>>
    BY <1>36 DEF Exitsyscall
  <2>2. \A n \in Ms : Carrying(n)' <=> Carrying(n)
    BY <1>36 DEF Exitsyscall
  <2>3. \A n \in Ms : Injecting(n)' = Injecting(n)
    BY <1>36 DEF Exitsyscall
  <2>4. QED  BY <2>1, <2>2, <2>3, SumStill
<1>37. ASSUME NEW m \in Ms, Polled(m)  PROVE Sum'
  <2>0. PICK k \in 0..NGoroutines :
          /\ k <= waiting /\ waiting' = waiting - k /\ glist[m] = NoGs /\ glist' = [glist EXCEPT ![m] = [n |-> 0, rest |-> k]]
          /\ mpc[m] = "polling" /\ Go(m, "polled") /\ UNCHANGED <<p, ret, runq, runqsize>>
    BY <1>37, PolledForm
  <2>1. /\ mpc[m] = "polling" /\ mpc'[m] = "polled" /\ waiting' = waiting - k /\ UNCHANGED <<p, ret, runq, runqsize>> /\ k \in Nat
        /\ glist[m].n = 0 /\ glist[m].rest = 0 /\ glist'[m].n = 0 /\ glist'[m].rest = k
        /\ \A n \in Ms : n # m => mpc'[n] = mpc[n] /\ glist'[n] = glist[n]
    BY <2>0
  <2>50. \A n \in Ms : n # m => (Carrying(n)' <=> Carrying(n)) /\ Injecting(n)' = Injecting(n)
    BY <2>1 DEF Carrying, Injecting
  <2>51. Carrying(m)' <=> Carrying(m)
    BY <2>1 DEF Carrying
  <2>52. Cardinality(Carriers') = Cardinality(Carriers)
    BY <2>50, <2>51, CarriersStay
  <2>53. Injecting(m) = 0 /\ Injecting(m)' = k
    BY <2>1 DEF Injecting
  <2>54. Injected' = Injected - Injecting(m) + Injecting(m)'
    BY <2>50, InjectedMoves
  <2>55. InQueues' = InQueues
    BY <2>1, QueuesStay
  <2> HIDE <1>0, ThreadsFit, NoStartFits, NumbersFit
  <2>56. QED
    BY <1>00, <2>1, <2>52, <2>53, <2>54, <2>55, TermsFit DEF Sum
<1>38. ASSUME Retake  PROVE Sum'
  <2>1. UNCHANGED <<waiting, runqsize, runq>>
    BY <1>38 DEF Retake
  <2>2. \A n \in Ms : Carrying(n)' <=> Carrying(n)
    BY <1>38 DEF Retake
  <2>3. \A n \in Ms : Injecting(n)' = Injecting(n)
    BY <1>38 DEF Retake
  <2>4. QED  BY <2>1, <2>2, <2>3, SumStill
<1>39. CASE UNCHANGED svars
  BY <1>39, SumStill DEF svars, Carrying, Injecting
<1>40. QED
  BY <1>1, <1>2, <1>3, <1>4, <1>5, <1>6, <1>7, <1>8, <1>9, <1>10, <1>11, <1>12, <1>13, <1>14,
     <1>15, <1>16, <1>17, <1>18, <1>19, <1>20, <1>21, <1>22, <1>23, <1>24, <1>25, <1>26, <1>27, <1>28,
     <1>29, <1>30, <1>31, <1>32, <1>33, <1>34, <1>35, <1>36, <1>37, <1>38, <1>39 DEF SchedNext, Step, MStep, Environment

-----------------------------------------------------------------------------
(* Work, and who is to look at it. *)

\* What there is to look at in the Ps of S and in the global queue, and who does.
Wanted(S) == runqsize + Cardinality(Places(runq, S))
Helpers(S) == [m \in Ms |-> Help(m, S)]
Helping(S) == Cardinality(Places(Helpers(S), Ms))
Counted == QueuesTyped /\ ListsTyped /\ ListsFit

\* Work and help are numbers, in any set of Ps.
LEMMA HelpFits ==
  Counted => \A S \in SUBSET Ps :
               /\ Small(Helpers(S), Ms) /\ Small(runq, S) /\ Wanted(S) \in Nat /\ Helping(S) \in Nat
               /\ \A m \in Ms : Help(m, S) \in Nat /\ Promised(m) \in Nat
<1> SUFFICES ASSUME Counted, NEW S \in SUBSET Ps
             PROVE  /\ Small(Helpers(S), Ms) /\ Small(runq, S) /\ Wanted(S) \in Nat /\ Helping(S) \in Nat
                    /\ \A m \in Ms : Help(m, S) \in Nat /\ Promised(m) \in Nat
  OBVIOUS
<1>1. ASSUME NEW m \in Ms
      PROVE  Promised(m) \in Nat /\ Help(m, S) \in Nat /\ Helpers(S)[m] \in 0..(NGoroutines + RunqLen)
  <2>1. glist[m].n \in Nat /\ glist[m].n <= NGoroutines
    BY DEF Counted, ListsTyped
  <2>2. Promised(m) \in Nat /\ Promised(m) <= NGoroutines
    BY <2>1, NumbersFit DEF Promised
  <2>3. Help(m, S) \in Nat /\ Help(m, S) <= NGoroutines + 1
    BY <2>2, NumbersFit DEF Help
  <2>4. QED  BY <2>2, <2>3, NumbersFit DEF Helpers
<1>2. Small(runq, S)
  BY NumbersFit DEF Counted, QueuesTyped, Small
<1>3. IsFiniteSet(S) /\ IsFiniteSet(Ms)
  BY SchedAssumption, FS_Subset
<1>4. Wanted(S) \in Nat /\ Helping(S) \in Nat
  BY <1>3, PlacesFinite DEF Wanted, Helping, Counted, QueuesTyped
<1>5. QED  BY <1>1, <1>2, <1>4 DEF Small

\* And after a step.
LEMMA HelpNext ==
  (Counted => \A S \in SUBSET Ps :
                /\ Small(Helpers(S), Ms) /\ Small(runq, S) /\ Wanted(S) \in Nat /\ Helping(S) \in Nat
                /\ \A m \in Ms : Help(m, S) \in Nat /\ Promised(m) \in Nat)'
BY HelpFits, PTL

\* Helped compares the two.
LEMMA HelpedMeans == \A S \in SUBSET Ps : Helped(S) <=> Wanted(S) <= Helping(S)
BY DEF Helped, Wanted, Helping, Helpers

\* And after a step.
LEMMA HelpedMeansNext == (\A S \in SUBSET Ps : Helped(S) <=> Wanted(S) <= Helping(S))'
BY HelpedMeans, PTL

\* One thread's help may change with what there is to look at.
LEMMA HelpedTakes ==
  ASSUME Counted, Counted', NEW S \in SUBSET Ps, NEW m \in Ms, Helped(S),
         Wanted(S)' + Help(m, S) <= Wanted(S) + Help(m, S)',
         \A n \in Ms : n # m => Help(n, S) <= Help(n, S)'
  PROVE  Helped(S)'
<1> DEFINE f == Helpers(S)
           g == Helpers(S)'
           R == Ms \ {m}
<1>1. \A n \in Ms : f[n] = Help(n, S) /\ g[n] = Help(n, S)'
  BY DEF Helpers
<1>2. Small(f, Ms) /\ Small(g, Ms)
  BY HelpFits, HelpNext DEF Small
<1>3. IsFiniteSet(Ms) /\ IsFiniteSet(R) /\ Small(f, R) /\ Small(g, R)
  BY <1>2, SchedAssumption, FS_RemoveElement DEF Small
<1>4. Helping(S) = Cardinality(Places(f, Ms)) /\ Helping(S)' = Cardinality(Places(g, Ms))
  BY DEF Helping, Places
<1>5. \A n \in R : f[n] <= g[n]
  BY <1>1
<1> HIDE DEF f, g, R
<1>6. Cardinality(Places(f, R)) <= Cardinality(Places(g, R))
  BY <1>3, <1>5, PlacesMore
<1>7. /\ Cardinality(Places(f, Ms)) = Cardinality(Places(f, R)) + f[m]
      /\ Cardinality(Places(g, Ms)) = Cardinality(Places(g, R)) + g[m]
  BY <1>2, <1>3, PlacesAdd DEF R
<1>8. Cardinality(Places(f, R)) \in Nat /\ Cardinality(Places(g, R)) \in Nat
  BY <1>3, PlacesFinite
<1>9. Wanted(S) <= Helping(S) /\ Wanted(S) \in Nat /\ Wanted(S)' \in Nat
  BY HelpedMeans, HelpFits, HelpNext
<1>10. Help(m, S) \in Nat /\ Help(m, S)' \in Nat
  BY HelpFits, HelpNext
<1>11. Wanted(S)' <= Helping(S)'
  BY <1>1, <1>4, <1>6, <1>7, <1>8, <1>9, <1>10
<1>12. QED  BY <1>11, HelpedMeansNext

\* One thread helps in the place of another.
LEMMA HelpedPasses ==
  ASSUME Counted, Counted', NEW S \in SUBSET Ps, NEW m \in Ms, NEW t \in Ms, m # t, Helped(S),
         Wanted(S)' = Wanted(S), Help(m, S) + Help(t, S) <= Help(m, S)' + Help(t, S)',
         \A n \in Ms : n # m /\ n # t => Help(n, S) <= Help(n, S)'
  PROVE  Helped(S)'
<1> DEFINE f == Helpers(S)
           g == Helpers(S)'
           R == Ms \ {m}
           Q == R \ {t}
<1>1. \A n \in Ms : f[n] = Help(n, S) /\ g[n] = Help(n, S)'
  BY DEF Helpers
<1>2. Small(f, Ms) /\ Small(g, Ms)
  BY HelpFits, HelpNext DEF Small
<1>3. /\ IsFiniteSet(Ms) /\ IsFiniteSet(R) /\ Small(f, R) /\ Small(g, R) /\ t \in R
      /\ IsFiniteSet(Q) /\ Small(f, Q) /\ Small(g, Q)
  BY <1>2, SchedAssumption, FS_RemoveElement DEF Small
<1>4. Helping(S) = Cardinality(Places(f, Ms)) /\ Helping(S)' = Cardinality(Places(g, Ms))
  BY DEF Helping, Places
<1>5. \A n \in Q : f[n] <= g[n]
  BY <1>1
<1> HIDE DEF f, g
<1>6. Cardinality(Places(f, Q)) <= Cardinality(Places(g, Q))
  BY <1>3, <1>5, PlacesMore
<1>7. /\ Cardinality(Places(f, Ms)) = Cardinality(Places(f, R)) + f[m]
      /\ Cardinality(Places(g, Ms)) = Cardinality(Places(g, R)) + g[m]
  BY <1>2, <1>3, PlacesAdd
<1>70. /\ Cardinality(Places(f, R)) = Cardinality(Places(f, Q)) + f[t]
       /\ Cardinality(Places(g, R)) = Cardinality(Places(g, Q)) + g[t]
  BY <1>3, PlacesAdd
<1>8. Cardinality(Places(f, Q)) \in Nat /\ Cardinality(Places(g, Q)) \in Nat
  BY <1>3, PlacesFinite
<1> HIDE DEF R, Q
<1>9. Wanted(S) <= Helping(S) /\ Wanted(S) \in Nat
  BY HelpedMeans, HelpFits
<1>10. Help(m, S) \in Nat /\ Help(m, S)' \in Nat /\ Help(t, S) \in Nat /\ Help(t, S)' \in Nat
  BY HelpFits, HelpNext
<1>11. Wanted(S)' <= Helping(S)'
  BY <1>1, <1>4, <1>6, <1>7, <1>70, <1>8, <1>9, <1>10
<1>12. QED  BY <1>11, HelpedMeansNext

\* Nobody helps less.
LEMMA HelpGrows ==
  ASSUME Counted, Counted', NEW m \in Ms, NEW S \in SUBSET Ps, Looks(m, S) => Looks(m, S)', Promised(m) <= Promised(m)'
  PROVE  Help(m, S) <= Help(m, S)'
<1>1. Promised(m) \in Nat /\ Promised(m)' \in Nat
  BY HelpFits, HelpNext
<1>2. QED  BY <1>1 DEF Help

\* No queue changes.
LEMMA WantedStays ==
  ASSUME UNCHANGED <<runq, runqsize>>, NEW S
  PROVE  Wanted(S)' = Wanted(S)
BY DEF Wanted, Places

\* Where all queues are empty, no help is needed.
LEMMA WantedNothing ==
  ASSUME Counted', runqsize' = 0, NEW S \in SUBSET Ps, \A q \in S : runq'[q] = 0
  PROVE  Helped(S)'
<1>1. IsFiniteSet(S) /\ Small(runq', S)
  BY HelpNext, SchedAssumption, FS_Subset DEF Small
<1>2. Cardinality(Places(runq', S)) = 0
  BY <1>1, PlacesNone
<1>3. Wanted(S)' = 0
  BY <1>2 DEF Wanted, Places
<1>4. Helping(S)' \in Nat
  BY HelpNext
<1>5. QED  BY <1>3, <1>4, HelpedMeansNext

\* Whoever looked before looks still.
LEMMA KeepsLooking ==
  ASSUME Loose, SomebodyLooks, pidle' # {} /\ ~overlooked' => pidle # {} /\ ~overlooked,
         nmspinning > 0 => nmspinning' > 0,
         \A m \in Ms : mpc[m] \in Waking => mpc'[m] = mpc[m],
         \A m \in Ms : mpc[m] = "recheck" => mpc'[m] = mpc[m] /\ looked'[m] = looked[m],
         \A S \in SUBSET Ps : Helped(S) => Helped(S)'
  PROVE  SomebodyLooks'
<1> SUFFICES ASSUME pidle' # {}, ~overlooked'
             PROVE  \/ nmspinning' > 0
                    \/ \E m \in Ms : mpc'[m] \in Waking
                    \/ Helped(Ps)'
                    \/ \E m \in Ms : mpc'[m] = "recheck" /\ Helped(looked[m])'
  BY DEF SomebodyLooks, Waking
<1>1. CASE nmspinning > 0
  BY <1>1
<1>2. CASE \E m \in Ms : mpc[m] \in Waking
  BY <1>2
<1>3. CASE Helped(Ps)
  BY <1>3
<1>4. CASE \E m \in Ms : mpc[m] = "recheck" /\ Helped(looked[m])
  <2>1. PICK m \in Ms : mpc[m] = "recheck" /\ Helped(looked[m])
    BY <1>4
  <2>2. PICK S \in SUBSET Ps : S = looked[m]
    BY DEF Loose, ListsTyped
  <2>3. Helped(S)' /\ mpc'[m] = "recheck" /\ looked'[m] = S
    BY <2>1, <2>2
  <2>4. Helped(looked[m])'
    BY <2>3 DEF Helped, Help, Looks, Counts
  <2>5. QED  BY <2>3, <2>4
<1>5. QED  BY <1>1, <1>2, <1>3, <1>4 DEF SomebodyLooks

\* The queues are the same, and whoever looked or was about to does so still.
LEMMA StillLooks ==
  ASSUME Loose, Counted, Counted', SomebodyLooks, UNCHANGED <<runq, runqsize, nmspinning>>,
         pidle' # {} /\ ~overlooked' => pidle # {} /\ ~overlooked,
         \A m \in Ms : mpc[m] \in Waking => mpc'[m] = mpc[m],
         \A m \in Ms : mpc[m] = "recheck" => mpc'[m] = mpc[m] /\ looked'[m] = looked[m],
         \A m \in Ms : \A S \in SUBSET Ps : Looks(m, S) => Looks(m, S)',
         \A m \in Ms : Promised(m)' = Promised(m)
  PROVE  SomebodyLooks'
<1>1. ASSUME NEW S \in SUBSET Ps, Helped(S)  PROVE Helped(S)'
  <2>1. Wanted(S)' = Wanted(S)
    BY WantedStays
  <2>2. \A m \in Ms : Promised(m) \in Nat
    BY HelpFits
  <2>3. \A m \in Ms : Help(m, S) <= Help(m, S)'
    BY <2>2, HelpGrows
  <2> DEFINE f == Helpers(S)
             g == Helpers(S)'
  <2>4. Small(f, Ms) /\ Small(g, Ms) /\ IsFiniteSet(Ms) /\ \A m \in Ms : f[m] <= g[m]
    BY <2>3, HelpFits, HelpNext, SchedAssumption DEF Helpers, Small
  <2>5. Helping(S) = Cardinality(Places(f, Ms)) /\ Helping(S)' = Cardinality(Places(g, Ms))
    BY DEF Helping, Places
  <2> HIDE DEF f, g
  <2>6. Helping(S) <= Helping(S)'
    BY <2>4, <2>5, PlacesMore
  <2>7. Wanted(S) \in Nat /\ Helping(S) \in Nat /\ Helping(S)' \in Nat
    BY HelpFits, HelpNext
  <2>8. Wanted(S) <= Helping(S)
    BY <1>1, HelpedMeans
  <2>9. QED  BY <2>1, <2>6, <2>7, <2>8, HelpedMeansNext
<1>2. QED  BY <1>1, KeepsLooking


\* A thread that does not spin takes one goroutine, and has looked at what the
\* others are to look at.
LEMMA TakesOne ==
  ASSUME SchedInv, Loose, Counted, Counted', SomebodyLooks, NEW m \in Ms, m \notin spinning,
         mpc[m] \in {"schedule", "top", "spin", "release"}, p[m] \in Ps,
         mpc'[m] \in {"run", "found"}, \A n \in Ms : n # m => mpc'[n] = mpc[n],
         UNCHANGED <<p, nextp, spinning, nmspinning, pidle, start, ret, looked, glist, overlooked>>,
         \A q \in Ps : q # p[m] => runq'[q] = runq[q],
         \/ runqsize' = runqsize - 1 /\ runq' = runq
         \/ runqsize' = runqsize /\ runq'[p[m]] = runq[p[m]] - 1
         \/ runq[p[m]] = 0 /\ runqsize' + runq'[p[m]] = runqsize - 1
  PROVE  SomebodyLooks'
<1>0. Control /\ PsTyped /\ QueuesTyped /\ QueuesTyped' /\ ListsTyped /\ StartFits /\ IdleFits
  BY DEF Loose, SchedInv, Counted
<1>1. \A n \in Ms : n # m => /\ p[n] # p[m] /\ nextp[n] # p[m] /\ start[n].p # p[m]
  BY ThreadsFit, Alone DEF SchedInv, NothingIsLost
<1>10. \A n \in Ms :
         /\ mpc[n] = "startm2" => start[n].p \in Ps
         /\ nextp[n] # Nil => nextp[n] \in Ps
         /\ mpc[n] \in {"schedule", "top", "spin", "release"} => p[n] \in Ps
  BY ThreadsFit, PsFit DEF SchedInv, StartFits, Loose, PsTyped, ThreadsTyped, Starts
<1>2. ASSUME NEW S \in SUBSET Ps, Helped(S)  PROVE Helped(S)'
  <2>1. \A n \in Ms : n # m => (Looks(n, S) => Looks(n, S)') /\ Promised(n)' = Promised(n)
    BY <1>1, <1>10 DEF Looks, Counts, Promised
  <2>2. \A n \in Ms : Promised(n) \in Nat /\ Help(n, S) \in Nat /\ Help(n, S)' \in Nat /\ Wanted(S) \in Nat /\ Wanted(S)' \in Nat
    BY HelpFits, HelpNext
  <2>3. \A n \in Ms : n # m => Help(n, S) <= Help(n, S)'
    BY <2>1, <2>2 DEF Help
  <2>4. Promised(m) = 0 /\ Promised(m)' = 0 /\ ~Looks(m, S)'
    BY <1>0 DEF Promised, Looks, Calling, IdleFits
  <2>5. Help(m, S)' = 0 /\ Help(m, S) = IF Looks(m, S) THEN 1 ELSE 0
    BY <2>4 DEF Help
  <2>6. Counts(p[m], S) => Looks(m, S)
    BY DEF Looks
  <2>7. runq[p[m]] \in Nat /\ runq'[p[m]] \in Nat /\ runqsize \in Nat /\ runqsize' \in Nat
    BY <1>0, NumbersFit DEF QueuesTyped
  <2>8. Cardinality(Places(runq, S)) \in Nat /\ IsFiniteSet(S) /\ Small(runq, S) /\ Small(runq', S)
    BY SchedAssumption, FS_Subset, PlacesFinite, HelpFits, HelpNext DEF Small
  <2>9. Wanted(S) = runqsize + Cardinality(Places(runq, S)) /\ Wanted(S)' = runqsize' + Cardinality(Places(runq', S))
    BY DEF Wanted, Places
  <2>10. p[m] \in S => Cardinality(Places(runq', S)) = Cardinality(Places(runq, S)) - runq[p[m]] + runq'[p[m]]
    BY <2>8, PlacesMove
  <2>11. p[m] \notin S => Cardinality(Places(runq', S)) = Cardinality(Places(runq, S))
    BY PlacesSame
  <2>12. CASE p[m] \in S
    <3>1. Wanted(S)' <= Wanted(S) - 1 /\ Help(m, S) = 1
      BY <2>5, <2>6, <2>7, <2>8, <2>9, <2>10, <2>12 DEF Counts
    <3>2. Wanted(S)' + Help(m, S) <= Wanted(S) + Help(m, S)'
      BY <2>2, <2>5, <3>1
    <3>3. QED  BY <1>2, <2>3, <3>2, HelpedTakes
  <2>13. CASE p[m] \notin S
    <3>1. CASE Looks(m, S)
      <4>1. runq[p[m]] = 0
        BY <1>0, <2>13, <3>1 DEF Looks, Counts, IdleFits
      <4>2. Wanted(S)' <= Wanted(S) - 1
        BY <2>7, <2>8, <2>9, <2>11, <2>13, <4>1
      <4>3. Wanted(S)' + Help(m, S) <= Wanted(S) + Help(m, S)'
        BY <2>2, <2>5, <3>1, <4>2
      <4>4. QED  BY <1>2, <2>3, <4>3, HelpedTakes
    <3>2. CASE ~Looks(m, S)
      <4>1. Wanted(S)' <= Wanted(S)
        BY <2>7, <2>8, <2>9, <2>11, <2>13
      <4>2. Wanted(S)' + Help(m, S) <= Wanted(S) + Help(m, S)'
        BY <2>2, <2>5, <3>2, <4>1
      <4>3. QED  BY <1>2, <2>3, <4>2, HelpedTakes
    <3>3. QED  BY <3>1, <3>2
  <2>14. QED  BY <2>12, <2>13
<1>3. \A n \in Ms : mpc[n] \in Waking \cup {"recheck"} => mpc'[n] = mpc[n]
  BY DEF Waking
<1>4. QED  BY <1>2, <1>3, KeepsLooking

\* A thread that does not spin takes a goroutine from the global queue.
LEMMA GlobalTakesOne ==
  ASSUME SchedInv, Loose, Counted, Counted', SomebodyLooks, NEW m \in Ms, m \notin spinning,
         mpc[m] \in {"schedule", "top", "spin", "release"}, p[m] \in Ps, runq[p[m]] = 0, globrunqget(p[m], 0),
         mpc'[m] \in {"run", "found"}, \A n \in Ms : n # m => mpc'[n] = mpc[n],
         UNCHANGED <<p, nextp, spinning, nmspinning, pidle, start, ret, looked, glist, overlooked>>
  PROVE  SomebodyLooks'
<1>1. PICK x \in 1..RunqLen : x <= runqsize /\ runqsize' = runqsize - x /\ runq' = [runq EXCEPT ![p[m]] = @ + x - 1]
  BY GlobrunqgetTakes
<1>2. runq \in [Ps -> 0..RunqLen] /\ runqsize \in Nat
  BY DEF Loose, QueuesTyped
<1>3. \A q \in Ps : q # p[m] => runq'[q] = runq[q]
  BY <1>1, <1>2
<1>4. runqsize' + runq'[p[m]] = runqsize - 1
  BY <1>1, <1>2
<1>5. QED  BY <1>3, <1>4, TakesOne

\* A queue that is empty makes no difference.
LEMMA PassesOne ==
  ASSUME Loose, Counted, Counted', NEW m \in Ms, NEW q \in Ps, runq[q] = 0, mpc[m] = "recheck", mpc'[m] \in {"netpoll", "recheck"},
         \A n \in Ms : n # m => mpc'[n] = mpc[n],
         UNCHANGED <<p, nextp, spinning, nmspinning, runq, runqsize, start, ret, glist>>,
         NEW S \in SUBSET Ps, NEW T \in SUBSET Ps, T = S \/ T = S \cup {q}, Helped(S)
  PROVE  Helped(T)'
<1>0. IsFiniteSet(S) /\ IsFiniteSet(T) /\ Small(runq, S) /\ Small(runq, T) /\ IsFiniteSet(Ms)
  BY SchedAssumption, FS_Subset, HelpFits
<1>1. Places(runq', T) = Places(runq, S)
  <2>1. T \X (1..NGoroutines + RunqLen) = (S \X (1..NGoroutines + RunqLen)) \cup ((T \ S) \X (1..NGoroutines + RunqLen))
    OBVIOUS
  <2>2. \A x \in (T \ S) \X (1..NGoroutines + RunqLen) : runq[x[1]] = 0 /\ x[2] > 0
    BY NumbersFit
  <2>3. QED  BY <2>1, <2>2 DEF Places
<1>2. Wanted(T)' = Wanted(S)
  BY <1>1 DEF Wanted, Places
<1> DEFINE f == Helpers(S)
           g == Helpers(T)'
<1>3. \A n \in Ms : Promised(n)' = Promised(n) /\ Promised(n) \in Nat
  BY HelpFits DEF Promised, Calling
<1>4. \A n \in Ms : Looks(n, S) => Looks(n, T)'
  BY DEF Looks, Counts
<1>5. \A n \in Ms : f[n] = Help(n, S) /\ g[n] = Help(n, T)'
  BY DEF Helpers
<1>6. \A n \in Ms : Help(n, S) <= Help(n, T)'
  BY <1>3, <1>4 DEF Help
<1>7. Small(f, Ms) /\ Small(g, Ms)
  BY HelpFits, HelpNext DEF Small
<1>8. Helping(S) = Cardinality(Places(f, Ms)) /\ Helping(T)' = Cardinality(Places(g, Ms))
  BY DEF Helping, Places
<1>9. \A n \in Ms : f[n] <= g[n]
  BY <1>5, <1>6
<1> HIDE DEF f, g
<1>10. Helping(S) <= Helping(T)'
  BY <1>0, <1>7, <1>8, <1>9, PlacesMore
<1>11. Wanted(S) \in Nat /\ Helping(S) \in Nat /\ Helping(T)' \in Nat
  BY HelpFits, HelpNext
<1>12. Wanted(S) <= Helping(S)
  BY HelpedMeans
<1>13. QED  BY <1>2, <1>10, <1>11, <1>12, HelpedMeansNext

\* injectglist ends: it has helped as much as it was to.
LEMMA InjectorGone ==
  ASSUME Loose, Counted, Counted', SomebodyLooks, NEW m \in Ms, mpc[m] = "inject3", glist[m].n = 0, mpc'[m] \in {"stopm", "run"},
         \A n \in Ms : n # m => mpc'[n] = mpc[n] /\ ret'[n] = ret[n],
         glist' = [glist EXCEPT ![m] = NoGs], IdleFits,
         UNCHANGED <<p, nextp, spinning, nmspinning, pidle, runq, runqsize, start, looked>>, ~overlooked' => ~overlooked
  PROVE  SomebodyLooks'
<1>1. \A n \in Ms : \A S \in SUBSET Ps : Looks(n, S) => Looks(n, S)'
  BY DEF Looks, Counts, IdleFits
<1>2. \A n \in Ms : Promised(n)' = Promised(n)
  BY DEF Promised, Calling, Loose, ListsTyped
<1>3. \A n \in Ms : mpc[n] \in Waking \cup {"recheck"} => mpc'[n] = mpc[n]
  BY DEF Waking
<1>4. QED  BY <1>1, <1>2, <1>3, StillLooks

\* Every step keeps somebody looking.
LEMMA NextLooks ==
  ASSUME SchedInv, Loose, [SchedNext]_svars, SomebodyLooks, Counted, Counted'
  PROVE  SomebodyLooks'
<1>0. Control /\ PsTyped /\ ThreadsTyped /\ QueuesTyped /\ ListsTyped /\ RetFits /\ StartFits /\ IdleFits
  BY DEF Loose, SchedInv
<1>00. SchedInv /\ Loose /\ SomebodyLooks /\ Counted /\ Counted'
  OBVIOUS
<1>01. nmspinning \in Nat
  BY DEF Loose
<1> HIDE DEF NoStart
<1> USE ThreadsFit, NoStartFits, <1>0 DEF Control, PsTyped, ThreadsTyped, QueuesTyped, ListsTyped, RetFits, StartFits, IdleFits, Waking, Looks, Counts, Promised, Calling, Handing
<1>1. ASSUME NEW t \in Threads, WakepIdle(t)  PROVE SomebodyLooks'
  <2>1. t \in Ms
    BY <1>1 DEF WakepIdle
  <2>2. CASE pidle = {}
    BY <1>1, <2>2 DEF WakepIdle, SomebodyLooks
  <2>3. CASE pidle # {}
    <3>1. mpc'[t] = "wakep2"
      BY <1>1, <2>3 DEF WakepIdle
    <3>2. QED  BY <2>1, <3>1 DEF SomebodyLooks
  <2>4. QED  BY <2>2, <2>3
<1>2. ASSUME NEW t \in Threads, Wakep(t)  PROVE SomebodyLooks'
  <2>0. (nmspinning # 0 /\ nmspinning' = nmspinning) \/ nmspinning' = 1
    BY <1>2, WakepForm DEF Called
  <2>1. nmspinning' > 0
    BY <1>01, <2>0
  <2>2. QED  BY <2>1 DEF SomebodyLooks
<1>3. ASSUME NEW t \in Threads, Startm(t)  PROVE SomebodyLooks'
  <2>0. PICK q \in Ps : /\ mpc[t] = "startm" /\ Go(t, "startm2") /\ (start[t].p = Nil => runq[q] = 0)
                       /\ start'[t].p = q /\ \A u \in Threads : u # t => start'[u] = start[u]
    BY <1>3, StartmForm DEF Called, SchedInv, EmptyFits
  <2>10. UNCHANGED <<p, nextp, spinning, ret, glist, overlooked>> /\ pidle' \subseteq pidle
    BY <1>3, StartmForm
  <2>1. UNCHANGED <<nmspinning, runq, runqsize, looked>> /\ (pidle' # {} /\ ~overlooked' => pidle # {} /\ ~overlooked)
    BY <1>3, <2>0, <2>10, StartmForm
  <2>2. \A n \in Ms : mpc[n] \in Waking \cup {"recheck"} => mpc'[n] = mpc[n]
    BY <1>3, <2>0, <2>10, StartmForm
  <2>3. \A n \in Ms : \A S \in SUBSET Ps : Looks(n, S) => Looks(n, S)'
    BY <1>3, <2>0, <2>10, StartmForm, <2>1
  <2>4. \A n \in Ms : Promised(n)' = Promised(n)
    BY <1>3, <2>0, <2>10, StartmForm
  <2>5. QED  BY <1>00, <2>1, <2>2, <2>3, <2>4, StillLooks
<1>4. ASSUME NEW t \in Threads, StartmFails(t)  PROVE SomebodyLooks'
  <2>1. pidle' = {}
    BY <1>4 DEF StartmFails
  <2>2. QED  BY <2>1 DEF SomebodyLooks
<1>5. ASSUME NEW t \in Threads, StartmUndo(t)  PROVE SomebodyLooks'
  <2>1. CASE ~Work /\ UNCHANGED <<runq, runqsize>>
    <3>1. runqsize' = 0 /\ \A q \in Ps : runq'[q] = 0
      BY <2>1 DEF Work, LocalWork
    <3>2. Helped(Ps)'
      BY <1>00, <3>1, WantedNothing
    <3>3. QED  BY <3>2 DEF SomebodyLooks
  <2>2. CASE Work
    <3>1. pidle' = {} \/ overlooked'
      BY <1>5, <2>2 DEF StartmUndo
    <3>2. QED  BY <3>1 DEF SomebodyLooks
  <2>3. QED  BY <1>5, <2>1, <2>2 DEF StartmUndo
<1>6. ASSUME NEW t \in Threads, StartmWake(t)  PROVE SomebodyLooks'
  <2>1. /\ start[t].m \in Ms /\ start[t].m # t /\ mpc[t] = "startm2" /\ start[t].p \in Ps
        /\ mpc' = [mpc EXCEPT ![t] = ret[t], ![start[t].m] = "parked"]
        /\ nextp' = [nextp EXCEPT ![start[t].m] = start[t].p]
        /\ start' = [start EXCEPT ![t] = NoStart] /\ ret' = [ret EXCEPT ![t] = Nil]
    BY <1>6, StartmWakes
  <2>2. UNCHANGED <<p, hand, pidle, midle, looked, glist>>
    BY <1>6 DEF StartmWake
  <2>3. mpc[start[t].m] \in {"none", "parked"}
    BY <2>1 DEF SchedInv, IdleFits
  <2>30. t \in Ms => ret[t] \in {"run", "inject3", "syscall"}
    BY <2>1 DEF SchedInv, RetFits
  <2>31. t = Sysmon => ret[t] = "sysmon"
    BY <2>1 DEF SchedInv, RetFits
  <2>4. UNCHANGED <<runq, runqsize, nmspinning, overlooked>>
    BY <1>6 DEF StartmWake
  <2>5. CASE start[t].spinning
    <3>1. nmspinning' > 0
      BY <2>4, <2>5, SpinnersPositive
    <3>2. QED  BY <3>1 DEF SomebodyLooks
  <2>6. CASE ~start[t].spinning
    <3>0. spinning' = spinning /\ start[t].m \notin spinning
      BY <1>6, <2>6, StartmWakes
    <3>1. PICK m \in Ms : m = start[t].m
      BY <2>1
    <3>2. /\ mpc'[m] = "parked" /\ m # t /\ mpc'[t] = ret[t] /\ nextp'[m] = start[t].p /\ nextp[m] = Nil /\ nextp'[m] # Nil
          /\ \A n \in Ms : n # t /\ n # m => UNCHANGED <<mpc[n], nextp[n], start[n], ret[n]>>
      BY <1>6, <2>1, <3>1, StartmWakes
    <3>3. mpc[m] \in {"none", "parked"}
      BY <2>3, <3>1
    <3>4. ASSUME NEW S \in SUBSET Ps, Helped(S)  PROVE Helped(S)'
      <4>1. Wanted(S)' = Wanted(S)
        BY <2>4, WantedStays
      <4>2. ~Looks(m, S) /\ Promised(m) = 0 /\ Promised(m)' = 0
        BY <3>2, <3>3
      <4>3. \A n \in Ms : n # t /\ n # m => (Looks(n, S)' <=> Looks(n, S)) /\ Promised(n)' = Promised(n)
        BY <2>2, <2>4, <3>0, <3>2
      <4>4. \A n \in Ms : n # t /\ n # m => Help(n, S)' = Help(n, S)
        BY <4>3 DEF Help
      <4>5. \A n \in Ms : Promised(n) \in Nat
        BY <1>00, HelpFits
      <4>6. CASE t \in Ms /\ ret[t] = "inject3" /\ Looks(t, S)
        <5>1. Promised(t)' = Promised(t)
          BY <2>1, <2>2, <3>2, <4>6
        <5>2. Counts(start[t].p, S)
          BY <2>1, <4>6
        <5>3. Looks(m, S)'
          BY <2>4, <3>0, <3>1, <3>2, <5>2
        <5>4. Help(m, S) = 0 /\ Help(m, S)' = 1 /\ Help(t, S) = Promised(t) + 1
          BY <4>2, <4>6, <5>3 DEF Help
        <5>5. Help(t, S)' \in {Promised(t), Promised(t) + 1}
          BY <4>5, <4>6, <5>1 DEF Help
        <5>6. Help(m, S) + Help(t, S) <= Help(m, S)' + Help(t, S)'
          BY <4>5, <4>6, <5>4, <5>5
        <5>7. \A n \in Ms : Help(n, S) \in Nat
          BY <1>00, HelpFits
        <5> HIDE <1>0, ThreadsFit, NoStartFits
        <5>8. \A n \in Ms : n # m /\ n # t => Help(n, S) <= Help(n, S)'
          BY <4>4, <5>7
        <5>9. QED  BY <1>00, <3>2, <3>4, <4>1, <4>6, <5>6, <5>8, HelpedPasses
      <4>7. CASE ~(t \in Ms /\ ret[t] = "inject3" /\ Looks(t, S))
        <5>1. t \in Ms => ~Looks(t, S)
          BY <2>1, <4>7
        <5>2. t \in Ms => Promised(t)' = Promised(t)
          BY <2>1, <2>2, <2>30, <3>2
        <5>3. \A n \in Ms : Looks(n, S) => Looks(n, S)'
          BY <4>2, <4>3, <5>1, SMTT(20)
        <5>4. \A n \in Ms : Promised(n)' = Promised(n)
          BY <4>2, <4>3, <5>2
        <5>5. \A n \in Ms : Help(n, S) <= Help(n, S)'
          BY <1>00, <4>5, <5>3, <5>4, HelpGrows
        <5>6. Wanted(S) \in Nat /\ Help(m, S) \in Nat /\ Help(m, S)' \in Nat
          BY <1>00, HelpFits, HelpNext
        <5>7. Wanted(S)' + Help(m, S) <= Wanted(S) + Help(m, S)'
          BY <4>1, <5>5, <5>6
        <5> HIDE <1>0, ThreadsFit, NoStartFits
        <5>8. QED  BY <1>00, <3>4, <5>5, <5>7, HelpedTakes
      <4>8. QED  BY <4>6, <4>7
    <3>5. \A n \in Ms : mpc[n] \in Waking \cup {"recheck"} => mpc'[n] = mpc[n] /\ n # m /\ n # t
      BY <2>1, <3>2, <3>3
    <3>6. QED  BY <1>00, <2>2, <2>4, <3>4, <3>5, KeepsLooking
  <2>7. QED  BY <2>5, <2>6
<1>7. ASSUME NEW t \in Threads, Handoff(t)  PROVE SomebodyLooks'
  <2>0. UNCHANGED <<p, nextp, spinning, glist, looked, runq, runqsize>> /\ mpc[t] \in {"handoff", "handoff2", "handoff3"}
    BY <1>7, HandoffForm
  <2>1. \A u \in Threads : u # t => mpc'[u] = mpc[u]
    BY <1>7, HandoffOthers
  <2>2. CASE nmspinning' > 0
    BY <2>2 DEF SomebodyLooks
  <2>3. CASE /\ UNCHANGED <<nmspinning, pidle, overlooked>> /\ mpc'[t] \in {"handoff2", "handoff3", "startm"}
             /\ mpc'[t] = "startm" => ret'[t] \in {"syscall", "sysmon"}
             /\ \A u \in Threads : u # t => start'[u] = start[u] /\ ret'[u] = ret[u]
    <3>1. UNCHANGED <<nmspinning, runq, runqsize, looked>> /\ (pidle' # {} /\ ~overlooked' => pidle # {} /\ ~overlooked)
      BY <2>0, <2>1, <2>3
    <3>2. \A n \in Ms : mpc[n] \in Waking \cup {"recheck"} => mpc'[n] = mpc[n]
      BY <2>0, <2>1, <2>3
    <3>3. \A n \in Ms : \A S \in SUBSET Ps : Looks(n, S) => Looks(n, S)'
      BY <2>0, <2>1, <2>3, <3>1
    <3>4. \A n \in Ms : Promised(n)' = Promised(n)
      BY <2>0, <2>1, <2>3
    <3>5. QED  BY <1>00, <3>1, <3>2, <3>3, <3>4, StillLooks
  <2>4. CASE ~Work /\ UNCHANGED <<runq, runqsize>>
    <3>1. runqsize' = 0 /\ \A q \in Ps : runq'[q] = 0
      BY <2>4 DEF Work, LocalWork
    <3>2. Helped(Ps)'
      BY <1>00, <3>1, WantedNothing
    <3>3. QED  BY <3>2 DEF SomebodyLooks
  <2>5. CASE overlooked'
    BY <2>5 DEF SomebodyLooks
  <2>6. CASE runqsize = 0 /\ overlooked' = (overlooked \/ LocalWork)
    <3>1. overlooked' \/ ~LocalWork
      BY <2>6
    <3>2. LocalWork \/ ~Work
      BY <2>6 DEF Work
    <3>3. QED  BY <2>0, <2>4, <2>5, <3>1, <3>2
  <2>7. QED  BY <1>7, <2>2, <2>3, <2>6, HandoffForm DEF Called
<1>8. ASSUME NEW t \in Threads, HandoffSpin(t)  PROVE SomebodyLooks'
  <2>0. UNCHANGED <<p, nextp, spinning, glist, looked, runq, runqsize>> /\ mpc[t] \in {"handoff", "handoff2", "handoff3"}
    BY <1>8, HandoffForm
  <2>1. \A u \in Threads : u # t => mpc'[u] = mpc[u]
    BY <1>8, HandoffOthers
  <2>2. CASE nmspinning' > 0
    BY <2>2 DEF SomebodyLooks
  <2>3. CASE /\ UNCHANGED <<nmspinning, pidle, overlooked>> /\ mpc'[t] \in {"handoff2", "handoff3", "startm"}
             /\ mpc'[t] = "startm" => ret'[t] \in {"syscall", "sysmon"}
             /\ \A u \in Threads : u # t => start'[u] = start[u] /\ ret'[u] = ret[u]
    <3>1. UNCHANGED <<nmspinning, runq, runqsize, looked>> /\ (pidle' # {} /\ ~overlooked' => pidle # {} /\ ~overlooked)
      BY <2>0, <2>1, <2>3
    <3>2. \A n \in Ms : mpc[n] \in Waking \cup {"recheck"} => mpc'[n] = mpc[n]
      BY <2>0, <2>1, <2>3
    <3>3. \A n \in Ms : \A S \in SUBSET Ps : Looks(n, S) => Looks(n, S)'
      BY <2>0, <2>1, <2>3, <3>1
    <3>4. \A n \in Ms : Promised(n)' = Promised(n)
      BY <2>0, <2>1, <2>3
    <3>5. QED  BY <1>00, <3>1, <3>2, <3>3, <3>4, StillLooks
  <2>4. CASE ~Work /\ UNCHANGED <<runq, runqsize>>
    <3>1. runqsize' = 0 /\ \A q \in Ps : runq'[q] = 0
      BY <2>4 DEF Work, LocalWork
    <3>2. Helped(Ps)'
      BY <1>00, <3>1, WantedNothing
    <3>3. QED  BY <3>2 DEF SomebodyLooks
  <2>5. CASE overlooked'
    BY <2>5 DEF SomebodyLooks
  <2>6. CASE runqsize = 0 /\ overlooked' = (overlooked \/ LocalWork)
    <3>1. overlooked' \/ ~LocalWork
      BY <2>6
    <3>2. LocalWork \/ ~Work
      BY <2>6 DEF Work
    <3>3. QED  BY <2>0, <2>4, <2>5, <3>1, <3>2
  <2>7. QED  BY <1>8, <2>2, <2>3, <2>6, HandoffForm DEF Called
<1>9. ASSUME NEW t \in Threads, HandoffIdle(t)  PROVE SomebodyLooks'
  <2>0. UNCHANGED <<p, nextp, spinning, glist, looked, runq, runqsize>> /\ mpc[t] \in {"handoff", "handoff2", "handoff3"}
    BY <1>9, HandoffForm
  <2>1. \A u \in Threads : u # t => mpc'[u] = mpc[u]
    BY <1>9, HandoffOthers
  <2>2. CASE nmspinning' > 0
    BY <2>2 DEF SomebodyLooks
  <2>3. CASE /\ UNCHANGED <<nmspinning, pidle, overlooked>> /\ mpc'[t] \in {"handoff2", "handoff3", "startm"}
             /\ mpc'[t] = "startm" => ret'[t] \in {"syscall", "sysmon"}
             /\ \A u \in Threads : u # t => start'[u] = start[u] /\ ret'[u] = ret[u]
    <3>1. UNCHANGED <<nmspinning, runq, runqsize, looked>> /\ (pidle' # {} /\ ~overlooked' => pidle # {} /\ ~overlooked)
      BY <2>0, <2>1, <2>3
    <3>2. \A n \in Ms : mpc[n] \in Waking \cup {"recheck"} => mpc'[n] = mpc[n]
      BY <2>0, <2>1, <2>3
    <3>3. \A n \in Ms : \A S \in SUBSET Ps : Looks(n, S) => Looks(n, S)'
      BY <2>0, <2>1, <2>3, <3>1
    <3>4. \A n \in Ms : Promised(n)' = Promised(n)
      BY <2>0, <2>1, <2>3
    <3>5. QED  BY <1>00, <3>1, <3>2, <3>3, <3>4, StillLooks
  <2>4. CASE ~Work /\ UNCHANGED <<runq, runqsize>>
    <3>1. runqsize' = 0 /\ \A q \in Ps : runq'[q] = 0
      BY <2>4 DEF Work, LocalWork
    <3>2. Helped(Ps)'
      BY <1>00, <3>1, WantedNothing
    <3>3. QED  BY <3>2 DEF SomebodyLooks
  <2>5. CASE overlooked'
    BY <2>5 DEF SomebodyLooks
  <2>6. CASE runqsize = 0 /\ overlooked' = (overlooked \/ LocalWork)
    <3>1. overlooked' \/ ~LocalWork
      BY <2>6
    <3>2. LocalWork \/ ~Work
      BY <2>6 DEF Work
    <3>3. QED  BY <2>0, <2>4, <2>5, <3>1, <3>2
  <2>7. QED  BY <1>9, <2>2, <2>3, <2>6, HandoffForm DEF Called
<1>10. ASSUME NEW m \in Ms, Unpark(m)  PROVE SomebodyLooks'
  <2>1. UNCHANGED <<nmspinning, runq, runqsize, looked>> /\ (pidle' # {} /\ ~overlooked' => pidle # {} /\ ~overlooked)
    BY <1>10 DEF Unpark
  <2>2. \A n \in Ms : mpc[n] \in Waking \cup {"recheck"} => mpc'[n] = mpc[n]
    BY <1>10 DEF Unpark
  <2>3. \A n \in Ms : \A S \in SUBSET Ps : Looks(n, S) => Looks(n, S)'
    BY <1>10, <2>1 DEF Unpark
  <2>4. \A n \in Ms : Promised(n)' = Promised(n)
    BY <1>10 DEF Unpark
  <2>5. QED  BY <1>00, <2>1, <2>2, <2>3, <2>4, StillLooks
<1>11. ASSUME NEW m \in Ms, Stopm(m)  PROVE SomebodyLooks'
  <2>1. UNCHANGED <<nmspinning, runq, runqsize, looked>> /\ (pidle' # {} /\ ~overlooked' => pidle # {} /\ ~overlooked)
    BY <1>11 DEF Stopm
  <2>2. \A n \in Ms : mpc[n] \in Waking \cup {"recheck"} => mpc'[n] = mpc[n]
    BY <1>11 DEF Stopm
  <2>3. \A n \in Ms : \A S \in SUBSET Ps : Looks(n, S) => Looks(n, S)'
    BY <1>11, <2>1 DEF Stopm
  <2>4. \A n \in Ms : Promised(n)' = Promised(n)
    BY <1>11 DEF Stopm
  <2>5. QED  BY <1>00, <2>1, <2>2, <2>3, <2>4, StillLooks
<1>12. ASSUME NEW m \in Ms, Resetspinning(m)  PROVE SomebodyLooks'
  <2>1. mpc'[m] = "wakep"
    BY <1>12 DEF Resetspinning, StopSpinning
  <2>2. QED  BY <2>1 DEF SomebodyLooks
<1>13. ASSUME NEW m \in Ms, Exit0(m)  PROVE SomebodyLooks'
  <2>0. CASE pidle = {}
    BY <1>13, <2>0 DEF Exit0, SomebodyLooks
  <2>6. CASE pidle # {}
    <3>0. mpc[m] = "exit0" /\ Go(m, "run") /\ (\E q : p' = [p EXCEPT ![m] = q]) /\ UNCHANGED <<nextp, spinning, nmspinning, runq, runqsize, start, looked, glist, ret, overlooked>>
      BY <1>13, <2>6 DEF Exit0, GetP
    <3>1. UNCHANGED <<nmspinning, runq, runqsize, looked>> /\ (pidle' # {} /\ ~overlooked' => pidle # {} /\ ~overlooked)
      BY <3>0, <2>6
    <3>2. \A n \in Ms : mpc[n] \in Waking \cup {"recheck"} => mpc'[n] = mpc[n]
      BY <3>0, <2>6
    <3>3. \A n \in Ms : \A S \in SUBSET Ps : Looks(n, S) => Looks(n, S)'
      BY <3>0, <2>6, <3>1
    <3>4. \A n \in Ms : Promised(n)' = Promised(n)
      BY <3>0, <2>6
    <3>5. QED  BY <1>00, <3>1, <3>2, <3>3, <3>4, StillLooks
  <2>7. QED  BY <2>0, <2>6
<1>14. ASSUME NEW m \in Ms, ScheduleGlobal(m)  PROVE SomebodyLooks'
  <2>100. CASE m \in spinning
    <3>1. nmspinning' > 0
      BY <1>14, <2>100, SpinnersPositive DEF ScheduleGlobal, GotG
    <3>2. QED  BY <3>1 DEF SomebodyLooks
  <2>0. p[m] \in Ps /\ mpc[m] = "schedule" /\ globrunqget(p[m], 1) /\ mpc'[m] \in {"run", "found"}
        /\ (\A n \in Ms : n # m => mpc'[n] = mpc[n]) /\ UNCHANGED <<p, nextp, spinning, nmspinning, pidle, start, ret, looked, glist, overlooked>>
    BY <1>14, PsFit DEF ScheduleGlobal, GotG
  <2>1. PICK x \in 1..RunqLen : x = 1 /\ runqsize' = runqsize - x /\ runq' = [runq EXCEPT ![p[m]] = @ + x - 1]
    BY <2>0, GlobrunqgetTakes
  <2>2. runqsize' = runqsize - 1 /\ runq' = runq
    BY <2>0, <2>1
  <2>3. CASE m \notin spinning
    BY <1>00, <2>0, <2>2, <2>3, TakesOne
  <2>4. QED  BY <2>100, <2>3
<1>15. ASSUME NEW m \in Ms, RunqGet(m)  PROVE SomebodyLooks'
  <2>100. CASE m \in spinning
    <3>1. nmspinning' > 0
      BY <1>15, <2>100, SpinnersPositive DEF RunqGet
    <3>2. QED  BY <3>1 DEF SomebodyLooks
  <2>0. p[m] \in Ps /\ mpc[m] \in {"schedule", "top"}
        /\ UNCHANGED <<p, nextp, spinning, nmspinning, pidle, start, ret, looked, glist, overlooked>>
    BY <1>15, RunqGetForm
  <2>1. ASSUME m \notin spinning, GotG(m), runq[p[m]] > 0, runq' = [runq EXCEPT ![p[m]] = @ - 1], runqsize' = runqsize  PROVE SomebodyLooks'
    <3>1. mpc'[m] \in {"run", "found"} /\ \A n \in Ms : n # m => mpc'[n] = mpc[n]
      BY <2>1 DEF GotG
    <3>2. runq'[p[m]] = runq[p[m]] - 1 /\ \A q \in Ps : q # p[m] => runq'[q] = runq[q]
      BY <2>0, <2>1
    <3>3. QED  BY <1>00, <2>0, <2>1, <3>1, <3>2, TakesOne
  <2>2. ASSUME m \notin spinning, GotG(m), runq[p[m]] = 0, globrunqget(p[m], 0)  PROVE SomebodyLooks'
    <3>1. mpc'[m] \in {"run", "found"} /\ \A n \in Ms : n # m => mpc'[n] = mpc[n]
      BY <2>2 DEF GotG
    <3>2. QED  BY <1>00, <2>0, <2>2, <3>1, GlobalTakesOne
  <2>3. CASE Go(m, "spin") /\ UNCHANGED <<runq, runqsize>>
    <3>1. UNCHANGED <<nmspinning, runq, runqsize, looked>> /\ (pidle' # {} /\ ~overlooked' => pidle # {} /\ ~overlooked)
      BY <2>0, <2>3
    <3>2. \A n \in Ms : mpc[n] \in Waking \cup {"recheck"} => mpc'[n] = mpc[n]
      BY <2>0, <2>3
    <3>3. \A n \in Ms : \A S \in SUBSET Ps : Looks(n, S) => Looks(n, S)'
      BY <2>0, <2>3, <3>1
    <3>4. \A n \in Ms : Promised(n)' = Promised(n)
      BY <2>0, <2>3
    <3>5. QED  BY <1>00, <3>1, <3>2, <3>3, <3>4, StillLooks
  <2>4. QED  BY <1>15, <2>100, <2>1, <2>2, <2>3, RunqGetForm
<1>16. ASSUME NEW m \in Ms, Spin(m)  PROVE SomebodyLooks'
  <2>100. CASE m \in spinning
    <3>1. nmspinning' > 0
      BY <1>16, <2>100, SpinnersPositive DEF Spin
    <3>2. QED  BY <3>1 DEF SomebodyLooks
  <2>101. CASE m \notin spinning /\ MaySpin
    <3>1. mpc'[m] = "spin2"
      BY <1>16, <2>101 DEF Spin
    <3>2. QED  BY <3>1 DEF SomebodyLooks
  <2>102. CASE m \notin spinning /\ ~MaySpin
    <3>0. mpc[m] = "spin" /\ Go(m, "release") /\ UNCHANGED <<p, nextp, spinning, nmspinning, pidle, runq, runqsize, start, ret, looked, glist, overlooked>>
      BY <1>16, <2>102 DEF Spin
    <3>1. UNCHANGED <<nmspinning, runq, runqsize, looked>> /\ (pidle' # {} /\ ~overlooked' => pidle # {} /\ ~overlooked)
      BY <3>0
    <3>2. \A n \in Ms : mpc[n] \in Waking \cup {"recheck"} => mpc'[n] = mpc[n]
      BY <3>0
    <3>3. \A n \in Ms : \A S \in SUBSET Ps : Looks(n, S) => Looks(n, S)'
      BY <3>0, <3>1
    <3>4. \A n \in Ms : Promised(n)' = Promised(n)
      BY <3>0
    <3>5. QED  BY <1>00, <3>1, <3>2, <3>3, <3>4, StillLooks
  <2>103. QED  BY <2>100, <2>101, <2>102
<1>17. ASSUME NEW m \in Ms, StartSpinning(m, "spin2", "steal")  PROVE SomebodyLooks'
  <2>1. nmspinning' > 0
    BY <1>17, <1>01 DEF StartSpinning
  <2>2. QED  BY <2>1 DEF SomebodyLooks
<1>18. ASSUME NEW m \in Ms, Steal(m)  PROVE SomebodyLooks'
  <2>100. CASE m \in spinning
    <3>1. nmspinning' > 0
      BY <1>18, <2>100, SpinnersPositive DEF Steal, runqsteal, GotG
    <3>2. QED  BY <3>1 DEF SomebodyLooks
  <2>101. m \in spinning
    BY <1>18 DEF SchedInv, SpinFits, Steal, runqsteal, GotG
  <2>102. QED  BY <2>100, <2>101
<1>19. ASSUME NEW m \in Ms, StealNothing(m)  PROVE SomebodyLooks'
  <2>100. CASE m \in spinning
    <3>1. nmspinning' > 0
      BY <1>19, <2>100, SpinnersPositive DEF StealNothing, Passed
    <3>2. QED  BY <3>1 DEF SomebodyLooks
  <2>101. m \in spinning
    BY <1>19 DEF SchedInv, SpinFits, StealNothing, Passed
  <2>102. QED  BY <2>100, <2>101
<1>20. ASSUME NEW m \in Ms, ReturnP(m)  PROVE SomebodyLooks'
  <2>100. CASE m \in spinning
    <3>1. nmspinning' > 0
      BY <1>20, <2>100, SpinnersPositive DEF ReturnP
    <3>2. QED  BY <3>1 DEF SomebodyLooks
  <2>0. p[m] \in Ps /\ mpc[m] = "release" /\ runq[p[m]] = 0 /\ UNCHANGED <<nextp, spinning, nmspinning, start, looked, glist>>
    BY <1>20, ReturnPForm
  <2>2. ASSUME m \notin spinning, GotG(m), globrunqget(p[m], 0), UNCHANGED <<pidle, p, ret, overlooked>>  PROVE SomebodyLooks'
    <3>1. mpc'[m] \in {"run", "found"} /\ \A n \in Ms : n # m => mpc'[n] = mpc[n]
      BY <2>2 DEF GotG
    <3>2. QED  BY <1>00, <2>0, <2>2, <3>1, GlobalTakesOne
  <2>3. CASE ~Work /\ UNCHANGED <<runq, runqsize>>
    <3>1. runqsize' = 0 /\ \A q \in Ps : runq'[q] = 0
      BY <2>3 DEF Work, LocalWork
    <3>2. Helped(Ps)'
      BY <1>00, <3>1, WantedNothing
    <3>3. QED  BY <3>2 DEF SomebodyLooks
  <2>4. ASSUME m \notin spinning, Work, ~(runqsize > 0), overlooked' = (overlooked \/ (m \notin spinning /\ LocalWork))
        PROVE  SomebodyLooks'
    <3>1. overlooked'
      BY <2>4 DEF Work
    <3>2. QED  BY <3>1 DEF SomebodyLooks
  <2>5. QED  BY <1>20, <2>100, <2>2, <2>3, <2>4, ReturnPForm
<1>21. ASSUME NEW m \in Ms, Unspin(m)  PROVE SomebodyLooks'
  <2>1. mpc[m] = "unspin" /\ mpc'[m] = "recheck" /\ looked[m] = {} /\ UNCHANGED <<looked, runqsize, runq>> /\ overlooked' = (runqsize > 0)
    BY <1>21 DEF Unspin, StopSpinning, SchedInv, ListsFit
  <2>2. CASE runqsize > 0
    BY <2>1, <2>2 DEF SomebodyLooks
  <2>3. CASE ~(runqsize > 0)
    <3>1. runqsize' = 0
      BY <2>1, <2>3
    <3>2. PICK S \in SUBSET Ps : S = {}
      OBVIOUS
    <3>3. Helped(S)' /\ looked'[m] = S
      BY <1>00, <2>1, <3>1, <3>2, WantedNothing
    <3>4. Helped(looked[m])'
      BY <3>3 DEF Helped, Help
    <3>5. QED  BY <2>1, <3>4 DEF SomebodyLooks
  <2>4. QED  BY <2>2, <2>3
<1>22. ASSUME NEW m \in Ms, Recheck(m)  PROVE SomebodyLooks'
  <2>0. /\ mpc[m] = "recheck" /\ looked[m] \in SUBSET Ps
        /\ UNCHANGED <<p, nextp, spinning, nmspinning, pidle, runq, runqsize, start, ret, glist, overlooked>>
    BY <1>22 DEF Recheck
  <2>1. PICK q \in Ps \ looked[m] :
           IF q \notin pidle /\ runq[q] > 0
           THEN Go(m, "recheck2") /\ looked' = [looked EXCEPT ![m] = {}]
           ELSE Passed(m, q, Nil, "netpoll")
    BY <1>22 DEF Recheck
  <2>2. CASE q \notin pidle /\ runq[q] > 0
    <3>1. mpc'[m] = "recheck2"
      BY <2>1, <2>2
    <3>2. QED  BY <3>1 DEF SomebodyLooks
  <2>3. CASE ~(q \notin pidle /\ runq[q] > 0)
    <3>1. runq[q] = 0
      BY <2>3 DEF SchedInv, EmptyFits
    <3>2. Passed(m, q, Nil, "netpoll")
      BY <2>1, <2>3
    <3>3. \A n \in Ms : n # m => mpc'[n] = mpc[n] /\ looked'[n] = looked[n]
      BY <3>2 DEF Passed
    <3>30. mpc'[m] \in {"netpoll", "recheck"}
      BY <2>0, <3>2 DEF Passed
    <3>4. ASSUME NEW S \in SUBSET Ps, NEW T \in SUBSET Ps, T = S \/ T = S \cup {q}, Helped(S)  PROVE Helped(T)'
      <4> HIDE <1>0, ThreadsFit, NoStartFits
      <4>1. QED  BY <1>00, <2>0, <3>1, <3>3, <3>30, <3>4, PassesOne
    <3>5. CASE \E n \in Ms : n # m /\ mpc[n] = "recheck" /\ Helped(looked[n])
      <4>1. PICK n \in Ms : n # m /\ mpc[n] = "recheck" /\ Helped(looked[n])
        BY <3>5
      <4>2. PICK S \in SUBSET Ps : S = looked[n]
        OBVIOUS
      <4>3. Helped(S)' /\ looked'[n] = S /\ mpc'[n] = "recheck"
        BY <3>3, <3>4, <4>1, <4>2
      <4>4. Helped(looked[n])'
        BY <4>3 DEF Helped, Help
      <4>5. QED  BY <4>3, <4>4 DEF SomebodyLooks
    <3>6. CASE Helped(looked[m])
      <4>0. looked[m] \cup {q} \in SUBSET Ps
        BY <2>0
      <4>1. PICK T \in SUBSET Ps : T = looked[m] \cup {q}
        BY <4>0
      <4>2. Helped(T)'
        BY <2>0, <3>4, <3>6, <4>1
      <4>3. CASE T = Ps
        BY <4>2, <4>3 DEF SomebodyLooks
      <4>4. CASE T # Ps
        <5>1. looked[m] \cup {q, Nil} # Ps \cup {Nil}
          BY <2>0, <4>1, <4>4
        <5>2. looked'[m] = T /\ mpc'[m] = "recheck"
          BY <2>0, <3>2, <4>1, <5>1 DEF Passed
        <5>3. Helped(looked[m])'
          BY <4>2, <5>2 DEF Helped, Help
        <5>4. QED  BY <5>2, <5>3 DEF SomebodyLooks
      <4>5. QED  BY <4>3, <4>4
    <3>7. CASE Helped(Ps)
      <4>1. Helped(Ps)'
        BY <3>4, <3>7
      <4>2. QED  BY <4>1 DEF SomebodyLooks
    <3>8. CASE \E n \in Ms : mpc[n] \in Waking
      <4>1. \E n \in Ms : mpc'[n] \in Waking
        BY <2>0, <3>3, <3>8
      <4>2. QED  BY <4>1 DEF SomebodyLooks
    <3>9. CASE nmspinning > 0 \/ pidle = {} \/ overlooked
      BY <2>0, <3>9 DEF SomebodyLooks
    <3>10. QED  BY <1>00, <3>5, <3>6, <3>7, <3>8, <3>9 DEF SomebodyLooks
  <2>4. QED  BY <2>2, <2>3
<1>23. ASSUME NEW m \in Ms, RecheckP(m)  PROVE SomebodyLooks'
  <2>1. CASE pidle = {}
    BY <1>23, <2>1 DEF RecheckP, SomebodyLooks
  <2>2. CASE pidle # {}
    <3>1. mpc'[m] = "respin"
      BY <1>23, <2>2 DEF RecheckP, GetP
    <3>2. QED  BY <3>1 DEF SomebodyLooks
  <2>3. QED  BY <2>1, <2>2
<1>24. ASSUME NEW m \in Ms, StartSpinning(m, "respin", "top")  PROVE SomebodyLooks'
  <2>1. nmspinning' > 0
    BY <1>24, <1>01 DEF StartSpinning
  <2>2. QED  BY <2>1 DEF SomebodyLooks
<1>25. ASSUME NEW m \in Ms, Netpoll(m)  PROVE SomebodyLooks'
  <2>1. UNCHANGED <<nmspinning, runq, runqsize, looked>> /\ (pidle' # {} /\ ~overlooked' => pidle # {} /\ ~overlooked)
    BY <1>25 DEF Netpoll
  <2>2. \A n \in Ms : mpc[n] \in Waking \cup {"recheck"} => mpc'[n] = mpc[n]
    BY <1>25 DEF Netpoll
  <2>3. \A n \in Ms : \A S \in SUBSET Ps : Looks(n, S) => Looks(n, S)'
    BY <1>25, <2>1 DEF Netpoll
  <2>4. \A n \in Ms : Promised(n)' = Promised(n)
    BY <1>25 DEF Netpoll
  <2>5. QED  BY <1>00, <2>1, <2>2, <2>3, <2>4, StillLooks
<1>26. ASSUME NEW m \in Ms, PolledP(m)  PROVE SomebodyLooks'
  <2>6. /\ mpc[m] = "polled" /\ UNCHANGED <<nextp, spinning, nmspinning, runq, runqsize, start, looked, overlooked>> /\ ret[m] \in {"respin", "top"}
    BY <1>26, PolledPForm
  <2>7. CASE pidle = {}
    <3>1. pidle' = {}
      BY <1>26, <2>7, PolledPForm
    <3>2. QED  BY <3>1 DEF SomebodyLooks
  <2>8. CASE pidle # {}
    <3>0. /\ mpc'[m] \in {"respin", "top", "run", "inject"} /\ \E q : p' = [p EXCEPT ![m] = q]
          /\ \A n \in Ms : n # m => mpc'[n] = mpc[n] /\ ret'[n] = ret[n] /\ glist'[n] = glist[n]
      BY <1>26, <2>6, <2>8, PolledPForm
    <3>1. UNCHANGED <<nmspinning, runq, runqsize, looked>> /\ (pidle' # {} /\ ~overlooked' => pidle # {} /\ ~overlooked)
      BY <2>6, <2>8, <3>0
    <3>2. \A n \in Ms : mpc[n] \in Waking \cup {"recheck"} => mpc'[n] = mpc[n]
      BY <2>6, <2>8, <3>0
    <3>3. \A n \in Ms : \A S \in SUBSET Ps : Looks(n, S) => Looks(n, S)'
      BY <2>6, <2>8, <3>0, <3>1
    <3>4. \A n \in Ms : Promised(n)' = Promised(n)
      <4>1. Promised(m) = 0 /\ Promised(m)' = 0
        BY <2>6, <3>0
      <4>2. \A n \in Ms : n # m => Promised(n)' = Promised(n)
        BY <3>0
      <4>3. QED  BY <4>1, <4>2
    <3>5. QED  BY <1>00, <3>1, <3>2, <3>3, <3>4, StillLooks
  <2>9. QED  BY <2>7, <2>8
<1>27. ASSUME NEW m \in Ms, Inject(m)  PROVE SomebodyLooks'
  <2>0. \E k : /\ glist' = [glist EXCEPT ![m] = k] /\ mpc[m] = "inject" /\ Go(m, "inject2")
              /\ UNCHANGED <<p, nextp, spinning, nmspinning, pidle, runq, runqsize, start, ret, looked, overlooked>>
    BY <1>27, InjectForm
  <2>1. UNCHANGED <<nmspinning, runq, runqsize, looked>> /\ (pidle' # {} /\ ~overlooked' => pidle # {} /\ ~overlooked)
    BY <2>0
  <2>2. \A n \in Ms : mpc[n] \in Waking \cup {"recheck"} => mpc'[n] = mpc[n]
    BY <2>0
  <2>3. \A n \in Ms : \A S \in SUBSET Ps : Looks(n, S) => Looks(n, S)'
    BY <2>0, <2>1
  <2>4. \A n \in Ms : Promised(n)' = Promised(n)
    BY <2>0
  <2>5. QED  BY <1>00, <2>1, <2>2, <2>3, <2>4, StillLooks
<1>28. ASSUME NEW m \in Ms, InjectGlobal(m)  PROVE SomebodyLooks'
  <2>0. /\ mpc[m] = "inject2" /\ Go(m, "inject3") /\ runqsize' = runqsize + glist[m].n
        /\ UNCHANGED <<p, nextp, spinning, nmspinning, pidle, runq, start, ret, looked, glist, overlooked>>
    BY <1>28 DEF InjectGlobal
  <2>5. ASSUME NEW S \in SUBSET Ps, Helped(S)  PROVE Helped(S)'
    <3>1. \A n \in Ms : n # m => Help(n, S)' = Help(n, S)
      <4>1. \A n \in Ms : n # m => (Looks(n, S)' <=> Looks(n, S)) /\ Promised(n)' = Promised(n)
        BY <2>0
      <4>2. QED  BY <4>1 DEF Help
    <3>2. Promised(m) = 0 /\ Promised(m)' = glist[m].n /\ ~Looks(m, S) /\ ~Looks(m, S)'
      BY <2>0
    <3>3. Help(m, S) = 0 /\ Help(m, S)' = glist[m].n
      BY <3>2 DEF Help
    <3>4. Wanted(S) \in Nat /\ Wanted(S)' \in Nat
      BY <1>00, HelpFits, HelpNext
    <3>5. Wanted(S)' = Wanted(S) + glist[m].n
      <4>1. Cardinality(Places(runq, S)) \in Nat
        BY SchedAssumption, FS_Subset, PlacesFinite
      <4>2. QED  BY <2>0, <4>1 DEF Wanted, Places
    <3>6. Wanted(S)' + Help(m, S) <= Wanted(S) + Help(m, S)'
      BY <3>3, <3>4, <3>5
    <3>7. \A n \in Ms : Help(n, S) \in Nat
      BY <1>00, HelpFits
    <3>8. \A n \in Ms : n # m => Help(n, S) <= Help(n, S)'
      BY <3>1, <3>7
    <3> HIDE <1>0, ThreadsFit, NoStartFits
    <3>9. QED  BY <1>00, <2>5, <3>6, <3>8, HelpedTakes
  <2>6. \A n \in Ms : mpc[n] \in Waking \cup {"recheck"} => mpc'[n] = mpc[n]
    BY <2>0
  <2>7. QED  BY <1>00, <2>0, <2>5, <2>6, KeepsLooking
<1>29. ASSUME NEW m \in Ms, StartIdle(m)  PROVE SomebodyLooks'
  <2>0. /\ mpc[m] = "inject3" /\ glist[m].n > 0 /\ Go(m, "startm") /\ ret' = [ret EXCEPT ![m] = "inject3"]
        /\ glist' = [glist EXCEPT ![m].n = @ - 1] /\ (\A n \in Threads : n # m => start'[n] = start[n])
        /\ UNCHANGED <<p, nextp, spinning, nmspinning, pidle, runq, runqsize, looked, overlooked>>
    BY <1>29, StartIdleForm DEF Called
  <2>5. ASSUME NEW S \in SUBSET Ps, Helped(S)  PROVE Helped(S)'
    <3>1. \A n \in Ms : n # m => Help(n, S)' = Help(n, S)
      <4>1. \A n \in Ms : n # m => (Looks(n, S)' <=> Looks(n, S)) /\ Promised(n)' = Promised(n)
        BY <2>0
      <4>2. QED  BY <4>1 DEF Help
    <3>2. Promised(m) = glist[m].n /\ Promised(m)' = glist[m].n - 1 /\ ~Looks(m, S) /\ Looks(m, S)'
      BY <2>0
    <3>20. glist[m].n \in Nat
      BY NumbersFit
    <3>3. Help(m, S) = glist[m].n /\ Help(m, S)' = glist[m].n
      BY <3>2, <3>20 DEF Help
    <3>4. Wanted(S) \in Nat /\ Wanted(S)' = Wanted(S)
      BY <1>00, <2>0, HelpFits, WantedStays
    <3>6. Wanted(S)' + Help(m, S) <= Wanted(S) + Help(m, S)'
      BY <3>3, <3>4
    <3>7. \A n \in Ms : Help(n, S) \in Nat
      BY <1>00, HelpFits
    <3>8. \A n \in Ms : n # m => Help(n, S) <= Help(n, S)'
      BY <3>1, <3>7
    <3> HIDE <1>0, ThreadsFit, NoStartFits
    <3>9. QED  BY <1>00, <2>5, <3>6, <3>8, HelpedTakes
  <2>6. \A n \in Ms : mpc[n] \in Waking \cup {"recheck"} => mpc'[n] = mpc[n]
    BY <2>0
  <2>7. QED  BY <1>00, <2>0, <2>5, <2>6, KeepsLooking
<1>30. ASSUME NEW m \in Ms, InjectLocal(m)  PROVE SomebodyLooks'
  <2>0. mpc[m] = "inject3" /\ glist' = [glist EXCEPT ![m] = NoGs] /\ UNCHANGED <<p, nextp, spinning, nmspinning, pidle, start, looked>>
    BY <1>30 DEF InjectLocal
  <2>6. CASE pidle = {} \/ overlooked'
    BY <2>0, <2>6 DEF SomebodyLooks
  <2>7. CASE pidle # {} /\ ~overlooked'
    <3>0. glist[m].n = 0 /\ glist[m].rest \in Nat
      BY <1>30, <2>7 DEF InjectLocal
    <3>10. CASE p[m] = Nil
      <4>0. mpc'[m] = "stopm" /\ (\A n \in Ms : n # m => mpc'[n] = mpc[n] /\ ret'[n] = ret[n]) /\ UNCHANGED <<runq, runqsize, overlooked>>
        BY <1>30, <3>10 DEF InjectLocal
      <4>1. IdleFits
        BY <1>0
      <4> HIDE <1>0, ThreadsFit, NoStartFits
      <4>2. QED  BY <1>00, <2>0, <2>7, <3>0, <4>0, <4>1, InjectorGone
    <3>11. CASE p[m] # Nil
      <4>1. /\ mpc'[m] = "run" /\ (\A n \in Ms : n # m => mpc'[n] = mpc[n] /\ ret'[n] = ret[n])
            /\ overlooked' = (overlooked \/ (glist[m].rest > 0 /\ pidle # {}))
        BY <1>30, <3>11 DEF InjectLocal
      <4>20. ~(overlooked \/ (glist[m].rest > 0 /\ pidle # {}))
        BY <2>7, <4>1
      <4>2. glist[m].rest = 0 /\ ~overlooked
        BY <2>7, <3>0, <4>20
      <4> DEFINE k == Min({0, RunqLen - runq[p[m]]})
      <4>3. p[m] \in Ps /\ runq[p[m]] \in Nat /\ RunqLen - runq[p[m]] \in Nat
        BY <3>11, NumbersFit
      <4>4. k = 0
        <5>1. k \in Nat /\ k <= 0
          BY <4>3, LeastOfTwo
        <5>2. QED  BY <5>1
      <4>5. runq' = [runq EXCEPT ![p[m]] = @ + k] /\ runqsize' = runqsize + 0 - k
        BY <1>30, <3>11, <4>2 DEF InjectLocal
      <4> HIDE DEF k
      <4>6. UNCHANGED <<runq, runqsize>>
        BY <4>3, <4>4, <4>5
      <4>7. IdleFits
        BY <1>0
      <4>8. ~overlooked' => ~overlooked
        BY <4>2
      <4> HIDE <1>0, ThreadsFit, NoStartFits
      <4>9. QED  BY <1>00, <2>0, <2>7, <3>0, <4>1, <4>6, <4>7, <4>8, InjectorGone
    <3>12. QED  BY <3>10, <3>11
  <2>8. QED  BY <1>30, <2>6, <2>7
<1>31. ASSUME NEW m \in Ms, Goready(m)  PROVE SomebodyLooks'
  <2>1. mpc'[m] = "wakep"
    BY <1>31 DEF Goready, CallWakep
  <2>2. QED  BY <2>1 DEF SomebodyLooks
<1>32. ASSUME NEW m \in Ms, Park(m)  PROVE SomebodyLooks'
  <2>1. UNCHANGED <<nmspinning, runq, runqsize, looked>> /\ (pidle' # {} /\ ~overlooked' => pidle # {} /\ ~overlooked)
    BY <1>32 DEF Park
  <2>2. \A n \in Ms : mpc[n] \in Waking \cup {"recheck"} => mpc'[n] = mpc[n]
    BY <1>32 DEF Park
  <2>3. \A n \in Ms : \A S \in SUBSET Ps : Looks(n, S) => Looks(n, S)'
    BY <1>32, <2>1 DEF Park
  <2>4. \A n \in Ms : Promised(n)' = Promised(n)
    BY <1>32 DEF Park
  <2>5. QED  BY <1>00, <2>1, <2>2, <2>3, <2>4, StillLooks
<1>33. ASSUME NEW m \in Ms, Gosched(m)  PROVE SomebodyLooks'
  <2>1. pidle' = {} \/ overlooked'
    BY <1>33 DEF Gosched
  <2>2. QED  BY <2>1 DEF SomebodyLooks
<1>34. ASSUME NEW m \in Ms, Entersyscall(m)  PROVE SomebodyLooks'
  <2>1. UNCHANGED <<nmspinning, runq, runqsize, looked>> /\ (pidle' # {} /\ ~overlooked' => pidle # {} /\ ~overlooked)
    BY <1>34 DEF Entersyscall
  <2>2. \A n \in Ms : mpc[n] \in Waking \cup {"recheck"} => mpc'[n] = mpc[n]
    BY <1>34 DEF Entersyscall
  <2>3. \A n \in Ms : \A S \in SUBSET Ps : Looks(n, S) => Looks(n, S)'
    BY <1>34, <2>1 DEF Entersyscall
  <2>4. \A n \in Ms : Promised(n)' = Promised(n)
    BY <1>34 DEF Entersyscall
  <2>5. QED  BY <1>00, <2>1, <2>2, <2>3, <2>4, StillLooks
<1>35. ASSUME NEW m \in Ms, Entersyscallblock(m)  PROVE SomebodyLooks'
  <2>1. UNCHANGED <<nmspinning, runq, runqsize, looked>> /\ (pidle' # {} /\ ~overlooked' => pidle # {} /\ ~overlooked)
    BY <1>35 DEF Entersyscallblock
  <2>2. \A n \in Ms : mpc[n] \in Waking \cup {"recheck"} => mpc'[n] = mpc[n]
    BY <1>35 DEF Entersyscallblock
  <2>3. \A n \in Ms : \A S \in SUBSET Ps : Looks(n, S) => Looks(n, S)'
    BY <1>35, <2>1 DEF Entersyscallblock
  <2>4. \A n \in Ms : Promised(n)' = Promised(n)
    BY <1>35 DEF Entersyscallblock
  <2>5. QED  BY <1>00, <2>1, <2>2, <2>3, <2>4, StillLooks
<1>36. ASSUME NEW m \in Ms, Exitsyscall(m)  PROVE SomebodyLooks'
  <2>1. UNCHANGED <<nmspinning, runq, runqsize, looked>> /\ (pidle' # {} /\ ~overlooked' => pidle # {} /\ ~overlooked)
    BY <1>36 DEF Exitsyscall
  <2>2. \A n \in Ms : mpc[n] \in Waking \cup {"recheck"} => mpc'[n] = mpc[n]
    BY <1>36 DEF Exitsyscall
  <2>3. \A n \in Ms : \A S \in SUBSET Ps : Looks(n, S) => Looks(n, S)'
    BY <1>36, <2>1 DEF Exitsyscall
  <2>4. \A n \in Ms : Promised(n)' = Promised(n)
    BY <1>36 DEF Exitsyscall
  <2>5. QED  BY <1>00, <2>1, <2>2, <2>3, <2>4, StillLooks
<1>37. ASSUME NEW m \in Ms, Polled(m)  PROVE SomebodyLooks'
  <2>0. \E k : /\ glist' = [glist EXCEPT ![m] = k] /\ mpc[m] = "polling" /\ Go(m, "polled")
              /\ UNCHANGED <<p, nextp, spinning, nmspinning, pidle, runq, runqsize, start, ret, looked, overlooked>>
    BY <1>37, PolledForm
  <2>1. UNCHANGED <<nmspinning, runq, runqsize, looked>> /\ (pidle' # {} /\ ~overlooked' => pidle # {} /\ ~overlooked)
    BY <2>0
  <2>2. \A n \in Ms : mpc[n] \in Waking \cup {"recheck"} => mpc'[n] = mpc[n]
    BY <2>0
  <2>3. \A n \in Ms : \A S \in SUBSET Ps : Looks(n, S) => Looks(n, S)'
    BY <2>0, <2>1
  <2>4. \A n \in Ms : Promised(n)' = Promised(n)
    BY <2>0
  <2>5. QED  BY <1>00, <2>1, <2>2, <2>3, <2>4, StillLooks
<1>38. ASSUME Retake  PROVE SomebodyLooks'
  <2>1. UNCHANGED <<nmspinning, runq, runqsize, looked>> /\ (pidle' # {} /\ ~overlooked' => pidle # {} /\ ~overlooked)
    BY <1>38 DEF Retake
  <2>2. \A n \in Ms : mpc[n] \in Waking \cup {"recheck"} => mpc'[n] = mpc[n]
    BY <1>38 DEF Retake
  <2>3. \A n \in Ms : \A S \in SUBSET Ps : Looks(n, S) => Looks(n, S)'
    BY <1>38, <2>1 DEF Retake
  <2>4. \A n \in Ms : Promised(n)' = Promised(n)
    BY <1>38 DEF Retake
  <2>5. QED  BY <1>00, <2>1, <2>2, <2>3, <2>4, StillLooks
<1>39. CASE UNCHANGED svars
  <2>1. UNCHANGED <<nmspinning, runq, runqsize, looked, pidle, overlooked>> /\ UNCHANGED <<mpc, p, nextp, spinning, start, ret, glist>>
    BY <1>39 DEF svars
  <2>2. QED  BY <1>00, <2>1, StillLooks
<1>40. QED
  BY <1>1, <1>2, <1>3, <1>4, <1>5, <1>6, <1>7, <1>8, <1>9, <1>10, <1>11, <1>12, <1>13, <1>14,
     <1>15, <1>16, <1>17, <1>18, <1>19, <1>20, <1>21, <1>22, <1>23, <1>24, <1>25, <1>26, <1>27, <1>28,
     <1>29, <1>30, <1>31, <1>32, <1>33, <1>34, <1>35, <1>36, <1>37, <1>38, <1>39 DEF SchedNext, Step, MStep, Environment

\* Every step keeps the type of the history.
LEMMA NextMarked ==
  ASSUME SchedInv, Loose, [SchedNext]_svars, overlooked \in BOOLEAN
  PROVE  overlooked' \in BOOLEAN
<1>1. ASSUME NEW t \in Threads, WakepIdle(t)  PROVE overlooked' \in BOOLEAN
  BY <1>1 DEF WakepIdle
<1>2. ASSUME NEW t \in Threads, Wakep(t)  PROVE overlooked' \in BOOLEAN
  BY <1>2 DEF Wakep, CallStartm
<1>3. ASSUME NEW t \in Threads, Startm(t)  PROVE overlooked' \in BOOLEAN
  BY <1>3 DEF Startm
<1>4. ASSUME NEW t \in Threads, StartmFails(t)  PROVE overlooked' \in BOOLEAN
  BY <1>4 DEF StartmFails
<1>5. ASSUME NEW t \in Threads, StartmUndo(t)  PROVE overlooked' \in BOOLEAN
  BY <1>5 DEF StartmUndo
<1>6. ASSUME NEW t \in Threads, StartmWake(t)  PROVE overlooked' \in BOOLEAN
  BY <1>6 DEF StartmWake
<1>7. ASSUME NEW t \in Threads, Handoff(t)  PROVE overlooked' \in BOOLEAN
  BY <1>7 DEF Handoff, StartFor, CallStartm, HandedOff
<1>8. ASSUME NEW t \in Threads, HandoffSpin(t)  PROVE overlooked' \in BOOLEAN
  BY <1>8 DEF HandoffSpin, StartFor, CallStartm, HandedOff
<1>9. ASSUME NEW t \in Threads, HandoffIdle(t)  PROVE overlooked' \in BOOLEAN
  BY <1>9 DEF HandoffIdle, StartFor, CallStartm, HandedOff
<1>10. ASSUME NEW m \in Ms, Unpark(m)  PROVE overlooked' \in BOOLEAN
  BY <1>10 DEF Unpark
<1>11. ASSUME NEW m \in Ms, Stopm(m)  PROVE overlooked' \in BOOLEAN
  BY <1>11 DEF Stopm
<1>12. ASSUME NEW m \in Ms, Resetspinning(m)  PROVE overlooked' \in BOOLEAN
  BY <1>12 DEF Resetspinning, StopSpinning
<1>13. ASSUME NEW m \in Ms, Exit0(m)  PROVE overlooked' \in BOOLEAN
  BY <1>13 DEF Exit0, GetP
<1>14. ASSUME NEW m \in Ms, ScheduleGlobal(m)  PROVE overlooked' \in BOOLEAN
  BY <1>14 DEF ScheduleGlobal, GotG
<1>15. ASSUME NEW m \in Ms, RunqGet(m)  PROVE overlooked' \in BOOLEAN
  BY <1>15 DEF RunqGet, GotG
<1>16. ASSUME NEW m \in Ms, Spin(m)  PROVE overlooked' \in BOOLEAN
  BY <1>16 DEF Spin
<1>17. ASSUME NEW m \in Ms, StartSpinning(m, "spin2", "steal")  PROVE overlooked' \in BOOLEAN
  BY <1>17 DEF StartSpinning
<1>18. ASSUME NEW m \in Ms, Steal(m)  PROVE overlooked' \in BOOLEAN
  BY <1>18 DEF Steal, runqsteal, GotG
<1>19. ASSUME NEW m \in Ms, StealNothing(m)  PROVE overlooked' \in BOOLEAN
  BY <1>19 DEF StealNothing, Passed
<1>20. ASSUME NEW m \in Ms, ReturnP(m)  PROVE overlooked' \in BOOLEAN
  BY <1>20 DEF ReturnP, GotG
<1>21. ASSUME NEW m \in Ms, Unspin(m)  PROVE overlooked' \in BOOLEAN
  BY <1>21 DEF Unspin, StopSpinning
<1>22. ASSUME NEW m \in Ms, Recheck(m)  PROVE overlooked' \in BOOLEAN
  BY <1>22 DEF Recheck, Passed
<1>23. ASSUME NEW m \in Ms, RecheckP(m)  PROVE overlooked' \in BOOLEAN
  BY <1>23 DEF RecheckP, GetP
<1>24. ASSUME NEW m \in Ms, StartSpinning(m, "respin", "top")  PROVE overlooked' \in BOOLEAN
  BY <1>24 DEF StartSpinning
<1>25. ASSUME NEW m \in Ms, Netpoll(m)  PROVE overlooked' \in BOOLEAN
  BY <1>25 DEF Netpoll
<1>26. ASSUME NEW m \in Ms, PolledP(m)  PROVE overlooked' \in BOOLEAN
  BY <1>26 DEF PolledP, GetP
<1>27. ASSUME NEW m \in Ms, Inject(m)  PROVE overlooked' \in BOOLEAN
  BY <1>27 DEF Inject
<1>28. ASSUME NEW m \in Ms, InjectGlobal(m)  PROVE overlooked' \in BOOLEAN
  BY <1>28 DEF InjectGlobal
<1>29. ASSUME NEW m \in Ms, StartIdle(m)  PROVE overlooked' \in BOOLEAN
  BY <1>29 DEF StartIdle, CallStartm
<1>30. ASSUME NEW m \in Ms, InjectLocal(m)  PROVE overlooked' \in BOOLEAN
  BY <1>30 DEF InjectLocal
<1>31. ASSUME NEW m \in Ms, Goready(m)  PROVE overlooked' \in BOOLEAN
  BY <1>31 DEF Goready, CallWakep, runqput
<1>32. ASSUME NEW m \in Ms, Park(m)  PROVE overlooked' \in BOOLEAN
  BY <1>32 DEF Park
<1>33. ASSUME NEW m \in Ms, Gosched(m)  PROVE overlooked' \in BOOLEAN
  BY <1>33 DEF Gosched
<1>34. ASSUME NEW m \in Ms, Entersyscall(m)  PROVE overlooked' \in BOOLEAN
  BY <1>34 DEF Entersyscall
<1>35. ASSUME NEW m \in Ms, Entersyscallblock(m)  PROVE overlooked' \in BOOLEAN
  BY <1>35 DEF Entersyscallblock
<1>36. ASSUME NEW m \in Ms, Exitsyscall(m)  PROVE overlooked' \in BOOLEAN
  BY <1>36 DEF Exitsyscall
<1>37. ASSUME NEW m \in Ms, Polled(m)  PROVE overlooked' \in BOOLEAN
  BY <1>37 DEF Polled
<1>38. ASSUME Retake  PROVE overlooked' \in BOOLEAN
  BY <1>38 DEF Retake
<1>39. CASE UNCHANGED svars
  BY <1>39 DEF svars
<1>40. QED
  BY <1>1, <1>2, <1>3, <1>4, <1>5, <1>6, <1>7, <1>8, <1>9, <1>10, <1>11, <1>12, <1>13, <1>14,
     <1>15, <1>16, <1>17, <1>18, <1>19, <1>20, <1>21, <1>22, <1>23, <1>24, <1>25, <1>26, <1>27, <1>28,
     <1>29, <1>30, <1>31, <1>32, <1>33, <1>34, <1>35, <1>36, <1>37, <1>38, <1>39 DEF SchedNext, Step, MStep, Environment

\* The counts are numbers.
LEMMA CountsTyped ==
  ThreadsTyped => /\ IsFiniteSet(spinning) /\ Cardinality(spinning) \in Nat
                  /\ IsFiniteSet(Owed) /\ Cardinality(Owed) \in Nat
<1> SUFFICES ASSUME ThreadsTyped
             PROVE  /\ IsFiniteSet(spinning) /\ Cardinality(spinning) \in Nat
                    /\ IsFiniteSet(Owed) /\ Cardinality(Owed) \in Nat
  OBVIOUS
<1>1. IsFiniteSet(Ms) /\ IsFiniteSet(Threads)
  BY SchedAssumption, FS_AddElement DEF Threads
<1>2. IsFiniteSet(spinning) /\ IsFiniteSet(Owed)
  BY <1>1, FS_Subset DEF ThreadsTyped, Owed
<1>3. QED  BY <1>2, FS_CardinalityType

-----------------------------------------------------------------------------
(* The invariant and what follows from it. *)

\* What the invariants ask of the types and the counts together.
Parts ==
  /\ Control /\ PsTyped /\ ThreadsTyped /\ QueuesTyped /\ ListsTyped /\ overlooked \in BOOLEAN
  /\ Sum /\ SpinCount /\ OneOwner
  /\ PFits /\ RetFits /\ StartFits /\ ListsFit /\ IdleFits /\ SpinFits /\ EmptyFits

\* Nobody spins on whose behalf a thread is being started.
LEMMA CountBound ==
  ASSUME Parts
  PROVE  nmspinning \in 0..Cardinality(Threads)
<1>1. IsFiniteSet(Threads) /\ Cardinality(Threads) \in Nat
  BY SchedAssumption, FS_AddElement, FS_CardinalityType DEF Threads
<1>2. /\ IsFiniteSet(spinning) /\ Cardinality(spinning) \in Nat
      /\ IsFiniteSet(Owed) /\ Cardinality(Owed) \in Nat
  BY CountsTyped DEF Parts
<1>3. spinning \cap Owed = {}
  <2> SUFFICES ASSUME NEW m \in spinning, m \in Owed  PROVE FALSE
    OBVIOUS
  <2>1. m \in Ms /\ m \in Threads
    BY ThreadsFit DEF Parts, ThreadsTyped
  <2>2. mpc[m] \in {"startm", "startm2", "startm3"}
    BY <2>1, NoStartFits DEF Parts, StartFits, Owed
  <2>3. QED  BY <2>1, <2>2 DEF Parts, SpinFits
<1>4. spinning \cup Owed \subseteq Threads
  BY ThreadsFit DEF Parts, ThreadsTyped, Owed
<1>5. Cardinality(spinning \cup Owed) = Cardinality(spinning) + Cardinality(Owed) - Cardinality(spinning \cap Owed)
  BY <1>2, FS_Union
<1>6. Cardinality(spinning \cap Owed) = 0
  BY <1>3, FS_EmptySet
<1>7. Cardinality(spinning \cup Owed) <= Cardinality(Threads)
  BY <1>1, <1>4, FS_Subset
<1>8. nmspinning = Cardinality(spinning) + Cardinality(Owed)
  BY DEF Parts, SpinCount
<1>9. QED  BY <1>1, <1>2, <1>5, <1>6, <1>7, <1>8

\* The parts make the invariant.
LEMMA PartsMake == Parts /\ SomebodyLooks => SchedInv
<1> SUFFICES ASSUME Parts, SomebodyLooks  PROVE SchedInv
  OBVIOUS
<1>1. nmspinning \in 0..Cardinality(Threads)
  BY CountBound
<1>2. \A t \in Threads : mpc[t] # "throw"
  BY ThreadsFit DEF Parts, RetFits, Handing
<1>3. /\ runqsize \in Nat /\ waiting \in Nat /\ InQueues \in Nat /\ Injected \in Nat /\ Cardinality(Carriers) \in Nat
      /\ NGoroutines = waiting + runqsize + InQueues + Cardinality(Carriers) + Injected
  BY TermsFit DEF Parts, QueuesTyped, Sum
<1>4. runqsize <= NGoroutines /\ waiting <= NGoroutines
  BY <1>3, NumbersFit
<1>5. SchedTypeOK
  BY <1>1, <1>3, <1>4, NumbersFit DEF Parts, SchedTypeOK, Control, PsTyped, ThreadsTyped, Starts, QueuesTyped, ListsTyped
<1>6. SpinnersCounted
  BY <1>2, <1>5 DEF SpinnersCounted, Parts, SpinCount, Owed
<1>7. NGoroutines = waiting + (runqsize + InQueues) + Cardinality(Carriers) + Injected
  BY <1>3
<1>8. NothingIsLost
  BY <1>7 DEF NothingIsLost, Queued, InQueues, Carriers, Injected, Lists, Parts
<1>9. QED  BY <1>6, <1>8 DEF SchedInv, Parts

\* And after a step.
LEMMA PartsMakeNext == (Parts /\ SomebodyLooks => SchedInv)'
BY PartsMake, PTL

\* And the invariant has these parts.
LEMMA PartsHold == SchedInv => Loose /\ Parts /\ SomebodyLooks
<1> SUFFICES ASSUME SchedInv  PROVE Loose /\ Parts /\ SomebodyLooks
  OBVIOUS
<1>1. Loose
  BY TypesFit DEF SchedInv, SpinnersCounted
<1>2. SpinCount
  BY DEF SchedInv, SpinnersCounted, SpinCount, Owed
<1>3. NGoroutines = waiting + (runqsize + InQueues) + Cardinality(Carriers) + Injected
  BY DEF SchedInv, NothingIsLost, Queued, InQueues, Carriers, Injected, Lists
<1>4. runqsize \in Nat /\ waiting \in Nat /\ InQueues \in Nat /\ Injected \in Nat /\ Cardinality(Carriers) \in Nat
  BY <1>1, TermsFit DEF Loose, QueuesTyped
<1>5. Sum
  BY <1>3, <1>4 DEF Sum
<1>6. QED  BY <1>1, <1>2, <1>5 DEF SchedInv, NothingIsLost, Parts, Loose

\* Every step keeps the invariant.
LEMMA NextSchedInv == SchedInv /\ [SchedNext]_svars => SchedInv'
<1> SUFFICES ASSUME SchedInv, [SchedNext]_svars  PROVE SchedInv'
  OBVIOUS
<1>1. Loose /\ Parts /\ SomebodyLooks
  BY PartsHold
<1>2. Control' /\ PsTyped' /\ ThreadsTyped' /\ QueuesTyped' /\ ListsTyped' /\ overlooked' \in BOOLEAN
  BY <1>1, NextControl, NextPs, NextThreads, NextQueues, NextLists, NextMarked DEF Parts
<1>3. PFits' /\ RetFits' /\ StartFits' /\ ListsFit' /\ IdleFits' /\ SpinFits' /\ EmptyFits' /\ OneOwner'
  BY <1>1, NextPFits, NextRetFits, NextStartFits, NextListsFit, NextIdleFits, NextSpinFits, NextEmptyFits, NextOneOwner
<1>4. Smalls /\ Smalls'
  BY <1>1, <1>2, <1>3, SmallsFit, SmallsNext DEF Parts
<1>5. Sum' /\ SpinCount'
  BY <1>1, <1>4, NextSum, NextSpinCount DEF Parts
<1>6. Counted /\ Counted'
  BY <1>1, <1>2, <1>3 DEF Counted, Parts
<1>7. SomebodyLooks'
  BY <1>1, <1>6, NextLooks
<1>8. Parts'
  BY <1>2, <1>3, <1>5 DEF Parts
<1>9. QED  BY <1>7, <1>8, PartsMakeNext

\* The invariant holds at first.
LEMMA InitSchedInv == SchedInit => SchedInv
<1> SUFFICES ASSUME SchedInit  PROVE SchedInv
  OBVIOUS
<1>1. PICK m0 \in Ms, p0 \in Ps :
        /\ mpc = [t \in Threads |-> IF t = m0 THEN "run" ELSE IF t = Sysmon THEN "sysmon" ELSE "none"]
        /\ p = [m \in Ms |-> IF m = m0 THEN p0 ELSE Nil]
        /\ nextp = [m \in Ms |-> Nil]
        /\ spinning = {} /\ nmspinning = 0
        /\ pidle = Ps \ {p0} /\ psyscall = {} /\ midle = {}
        /\ runq = [q \in Ps |-> 0] /\ runqsize = 0 /\ waiting = NGoroutines - 1
        /\ polling = FALSE
        /\ hand = [t \in Threads |-> Nil]
        /\ start = [t \in Threads |-> NoStart]
        /\ ret = [t \in Threads |-> "schedule"]
        /\ looked = [m \in Ms |-> {}] /\ glist = [m \in Ms |-> NoGs] /\ overlooked = FALSE
  BY DEF SchedInit
<1> HIDE DEF NoStart
<1>2. Control /\ PsTyped /\ ThreadsTyped
  BY <1>1, ThreadsFit, LocationsListed, NoStartFits DEF Control, PsTyped, ThreadsTyped
<1>3. QueuesTyped /\ ListsTyped
  <2>1. NGoroutines - 1 \in Nat
    BY SchedAssumption
  <2>2. QueuesTyped
    BY <1>1, <2>1, NumbersFit DEF QueuesTyped
  <2>3. NoGs \in [n : 0..NGoroutines, rest : 0..NGoroutines]
    BY NumbersFit
  <2>4. ListsTyped
    <3> HIDE DEF NoGs
    <3>1. QED  BY <1>1, <2>3 DEF ListsTyped
  <2>5. QED  BY <2>2, <2>4
<1>4. PFits /\ RetFits /\ ListsFit /\ SpinFits
  BY <1>1, ThreadsFit, NumbersFit DEF PFits, WithP, WithoutP, RetFits, Handing, Calling, Injects, ListsFit, SpinFits
<1>5. StartFits /\ IdleFits
  BY <1>1, ThreadsFit, NoStartFits DEF StartFits, IdleFits, Handing
<1>6. EmptyFits
  BY <1>1, ThreadsFit, NoStartFits DEF EmptyFits
<1>7. OneOwner
  <2> DEFINE kind == [q \in Ps |-> IF q = p0 THEN "m" ELSE "idle"]
             who == [q \in Ps |-> IF q = p0 THEN m0 ELSE Nil]
  <2>1. Held(kind, who)
    BY <1>1, ThreadsFit, NoStartFits DEF Held
  <2> HIDE DEF kind, who
  <2>2. QED  BY <2>1, HeldOwners
<1>8. SpinCount
  <2>1. Owed = {}
    BY <1>1, ThreadsFit, NoStartFits DEF Owed
  <2>2. QED  BY <1>1, <2>1, FS_EmptySet DEF SpinCount
<1>9. Smalls
  BY <1>3, <1>4, SmallsFit
<1>10. InQueues = 0 /\ Injected = 0
  <2>1. \A m \in Ms : Lists[m] = 0
    BY <1>1 DEF Lists, Injecting
  <2>2. \A q \in Ps : runq[q] = 0
    BY <1>1
  <2>3. Cardinality(Places(runq, Ps)) = 0
    BY <1>9, <2>2, TermsFit, PlacesNone DEF Smalls
  <2>4. Cardinality(Places(Lists, Ms)) = 0
    BY <1>9, <2>1, TermsFit, PlacesNone DEF Smalls
  <2>5. QED  BY <2>3, <2>4 DEF InQueues, Injected
<1>11. Sum
  <2>1. Carriers = {m0}
    BY <1>1, ThreadsFit DEF Carriers, Carrying
  <2>2. Cardinality(Carriers) = 1
    BY <2>1, FS_Singleton
  <2>3. NGoroutines \in Nat /\ waiting = NGoroutines - 1 /\ runqsize = 0
    BY <1>1, NumbersFit
  <2>4. QED  BY <1>10, <2>2, <2>3 DEF Sum
<1>12. SomebodyLooks
  <2>1. Counted
    BY <1>3, <1>4 DEF Counted
  <2>2. PICK S \in SUBSET Ps : S = Ps
    OBVIOUS
  <2>3. Wanted(S) = 0
    BY <1>1, <1>10, <2>2 DEF Wanted, InQueues
  <2>4. Helping(S) \in Nat
    BY <2>1, HelpFits
  <2>5. Helped(S)
    BY <2>3, <2>4, HelpedMeans
  <2>6. QED  BY <2>2, <2>5 DEF SomebodyLooks
<1>13. Parts
  BY <1>1, <1>2, <1>3, <1>4, <1>5, <1>6, <1>7, <1>8, <1>11 DEF Parts
<1>14. QED  BY <1>12, <1>13, PartsMake

\* The invariant is one: it holds at first, and every step keeps it.
THEOREM SchedInvariance == SchedSpec => []SchedInv
<1>1. SchedInit => SchedInv
  BY InitSchedInv
<1>2. SchedInv /\ [SchedNext]_svars => SchedInv'
  BY NextSchedInv
<1>3. QED  BY <1>1, <1>2, PTL DEF SchedSpec

\* sched.nmspinning is right for any number of threads, Ps and goroutines: it is
\* the number of threads that spin and of the increments made for threads that
\* startm has yet to start; and startm and findrunnable never throw.
THEOREM Counting == SchedSpec => []SpinnersCounted
<1>1. SchedInv => SpinnersCounted
  BY DEF SchedInv
<1>2. QED  BY <1>1, SchedInvariance, PTL

\* Every P has one owner and every goroutine is in one place, through system
\* calls, retake, handoffp, netpoll, stealing and the overflow of local queues.
THEOREM Conservation == SchedSpec => []NothingIsLost
<1>1. SchedInv => NothingIsLost
  BY DEF SchedInv
<1>2. QED  BY <1>1, SchedInvariance, PTL

\* When all threads have settled nobody looks, so there is nothing to look at.
LEMMA SettledWork == SchedInv => WorkConserving
<1> SUFFICES ASSUME SchedInv, \A t \in Threads : Settled(t), pidle # {}, Queued > 0, ~overlooked
             PROVE  FALSE
  BY DEF WorkConserving
<1>1. Loose /\ Parts /\ SomebodyLooks
  BY PartsHold
<1>2. \A m \in Ms : /\ mpc[m] \in {"none", "run", "syscall", "polling", "sysmon", "parked"}
                    /\ nextp[m] = Nil
  BY <1>1, ThreadsFit DEF Settled, Parts, IdleFits
<1>3. \A t \in Threads : mpc[t] \in {"none", "run", "syscall", "polling", "sysmon", "parked"}
  BY DEF Settled
<1>4. nmspinning = 0
  <2>1. spinning = {}
    BY <1>1, <1>2 DEF Parts, SpinFits, ThreadsTyped
  <2>2. Owed = {}
    BY <1>1, <1>3, NoStartFits DEF Parts, StartFits, Owed
  <2>3. QED  BY <1>1, <2>1, <2>2, FS_EmptySet DEF Parts, SpinCount
<1>5. \A m \in Ms : mpc[m] \notin Waking \cup {"recheck"}
  BY <1>2 DEF Waking
<1>6. Helped(Ps)
  BY <1>1, <1>4, <1>5 DEF SomebodyLooks
<1>7. Counted
  BY <1>1 DEF Counted, Parts
<1>8. PICK S \in SUBSET Ps : S = Ps
  OBVIOUS
<1>9. \A m \in Ms : Helpers(S)[m] = 0
  <2>1. \A m \in Ms : ~Looks(m, S) /\ Promised(m) = 0
    BY <1>2 DEF Looks, Promised, Calling
  <2>2. QED  BY <2>1 DEF Helpers, Help
<1>10. Helping(S) = 0
  <2>1. Small(Helpers(S), Ms) /\ IsFiniteSet(Ms)
    BY <1>7, HelpFits, SchedAssumption
  <2>2. QED  BY <1>9, <2>1, PlacesNone DEF Helping
<1>11. Wanted(S) <= 0 /\ Wanted(S) \in Nat
  BY <1>6, <1>7, <1>8, <1>10, HelpedMeans, HelpFits
<1>12. Queued = Wanted(S)
  BY <1>8 DEF Queued, Wanted
<1>13. QED  BY <1>11, <1>12

\* No goroutine waits beside an idle P: whatever the numbers of threads, Ps and
\* goroutines, and in whatever order the steps of schedule, findrunnable, wakep,
\* startm, injectglist, retake and handoffp come.
THEOREM NobodyOverlooked == SchedSpec => []WorkConserving
<1>1. SchedInv => WorkConserving
  BY SettledWork
<1>2. QED  BY <1>1, SchedInvariance, PTL

HIDE DEF Go, Moves, Return, NoStart, NoGs, mvars, queues, idle, locals

-----------------------------------------------------------------------------
(* Sequences without repetitions. *)

\* The empty sequence.
LEMMA EmptyOnce == IsInjective(<<>>) /\ Range(<<>>) = {} /\ DOMAIN <<>> = {}
BY DEF IsInjective, Range

\* The elements of a sequence, and the empty one among them.
LEMMA SeqFacts ==
  ASSUME NEW S, NEW s \in Seq(S)
  PROVE  /\ Len(s) \in Nat /\ DOMAIN s = 1 .. Len(s) /\ Range(s) \subseteq S
         /\ s = <<>> <=> Len(s) = 0
         /\ s = <<>> <=> Range(s) = {}
<1>1. Len(s) \in Nat /\ DOMAIN s = 1 .. Len(s) /\ \A i \in 1 .. Len(s) : s[i] \in S
  OBVIOUS
<1>2. Range(s) \subseteq S
  BY <1>1 DEF Range
<1>3. s = <<>> <=> Len(s) = 0
  BY EmptySeq
<1>4. Len(s) # 0 => s[1] \in Range(s)
  BY <1>1 DEF Range
<1>5. Len(s) = 0 => Range(s) = {}
  BY <1>1 DEF Range
<1>6. QED  BY <1>1, <1>2, <1>3, <1>4, <1>5

\* One more element, at the tail.
LEMMA AppendOnce ==
  ASSUME NEW S, NEW s \in Seq(S), IsInjective(s), NEW e \in S, e \notin Range(s)
  PROVE  /\ Append(s, e) \in Seq(S) /\ IsInjective(Append(s, e))
         /\ Range(Append(s, e)) = Range(s) \cup {e}
         /\ Len(Append(s, e)) = Len(s) + 1
         /\ \A i \in 1 .. Len(s) : Append(s, e)[i] = s[i]
         /\ Append(s, e)[Len(s) + 1] = e
<1> DEFINE t == Append(s, e)
<1>1. /\ t \in Seq(S) /\ Len(t) = Len(s) + 1 /\ Len(s) \in Nat
      /\ \A i \in 1 .. Len(s) : t[i] = s[i]
      /\ t[Len(s) + 1] = e
  BY AppendProperties
<1> HIDE DEF t
<1>2. DOMAIN s = 1 .. Len(s) /\ DOMAIN t = 1 .. Len(s) + 1
  BY <1>1
<1>3. \A i \in 1 .. Len(s) : s[i] # e
  BY <1>2 DEF Range
<1>4. \A i \in DOMAIN t : i \in 1 .. Len(s) \/ i = Len(s) + 1
  BY <1>1, <1>2
<1>5. IsInjective(t)
  BY <1>1, <1>2, <1>3, <1>4 DEF IsInjective
<1>6. Range(t) = Range(s) \cup {e}
  BY <1>1, <1>2, <1>4 DEF Range
<1>7. QED  BY <1>1, <1>5, <1>6 DEF t

\* Without the first element.
LEMMA TailOnce ==
  ASSUME NEW S, NEW s \in Seq(S), s # <<>>, IsInjective(s)
  PROVE  /\ Head(s) \in S /\ Head(s) \in Range(s) /\ Head(s) = s[1]
         /\ Tail(s) \in Seq(S) /\ IsInjective(Tail(s))
         /\ Range(Tail(s)) = Range(s) \ {Head(s)}
         /\ Len(Tail(s)) = Len(s) - 1 /\ Len(s) >= 1
         /\ \A i \in 1 .. Len(s) - 1 : Tail(s)[i] = s[i + 1]
<1> DEFINE t == Tail(s)
<1>1. /\ t \in Seq(S) /\ Len(s) \in Nat /\ Len(s) >= 1 /\ Len(t) = Len(s) - 1
      /\ DOMAIN s = 1 .. Len(s) /\ DOMAIN t = 1 .. Len(s) - 1
      /\ Head(s) = s[1] /\ s[1] \in S
      /\ \A i \in 1 .. Len(s) - 1 : t[i] = s[i + 1]
  BY HeadTailProperties
<1> HIDE DEF t
<1>2. \A i \in 1 .. Len(s) - 1 : i + 1 \in 1 .. Len(s) /\ i + 1 # 1
  BY <1>1
<1>3. \A i \in 1 .. Len(s) : i = 1 \/ (i - 1 \in 1 .. Len(s) - 1 /\ (i - 1) + 1 = i)
  BY <1>1
<1>4. Head(s) \in Range(s)
  BY <1>1 DEF Range
<1>5. \A i \in 1 .. Len(s) - 1 : s[i + 1] # s[1]
  BY <1>1, <1>2 DEF IsInjective
<1>6. Range(t) = Range(s) \ {Head(s)}
  <2>1. ASSUME NEW x \in Range(t)  PROVE  x \in Range(s) /\ x # s[1]
    BY <1>1, <1>2, <1>5 DEF Range
  <2>2. ASSUME NEW x \in Range(s), x # s[1]  PROVE  x \in Range(t)
    <3>1. PICK i \in 1 .. Len(s) : x = s[i]
      BY <1>1 DEF Range
    <3>2. i - 1 \in DOMAIN t /\ t[i - 1] = x
      BY <1>1, <1>3, <2>2, <3>1
    <3>3. QED  BY <3>2 DEF Range
  <2>3. QED  BY <1>1, <2>1, <2>2
<1>7. IsInjective(t)
  <2> SUFFICES ASSUME NEW i \in 1 .. Len(s) - 1, NEW j \in 1 .. Len(s) - 1, t[i] = t[j]
               PROVE  i = j
    BY <1>1 DEF IsInjective
  <2>1. i + 1 = j + 1
    <3>1. s[i + 1] = s[j + 1] /\ i + 1 \in DOMAIN s /\ j + 1 \in DOMAIN s
      BY <1>1, <1>2
    <3>2. QED  BY <3>1 DEF IsInjective
  <2>2. QED  BY <2>1
<1>8. QED  BY <1>1, <1>4, <1>6, <1>7 DEF t

\* Without the n-th element.
LEMMA RemoveOnce ==
  ASSUME NEW S, NEW s \in Seq(S), IsInjective(s), NEW n \in 1 .. Len(s)
  PROVE  LET t == RemoveAt(s, n) IN
           t \in Seq(S) /\ IsInjective(t) /\ Range(t) = Range(s) \ {s[n]}
<1> DEFINE a == SubSeq(s, 1, n - 1)
           z == SubSeq(s, n + 1, Len(s))
           t == a \o z
<1>1. n \in Int /\ 1 <= n /\ n <= Len(s) /\ Len(s) \in Nat /\ DOMAIN s = 1 .. Len(s)
  OBVIOUS
<1>2. \A i \in 1 .. Len(s) : s[i] \in S
  OBVIOUS
<1>3. a \in Seq(S) /\ Len(a) = n - 1 /\ \A i \in 1 .. n - 1 : a[i] = s[i]
  <2>1. \A i \in 1 .. n - 1 : s[i] \in S
    BY <1>1, <1>2
  <2>2. /\ SubSeq(s, 1, n - 1) \in Seq(S) /\ Len(SubSeq(s, 1, n - 1)) = IF 1 <= n - 1 THEN n - 1 - 1 + 1 ELSE 0
        /\ \A i \in 1 .. n - 1 - 1 + 1 : SubSeq(s, 1, n - 1)[i] = s[1 + i - 1]
    BY <1>1, <2>1, SubSeqProperties
  <2>3. \A i \in 1 .. n - 1 : i \in 1 .. n - 1 - 1 + 1 /\ 1 + i - 1 = i
    BY <1>1
  <2>4. (IF 1 <= n - 1 THEN n - 1 - 1 + 1 ELSE 0) = n - 1
    BY <1>1
  <2>5. QED  BY <2>2, <2>3, <2>4
<1>4. z \in Seq(S) /\ Len(z) = Len(s) - n /\ \A i \in 1 .. Len(s) - n : z[i] = s[n + i]
  <2>1. \A i \in n + 1 .. Len(s) : s[i] \in S
    BY <1>1, <1>2
  <2>2. /\ z \in Seq(S) /\ Len(z) = IF n + 1 <= Len(s) THEN Len(s) - (n + 1) + 1 ELSE 0
        /\ \A i \in 1 .. Len(s) - (n + 1) + 1 : z[i] = s[n + 1 + i - 1]
    BY <1>1, <2>1, SubSeqProperties
  <2>3. \A i \in 1 .. Len(s) - n : i \in 1 .. Len(s) - (n + 1) + 1 /\ n + 1 + i - 1 = n + i
    BY <1>1
  <2>4. (IF n + 1 <= Len(s) THEN Len(s) - (n + 1) + 1 ELSE 0) = Len(s) - n
    <3>1. n + 1 <= Len(s) => Len(s) - (n + 1) + 1 = Len(s) - n
      BY <1>1
    <3>2. ~(n + 1 <= Len(s)) => Len(s) - n = 0
      <4>1. n \in Int /\ Len(s) \in Int /\ n <= Len(s)
        BY <1>1
      <4>2. \A x, y \in Int : x <= y /\ ~(x + 1 <= y) => y - x = 0
        OBVIOUS
      <4>3. QED  BY <4>1, <4>2
    <3>3. QED  BY <3>1, <3>2
  <2>5. QED  BY <2>2, <2>3, <2>4
<1> HIDE DEF a, z
<1>5. /\ t \in Seq(S) /\ Len(t) = Len(s) - 1
      /\ \A i \in 1 .. Len(a) + Len(z) : t[i] = IF i <= Len(a) THEN a[i] ELSE z[i - Len(a)]
  <2>1. /\ t \in Seq(S) /\ Len(t) = Len(a) + Len(z)
        /\ \A i \in 1 .. Len(a) + Len(z) : t[i] = IF i <= Len(a) THEN a[i] ELSE z[i - Len(a)]
    BY <1>3, <1>4, ConcatProperties
  <2>2. QED  BY <1>1, <1>3, <1>4, <2>1
<1>6. \A i \in 1 .. Len(s) - 1 : t[i] = IF i < n THEN s[i] ELSE s[i + 1]
  <2> SUFFICES ASSUME NEW i \in 1 .. Len(s) - 1
               PROVE  t[i] = IF i < n THEN s[i] ELSE s[i + 1]
    OBVIOUS
  <2>1. t[i] = IF i <= n - 1 THEN a[i] ELSE z[i - (n - 1)]
    BY <1>1, <1>3, <1>4, <1>5
  <2>2. CASE i < n
    BY <1>1, <1>3, <2>1, <2>2
  <2>3. CASE ~(i < n)
    <3>1. i - (n - 1) \in 1 .. Len(s) - n /\ n + (i - (n - 1)) = i + 1
      BY <1>1, <2>3
    <3>2. QED  BY <1>1, <1>4, <2>1, <2>3, <3>1
  <2>4. QED  BY <2>2, <2>3
<1> HIDE DEF t
<1>7. DOMAIN t = 1 .. Len(s) - 1
  BY <1>1, <1>5
<1>8. IsInjective(t)
  <2> SUFFICES ASSUME NEW i \in 1 .. Len(s) - 1, NEW j \in 1 .. Len(s) - 1, t[i] = t[j]
               PROVE  i = j
    BY <1>7 DEF IsInjective
  <2> DEFINE there(k) == IF k < n THEN k ELSE k + 1
  <2>1. s[there(i)] = s[there(j)]
    BY <1>6
  <2>2. there(i) \in 1 .. Len(s) /\ there(j) \in 1 .. Len(s)
    BY <1>1
  <2>3. there(i) = there(j)
    <3> HIDE DEF there
    <3>1. QED  BY <1>1, <2>1, <2>2 DEF IsInjective
  <2>4. QED  BY <1>1, <2>3
<1>9. Range(t) = Range(s) \ {s[n]}
  <2>1. ASSUME NEW i \in 1 .. Len(s) - 1
        PROVE  t[i] \in Range(s) /\ t[i] # s[n]
    BY <1>1, <1>6 DEF IsInjective, Range
  <2>2. ASSUME NEW i \in 1 .. Len(s), s[i] # s[n]
        PROVE  \E j \in 1 .. Len(s) - 1 : t[j] = s[i]
    <3>1. CASE i < n
      BY <1>1, <1>6, <3>1
    <3>2. CASE i > n
      <4>1. i - 1 \in 1 .. Len(s) - 1 /\ ~(i - 1 < n) /\ (i - 1) + 1 = i
        BY <1>1, <3>2
      <4>2. QED  BY <1>6, <4>1
    <3>3. QED  BY <1>1, <2>2, <3>1, <3>2
  <2>3. Range(t) = {t[j] : j \in 1 .. Len(s) - 1} /\ Range(s) = {s[i] : i \in 1 .. Len(s)}
    BY <1>1, <1>7 DEF Range
  <2>4. Range(t) \subseteq Range(s) \ {s[n]}
    BY <2>1, <2>3
  <2>5. Range(s) \ {s[n]} \subseteq Range(t)
    BY <2>2, <2>3
  <2>6. QED  BY <2>4, <2>5
<1>10. QED  BY <1>5, <1>8, <1>9 DEF t, a, z, RemoveAt

\* It is not longer than there are elements.
LEMMA LengthIsBounded ==
  ASSUME NEW S, IsFiniteSet(S), NEW s \in Seq(S), IsInjective(s)
  PROVE  Len(s) <= Cardinality(S)
<1>1. Len(s) \in Nat /\ DOMAIN s = 1 .. Len(s) /\ s \in [1 .. Len(s) -> S]
  OBVIOUS
<1>2. s \in Injection(1 .. Len(s), S)
  BY <1>1 DEF Injection, IsInjective
<1>3. Cardinality(1 .. Len(s)) <= Cardinality(S)
  BY <1>2, FS_Injection
<1>4. Cardinality(1 .. Len(s)) = Len(s)
  BY <1>1, FS_Interval
<1>5. QED  BY <1>3, <1>4

\* It is as long as it has elements.
LEMMA LengthCounts ==
  ASSUME NEW S, IsFiniteSet(S), NEW s \in Seq(S), IsInjective(s)
  PROVE  Cardinality(Range(s)) = Len(s)
<1>1. /\ Len(s) \in Nat /\ DOMAIN s = 1 .. Len(s) /\ s \in [1 .. Len(s) -> Range(s)]
      /\ \A y \in Range(s) : \E i \in 1 .. Len(s) : s[i] = y
  BY DEF Range
<1>2. s \in Injection(1 .. Len(s), Range(s)) /\ s \in Surjection(1 .. Len(s), Range(s))
  BY <1>1 DEF Injection, Surjection, IsInjective
<1>3. IsFiniteSet(1 .. Len(s)) /\ Cardinality(1 .. Len(s)) = Len(s)
  <2>1. 1 \in Int /\ Len(s) \in Int /\ (1 > Len(s) => Len(s) = 0)
    BY <1>1
  <2>2. IsFiniteSet(1 .. Len(s))
    BY <2>1, FS_Interval
  <2>3. Cardinality(1 .. Len(s)) = Len(s)
    <3>1. Len(s) \in Nat
      BY <1>1
    <3>2. QED  BY <3>1, FS_Interval, SMTT(20)
  <2>4. QED  BY <2>2, <2>3
<1>4. QED  BY <1>2, <1>3, FS_Surjection

-----------------------------------------------------------------------------
(* Counts that wrap around. *)

\* NotifyListAssumption, in numbers.
LEMMA Half == Modulus \in Nat /\ Modulus \div 2 \in Nat \ {0} /\ Modulus = 2 * (Modulus \div 2)
BY NotifyListAssumption

\* wait and notify wrap around.
LEMMA PlusIs ==
  ASSUME NEW n \in 0 .. Modulus - 1
  PROVE  Plus1(n) \in 0 .. Modulus - 1 /\ Plus1(n) = IF n + 1 = Modulus THEN 0 ELSE n + 1
BY NotifyListAssumption DEF Plus1

\* How far one count is ahead of another.
LEMMA MinusIs ==
  ASSUME NEW a \in 0 .. Modulus - 1, NEW b \in 0 .. Modulus - 1
  PROVE  Minus(a, b) \in 0 .. Modulus - 1 /\ Minus(a, b) = IF a >= b THEN a - b ELSE a - b + Modulus
BY NotifyListAssumption DEF Minus

\* One more on either side.
LEMMA MinusFacts ==
  ASSUME NEW a \in 0 .. Modulus - 1, NEW b \in 0 .. Modulus - 1
  PROVE  /\ Minus(Plus1(a), b) = IF Minus(a, b) = Modulus - 1 THEN 0 ELSE Minus(a, b) + 1
         /\ Minus(a, Plus1(b)) = IF a = b THEN Modulus - 1 ELSE Minus(a, b) - 1
         /\ Minus(Plus1(a), a) = IF Modulus = 1 THEN 0 ELSE 1
         /\ Minus(a, b) = 0 <=> a = b
         /\ \A c \in 0 .. Modulus - 1 : Minus(a, b) = Minus(a, c) => b = c
<1>1. Modulus \in Nat
  BY Half
<1>2. Plus1(a) \in 0 .. Modulus - 1 /\ Plus1(b) \in 0 .. Modulus - 1
      /\ Plus1(a) = (IF a + 1 = Modulus THEN 0 ELSE a + 1) /\ Plus1(b) = (IF b + 1 = Modulus THEN 0 ELSE b + 1)
  BY PlusIs
<1>3. /\ Minus(Plus1(a), b) = IF Plus1(a) >= b THEN Plus1(a) - b ELSE Plus1(a) - b + Modulus
      /\ Minus(a, Plus1(b)) = IF a >= Plus1(b) THEN a - Plus1(b) ELSE a - Plus1(b) + Modulus
      /\ Minus(Plus1(a), a) = IF Plus1(a) >= a THEN Plus1(a) - a ELSE Plus1(a) - a + Modulus
  BY <1>2, MinusIs
<1>4. \A c \in 0 .. Modulus - 1 : Minus(a, c) = IF a >= c THEN a - c ELSE a - c + Modulus
  BY MinusIs
<1>5. QED  BY <1>1, <1>2, <1>3, <1>4

\* less is right about tickets that are at most half the range behind l.wait.
LEMMA LessIs ==
  ASSUME NEW w \in 0 .. Modulus - 1, NEW t \in 0 .. Modulus - 1, NEW n \in 0 .. Modulus - 1,
         Minus(w, t) <= Modulus \div 2, Minus(w, n) <= Modulus \div 2, Minus(w, t) >= 1
  PROVE  Less(t, n) <=> Minus(w, t) > Minus(w, n)
<1>1. /\ Minus(w, t) = IF w >= t THEN w - t ELSE w - t + Modulus
      /\ Minus(w, n) = IF w >= n THEN w - n ELSE w - n + Modulus
      /\ Minus(t, n) = IF t >= n THEN t - n ELSE t - n + Modulus
  BY MinusIs
<1>2. QED  BY <1>1, Half DEF Less

-----------------------------------------------------------------------------
(* What the tickets say. *)

\* As many sleep as the counts differ, and they are few enough for less.
LEMMA OrderFacts ==
  ASSUME NLIInv
  PROVE  /\ Len(order) \in Nat /\ DOMAIN order = 1 .. Len(order)
         /\ Len(order) <= Modulus \div 2 /\ Len(order) <= Modulus - 1
         /\ Range(order) \subseteq Goroutines
         /\ order = <<>> <=> Len(order) = 0
         /\ \A g \in Range(order) : Minus(wait, ticket[g]) \in 1 .. Len(order) /\ ticket[g] \in 0 .. Modulus - 1
<1>1. order \in Seq(Goroutines) /\ IsInjective(order)
  BY DEF NLIInv, NLTypeOK, TicketsFit
<1>2. Len(order) \in Nat /\ DOMAIN order = 1 .. Len(order) /\ Range(order) \subseteq Goroutines
      /\ (order = <<>> <=> Len(order) = 0)
  BY <1>1, SeqFacts
<1>3. Len(order) <= Cardinality(Goroutines)
  BY <1>1, LengthIsBounded, NotifyListAssumption
<1>4. Cardinality(Goroutines) \in Nat
  BY FS_CardinalityType, NotifyListAssumption
<1>5. Len(order) <= Modulus \div 2 /\ Len(order) <= Modulus - 1
  BY <1>2, <1>3, <1>4, Half, NotifyListAssumption
<1>6. ASSUME NEW g \in Range(order)
      PROVE  Minus(wait, ticket[g]) \in 1 .. Len(order) /\ ticket[g] \in 0 .. Modulus - 1
  <2>1. PICK i \in 1 .. Len(order) : g = order[i]
    BY <1>2 DEF Range
  <2>2. Minus(wait, ticket[g]) = Len(order) - i + 1
    BY <1>2, <2>1 DEF NLIInv, TicketsFit
  <2>3. ticket[g] \in 0 .. Modulus - 1
    BY <1>2 DEF NLIInv, NLTypeOK
  <2>4. QED  BY <1>2, <2>1, <2>2, <2>3
<1>7. QED  BY <1>2, <1>5, <1>6

\* notifyListWait does not park exactly if the ticket has been notified.
LEMMA TicketDecides ==
  ASSUME NLIInv, lock = None, NEW g \in Goroutines, st[g] = "ticket"
  PROVE  Less(ticket[g], notify) <=> g \notin Range(order)
<1>1. /\ wait \in 0 .. Modulus - 1 /\ notify \in 0 .. Modulus - 1 /\ ticket[g] \in 0 .. Modulus - 1
      /\ Minus(wait, notify) = Len(order)
  BY DEF NLIInv, NLTypeOK, CountsAgree
<1>2. Minus(wait, ticket[g]) <= Modulus \div 2
  <2>1. Minus(wait, ticket[g]) <= MaxLag /\ Minus(wait, ticket[g]) \in 0 .. Modulus - 1
    BY <1>1, MinusIs DEF NLIInv, TicketsFit
  <2>2. QED  BY <2>1, Half, NotifyListAssumption
<1>3. Len(order) \in Nat /\ Len(order) <= Modulus \div 2
  BY OrderFacts
<1>4. g \notin Range(order) => Minus(wait, ticket[g]) > Len(order)
  BY DEF NLIInv, TicketsFit
<1>5. g \in Range(order) => Minus(wait, ticket[g]) \in 1 .. Len(order)
  BY OrderFacts
<1>6. Minus(wait, ticket[g]) >= 1 /\ Minus(wait, ticket[g]) \in 0 .. Modulus - 1
  <2>1. Minus(wait, ticket[g]) \in 0 .. Modulus - 1 /\ Modulus \in Nat
    BY <1>1, MinusIs, Half
  <2>2. QED  BY <1>3, <1>4, <1>5, <2>1
<1>7. Less(ticket[g], notify) <=> Minus(wait, ticket[g]) > Minus(wait, notify)
  BY <1>1, <1>2, <1>3, <1>6, LessIs
<1>8. QED  BY <1>1, <1>3, <1>4, <1>5, <1>6, <1>7

\* notifyListNotifyOne finds the first in order, if it has parked.
LEMMA FoundIsFirst ==
  ASSUME NLIInv, lock = None, order # <<>>
  PROVE  /\ Found(notify) \subseteq 1 .. Len(list)
         /\ \A i \in Found(notify) : list[i] = Head(order)
         /\ Found(notify) = {} => Head(order) \notin Range(list)
<1> DEFINE n == Len(order)
           f == Head(order)
<1>1. /\ list \in Seq(Goroutines) /\ IsInjective(list) /\ Range(list) \subseteq Range(order)
      /\ order \in Seq(Goroutines) /\ IsInjective(order)
      /\ wait \in 0 .. Modulus - 1 /\ notify \in 0 .. Modulus - 1
      /\ Minus(wait, notify) = n
  BY DEF NLIInv, NLTypeOK, TicketsFit, ListFits, CountsAgree
<1>2. DOMAIN list = 1 .. Len(list) /\ Len(list) \in Nat /\ n \in Nat /\ n >= 1 /\ DOMAIN order = 1 .. n
  BY <1>1, SeqFacts
<1>3. f = order[1] /\ f \in Range(order)
  BY <1>1, TailOnce
<1>4. \A g \in Range(order) : ticket[g] = notify <=> g = f
  <2> SUFFICES ASSUME NEW g \in Range(order)
               PROVE  ticket[g] = notify <=> g = f
    OBVIOUS
  <2>1. PICK i \in 1 .. n : g = order[i]
    BY <1>2 DEF Range
  <2>2. Minus(wait, ticket[g]) = n - i + 1
    BY <1>2, <2>1 DEF NLIInv, TicketsFit
  <2>3. ticket[g] \in 0 .. Modulus - 1
    BY OrderFacts
  <2>4. ticket[g] = notify <=> Minus(wait, ticket[g]) = Minus(wait, notify)
    BY <1>1, <2>3, MinusFacts
  <2>5. Minus(wait, ticket[g]) = Minus(wait, notify) <=> i = 1
    BY <1>1, <1>2, <2>1, <2>2
  <2>6. i = 1 <=> g = f
    BY <1>1, <1>2, <1>3, <2>1 DEF IsInjective
  <2>7. QED  BY <2>4, <2>5, <2>6
<1>5. \A i \in 1 .. Len(list) : list[i] \in Range(order)
  BY <1>1, <1>2 DEF Range
<1>6. Found(notify) = {i \in 1 .. Len(list) : list[i] = f /\ \A j \in 1 .. i - 1 : list[j] # f}
  <2>1. \A i \in 1 .. Len(list) : 1 .. i - 1 \subseteq 1 .. Len(list)
    BY <1>2
  <2>2. \A i \in 1 .. Len(list) : ticket[list[i]] = notify <=> list[i] = f
    BY <1>4, <1>5
  <2>3. QED  BY <1>2, <2>1, <2>2 DEF Found
<1>7. Found(notify) = {} => f \notin Range(list)
  <2> SUFFICES ASSUME f \in Range(list)  PROVE  Found(notify) # {}
    OBVIOUS
  <2>1. PICK i \in 1 .. Len(list) : list[i] = f
    BY <1>2 DEF Range
  <2>2. \A j \in 1 .. i - 1 : list[j] # f
    BY <1>1, <1>2, <2>1 DEF IsInjective
  <2>3. QED  BY <1>6, <2>1, <2>2
<1>8. QED  BY <1>6, <1>7

-----------------------------------------------------------------------------
(* The steps of the notifyList. *)

NLStep(g) == Add(g) \/ Wait(g) \/ NotifyOne(g) \/ NotifyAll(g) \/ Notifying(g)

\* The list keeps its types.
LEMMA NLTypes ==
  ASSUME NLIInv, NEW g \in Goroutines, NLStep(g)
  PROVE  NLTypeOK'
<1> USE DEF Goto, Forget, Stages
<1>1. NLTypeOK /\ 0 \in 0 .. Modulus - 1 /\ Plus1(wait) \in 0 .. Modulus - 1 /\ Plus1(notify) \in 0 .. Modulus - 1
  <2>1. NLTypeOK /\ wait \in 0 .. Modulus - 1 /\ notify \in 0 .. Modulus - 1
    BY DEF NLIInv, NLTypeOK
  <2>2. 0 \in 0 .. Modulus - 1
    BY Half
  <2>3. QED  BY <2>1, <2>2, PlusIs
<1>2. CASE Add(g)
  BY <1>1, <1>2, AppendProperties DEF NLTypeOK, Add
<1>3. CASE Wait(g)
  <2>1. list' = list \/ list' = Append(list, g)
    BY <1>3 DEF Wait
  <2>2. list' \in Seq(Goroutines)
    <3>1. list \in Seq(Goroutines) /\ \A s \in Seq(Goroutines) : Append(s, g) \in Seq(Goroutines)
      BY <1>1 DEF NLTypeOK
    <3>2. QED  BY <2>1, <3>1
  <2>3. CASE Less(ticket[g], notify)
    BY <1>1, <1>3, <2>2, <2>3 DEF NLTypeOK, Wait
  <2>4. CASE ~Less(ticket[g], notify)
    BY <1>1, <1>3, <2>2, <2>4 DEF NLTypeOK, Wait
  <2>5. QED  BY <2>3, <2>4
<1>4. CASE NotifyOne(g) \/ NotifyAll(g)
  BY <1>1, <1>4 DEF NLTypeOK, NotifyOne, NotifyAll
<1>5. CASE NotifyOneFast(g) \/ NotifyAllFast(g)
  <2>1. CASE NotifyOneFast(g)
    BY <1>1, <2>1 DEF NLTypeOK, NotifyOneFast
  <2>2. CASE NotifyAllFast(g)
    BY <1>1, <2>2 DEF NLTypeOK, NotifyAllFast
  <2>3. QED  BY <1>5, <2>1, <2>2
<1>6. CASE NotifyOneLocked(g)
  <2>1. CASE notify = wait
    BY <1>1, <1>6, <2>1 DEF NLTypeOK, NotifyOneLocked
  <2>2. CASE notify # wait
    <3>1. order # <<>>
      <4>1. wait \in 0 .. Modulus - 1 /\ notify \in 0 .. Modulus - 1 /\ Minus(wait, notify) = Len(order)
        BY <1>1, <1>6 DEF NLTypeOK, NLIInv, CountsAgree, NotifyOneLocked
      <4>2. QED  BY <2>2, <4>1, OrderFacts, MinusFacts
    <3>2. Tail(order) \in Seq(Goroutines)
      BY <1>1, <3>1, HeadTailProperties DEF NLTypeOK
    <3>3. ASSUME NEW i \in Found(notify), list' = RemoveAt(list, i), ready' = [ready EXCEPT ![g] = <<list[i]>>]
          PROVE  list' \in Seq(Goroutines) /\ ready' \in [Goroutines -> Seq(Goroutines)]
      <4>1. i \in 1 .. Len(list) /\ list \in Seq(Goroutines) /\ IsInjective(list)
        BY <1>6, <3>1, FoundIsFirst DEF NLIInv, NLTypeOK, ListFits, NotifyOneLocked
      <4>2. RemoveAt(list, i) \in Seq(Goroutines) /\ <<list[i]>> \in Seq(Goroutines)
        BY <4>1, RemoveOnce
      <4>3. QED  BY <1>1, <3>3, <4>2 DEF NLTypeOK
    <3>4. list' \in Seq(Goroutines) /\ ready' \in [Goroutines -> Seq(Goroutines)]
      BY <1>1, <1>6, <2>2, <3>3 DEF NLTypeOK, NotifyOneLocked
    <3>5. st' \in [Goroutines -> Stages]
      BY <1>1, <1>6, <2>2 DEF NLTypeOK, NotifyOneLocked
    <3>6. QED  BY <1>1, <1>6, <2>2, <3>2, <3>4, <3>5 DEF NLTypeOK, NotifyOneLocked
  <2>3. QED  BY <2>1, <2>2
<1>7. CASE NotifyAllLocked(g)
  BY <1>1, <1>7 DEF NLTypeOK, NotifyAllLocked
<1>8. CASE NotifyAllStore(g)
  BY <1>1, <1>8 DEF NLTypeOK, NotifyAllStore
<1>9. CASE Ready(g)
  <2>1. ready[g] # <<>> /\ ready[g] \in Seq(Goroutines)
    BY <1>1, <1>9 DEF NLIInv, ReadyFits, Ready, NLTypeOK
  <2>2. Head(ready[g]) \in Goroutines /\ Tail(ready[g]) \in Seq(Goroutines)
    BY <2>1, HeadTailProperties
  <2>3. QED  BY <1>1, <1>9, <2>2 DEF NLTypeOK, Ready
<1>10. QED  BY <1>2, <1>3, <1>4, <1>5, <1>6, <1>7, <1>8, <1>9 DEF NLStep, Notifying

\* What NotifyOne does under the lock: the first in order is notified, and taken
\* off the list if it has parked.
LEMMA OneIsNotified ==
  ASSUME NLIInv, NEW g \in Goroutines, NotifyOneLocked(g), notify # wait
  PROVE  /\ order # <<>> /\ order' = Tail(order) /\ notify' = Plus1(notify)
         /\ Head(order) \in Range(order)
         /\ \/ /\ st[Head(order)] = "ticket"
               /\ st' = [st EXCEPT ![g] = "out"] /\ UNCHANGED <<list, ready>>
            \/ /\ st[Head(order)] = "parked" /\ st' = [st EXCEPT ![g] = "ready"]
               /\ list' \in Seq(Goroutines) /\ IsInjective(list') /\ Range(list') = Range(list) \ {Head(order)}
               /\ ready' = [ready EXCEPT ![g] = <<Head(order)>>]
<1>1. lock = None /\ order' = Tail(order) /\ notify' = Plus1(notify)
  BY DEF NotifyOneLocked
<1>2. order # <<>>
  <2>1. wait \in 0 .. Modulus - 1 /\ notify \in 0 .. Modulus - 1 /\ Minus(wait, notify) = Len(order)
    BY <1>1 DEF NLTypeOK, NLIInv, CountsAgree
  <2>2. QED  BY <2>1, OrderFacts, MinusFacts
<1>3. Head(order) \in Range(order) /\ st[Head(order)] \in {"ticket", "parked"}
  BY <1>2, TailOnce DEF NLIInv, NLTypeOK, TicketsFit, Waiting
<1>4. /\ list \in Seq(Goroutines) /\ IsInjective(list)
      /\ Range(list) = {f \in Range(order) : st[f] = "parked"}
      /\ DOMAIN list = 1 .. Len(list)
  BY SeqFacts DEF NLIInv, NLTypeOK, ListFits
<1>5. CASE Found(notify) = {}
  <2>1. Head(order) \notin Range(list)
    BY <1>1, <1>2, <1>5, FoundIsFirst
  <2>2. QED  BY <1>1, <1>2, <1>3, <1>4, <1>5, <2>1 DEF NotifyOneLocked, Goto
<1>6. ASSUME NEW i \in Found(notify), Goto(g, "ready"), list' = RemoveAt(list, i),
             ready' = [ready EXCEPT ![g] = <<list[i]>>]
      PROVE  /\ st[Head(order)] = "parked" /\ st' = [st EXCEPT ![g] = "ready"]
             /\ list' \in Seq(Goroutines) /\ IsInjective(list') /\ Range(list') = Range(list) \ {Head(order)}
             /\ ready' = [ready EXCEPT ![g] = <<Head(order)>>]
  <2>1. i \in 1 .. Len(list) /\ list[i] = Head(order)
    BY <1>1, <1>2, FoundIsFirst
  <2>2. Head(order) \in Range(list)
    BY <1>4, <2>1 DEF Range
  <2>3. /\ RemoveAt(list, i) \in Seq(Goroutines) /\ IsInjective(RemoveAt(list, i))
        /\ Range(RemoveAt(list, i)) = Range(list) \ {list[i]}
    BY <1>4, <2>1, RemoveOnce
  <2>4. QED  BY <1>4, <1>6, <2>1, <2>2, <2>3 DEF Goto
<1>7. QED  BY <1>1, <1>2, <1>3, <1>5, <1>6 DEF NotifyOneLocked

\* Most steps change neither the order nor what is known of the tickets.
LEMMA TicketsKept ==
  ASSUME TicketsFit, UNCHANGED <<order, wait>>, Range(order) \subseteq Goroutines,
         \A f \in Range(order) : st'[f] \in {"ticket", "parked"} /\ ticket'[f] = ticket[f],
         \A f \in Goroutines : st'[f] = "ticket" => st[f] = "ticket" /\ ticket'[f] = ticket[f]
  PROVE  TicketsFit'
<1>1. \A i \in DOMAIN order : order[i] \in Range(order)
  BY DEF Range
<1>2. \A i \in DOMAIN order : Minus(wait, ticket'[order[i]]) = Minus(wait, ticket[order[i]])
  BY <1>1
<1>3. \A f \in Goroutines : st'[f] = "ticket" => Minus(wait, ticket'[f]) = Minus(wait, ticket[f])
  OBVIOUS
<1>4. (Range(order) \subseteq Waiting)'
  BY DEF Waiting
<1>5. \A i \in DOMAIN order' : Minus(wait', ticket'[order'[i]]) = Len(order') - i + 1
  BY <1>2 DEF TicketsFit
<1>6. \A f \in Goroutines : st'[f] = "ticket" =>
        Minus(wait', ticket'[f]) <= MaxLag /\ (f \in Range(order') \/ Minus(wait', ticket'[f]) > Len(order'))
  BY <1>3 DEF TicketsFit
<1>7. QED  BY <1>4, <1>5, <1>6 DEF TicketsFit

\* notifyListAdd takes the next ticket.
LEMMA AddKeepsTickets ==
  ASSUME NLIInv, NEW g \in Goroutines, Add(g)
  PROVE  TicketsFit' /\ CountsAgree'
<1> DEFINE n == Len(order)
<1>1. /\ wait \in 0 .. Modulus - 1 /\ Modulus \in Nat /\ MaxLag \in Nat /\ MaxLag <= Modulus - 1
      /\ notify \in 0 .. Modulus - 1 /\ lock \in Goroutines \cup {None}
      /\ \A f \in Goroutines : ticket[f] \in 0 .. Modulus - 1 /\ seen[f] \in 0 .. Modulus - 1
      /\ order \in Seq(Goroutines) /\ IsInjective(order)
  <2>1. MaxLag \in Nat /\ MaxLag <= Modulus - 1
    BY Half, NotifyListAssumption
  <2>2. QED  BY Half, <2>1 DEF NLIInv, NLTypeOK, TicketsFit
<1>2. /\ st[g] = "out" /\ st' = [st EXCEPT ![g] = "ticket"] /\ ticket' = [ticket EXCEPT ![g] = wait]
      /\ wait' = Plus1(wait) /\ order' = Append(order, g)
      /\ \A h \in Goroutines : st[h] = "ticket" => Minus(wait, ticket[h]) < MaxLag
      /\ UNCHANGED <<notify, lock, seen>>
  BY DEF Add, Goto
<1>3. g \notin Range(order)
  BY <1>2 DEF NLIInv, TicketsFit, Waiting
<1>4. /\ IsInjective(order') /\ Range(order') = Range(order) \cup {g} /\ Len(order') = n + 1
      /\ \A i \in 1 .. n : order'[i] = order[i]
      /\ order'[n + 1] = g /\ order' \in Seq(Goroutines)
  BY <1>1, <1>2, <1>3, AppendOnce
<1>5. DOMAIN order' = 1 .. n + 1 /\ n \in Nat /\ n <= Modulus \div 2 /\ DOMAIN order = 1 .. n
  BY <1>4, OrderFacts, SeqFacts
<1>6. n + 1 <= Modulus - 1 \/ n + 1 <= Modulus \div 2
  <2>1. Len(order') <= Cardinality(Goroutines) /\ Cardinality(Goroutines) \in Nat
    BY <1>4, LengthIsBounded, NotifyListAssumption, FS_CardinalityType
  <2>2. QED  BY <1>4, <1>5, <2>1, NotifyListAssumption, Half
<1>7. n + 1 <= Modulus - 1 /\ n <= Modulus - 2
  <2>1. n + 1 <= Modulus \div 2 => n + 1 <= Modulus - 1
    BY <1>5, Half
  <2>2. QED  BY <1>1, <1>5, <1>6, <2>1
<1>8. Minus(wait', wait) = 1
  BY <1>1, <1>2, <1>5, <1>7, MinusFacts
<1>9. \A f \in Range(order) : Minus(wait', ticket'[f]) = Minus(wait, ticket[f]) + 1
  <2> SUFFICES ASSUME NEW f \in Range(order)  PROVE  Minus(wait', ticket'[f]) = Minus(wait, ticket[f]) + 1
    OBVIOUS
  <2>1. f # g /\ f \in Goroutines /\ Minus(wait, ticket[f]) \in 1 .. n
    BY <1>3, OrderFacts
  <2>2. ticket'[f] = ticket[f]
    BY <1>2, <2>1 DEF NLIInv, NLTypeOK
  <2>3. Minus(wait, ticket[f]) # Modulus - 1
    BY <1>1, <1>5, <1>7, <2>1
  <2>4. QED  BY <1>1, <1>2, <2>1, <2>2, <2>3, MinusFacts
<1>10. TicketsFit'
  <2>1. (Range(order) \subseteq Waiting)'
    <3>1. Range(order) \subseteq Waiting
      BY DEF NLIInv, TicketsFit
    <3>2. QED  BY <1>2, <1>4, <3>1 DEF NLIInv, NLTypeOK, Waiting
  <2>2. \A i \in DOMAIN order' : Minus(wait', ticket'[order'[i]]) = Len(order') - i + 1
    <3>1. ticket'[g] = wait
      BY <1>2 DEF NLIInv, NLTypeOK
    <3>2. ASSUME NEW i \in 1 .. n  PROVE  Minus(wait', ticket'[order'[i]]) = Len(order') - i + 1
      <4>1. order[i] \in Range(order)
        BY <1>5 DEF Range
      <4>2. Minus(wait, ticket[order[i]]) = n - i + 1
        BY <1>5 DEF NLIInv, TicketsFit
      <4>3. Minus(wait', ticket'[order[i]]) = n - i + 1 + 1
        BY <1>9, <4>1, <4>2
      <4>4. QED  BY <1>4, <1>5, <4>3
    <3>3. \A i \in 1 .. n + 1 : i \in 1 .. n \/ i = n + 1
      BY <1>5
    <3>4. Minus(wait', ticket'[order'[n + 1]]) = Len(order') - (n + 1) + 1
      BY <1>4, <1>5, <1>8, <3>1
    <3>5. QED  BY <1>5, <3>2, <3>3, <3>4
  <2>3. ASSUME NEW f \in Goroutines, st'[f] = "ticket"
        PROVE  Minus(wait', ticket'[f]) <= MaxLag /\ (f \in Range(order') \/ Minus(wait', ticket'[f]) > Len(order'))
    <3>1. CASE f = g
      BY <1>1, <1>2, <1>4, <1>8, <3>1, NotifyListAssumption DEF NLIInv, NLTypeOK
    <3>2. CASE f # g
      <4>1. st[f] = "ticket" /\ ticket'[f] = ticket[f] /\ Minus(wait, ticket[f]) < MaxLag
        BY <1>2, <2>3, <3>2 DEF NLIInv, NLTypeOK
      <4>2. Minus(wait, ticket[f]) \in 0 .. Modulus - 1
        BY <1>1, MinusIs
      <4>3. Minus(wait', ticket'[f]) = Minus(wait, ticket[f]) + 1
        BY <1>1, <1>2, <4>1, <4>2, MinusFacts
      <4>4. f \in Range(order) \/ Minus(wait, ticket[f]) > n
        BY <4>1 DEF NLIInv, TicketsFit
      <4>5. QED  BY <1>1, <1>4, <1>5, <4>1, <4>2, <4>3, <4>4
    <3>3. QED  BY <3>1, <3>2
  <2>4. QED  BY <1>4, <2>1, <2>2, <2>3 DEF TicketsFit
<1>11. ASSUME NEW c \in 0 .. Modulus - 1, Minus(wait, c) = n
       PROVE  Minus(wait', c) = Len(order')
  BY <1>1, <1>2, <1>4, <1>5, <1>7, <1>11, MinusFacts
<1>12. CountsAgree'
  <2>1. lock = None => Minus(wait, notify) = n
    BY DEF NLIInv, CountsAgree
  <2>2. lock # None => Minus(wait, seen[lock]) = n /\ seen[lock] \in 0 .. Modulus - 1
    BY <1>1 DEF NLIInv, CountsAgree
  <2>3. QED  BY <1>1, <1>2, <1>11, <2>1, <2>2 DEF CountsAgree
<1>13. QED  BY <1>10, <1>12

\* notifyListNotifyOne wakes the first of those who have tickets.
LEMMA OneKeepsTickets ==
  ASSUME NLIInv, NEW g \in Goroutines, NotifyOneLocked(g)
  PROVE  TicketsFit' /\ CountsAgree'
<1>1. /\ st[g] = "onelock" /\ lock = None /\ UNCHANGED <<wait, lock, ticket, seen>>
      /\ wait \in 0 .. Modulus - 1 /\ notify \in 0 .. Modulus - 1
      /\ order \in Seq(Goroutines) /\ IsInjective(order) /\ Range(order) \subseteq Waiting
      /\ st \in [Goroutines -> Stages]
  BY DEF NotifyOneLocked, NLIInv, NLTypeOK, TicketsFit
<1>2. g \notin Range(order)
  BY <1>1 DEF Waiting
<1>3. CASE notify = wait
  <2>1. st' = [st EXCEPT ![g] = "out"] /\ UNCHANGED <<notify, order>>
    BY <1>3 DEF NotifyOneLocked, Goto
  <2>2. TicketsFit'
    <3>1. \A f \in Range(order) : st'[f] \in {"ticket", "parked"} /\ ticket'[f] = ticket[f]
      BY <1>1, <1>2, <2>1 DEF Waiting
    <3>2. \A f \in Goroutines : st'[f] = "ticket" => st[f] = "ticket" /\ ticket'[f] = ticket[f]
      BY <1>1, <2>1
    <3>3. QED  BY <1>1, <2>1, <3>1, <3>2, TicketsKept, OrderFacts DEF NLIInv
  <2>3. QED  BY <1>1, <2>1, <2>2 DEF NLIInv, CountsAgree
<1>4. CASE notify # wait
  <2> DEFINE n == Len(order)
             f == Head(order)
  <2>1. /\ order # <<>> /\ order' = Tail(order) /\ notify' = Plus1(notify)
        /\ \E s \in {"out", "ready"} : st' = [st EXCEPT ![g] = s]
    BY <1>4, OneIsNotified
  <2>2. /\ f \in Range(order) /\ f = order[1] /\ order' \in Seq(Goroutines) /\ IsInjective(order')
        /\ Range(order') = Range(order) \ {f} /\ Len(order') = n - 1 /\ n \in Nat /\ n >= 1
        /\ \A i \in 1 .. n - 1 : order'[i] = order[i + 1]
    BY <1>1, <2>1, TailOnce, OrderFacts
  <2>3. DOMAIN order' = 1 .. n - 1 /\ DOMAIN order = 1 .. n
    BY <2>2, SeqFacts, OrderFacts
  <2>4. TicketsFit'
    <3>1. (Range(order) \subseteq Waiting)'
      BY <1>1, <1>2, <2>1, <2>2 DEF Waiting
    <3>2. \A i \in DOMAIN order' : Minus(wait', ticket'[order'[i]]) = Len(order') - i + 1
      <4> SUFFICES ASSUME NEW i \in 1 .. n - 1
                   PROVE  Minus(wait, ticket[order[i + 1]]) = n - 1 - i + 1
        BY <1>1, <2>2, <2>3
      <4>1. i + 1 \in DOMAIN order
        BY <2>2, <2>3
      <4>2. Minus(wait, ticket[order[i + 1]]) = n - (i + 1) + 1
        BY <4>1 DEF NLIInv, TicketsFit
      <4>3. QED  BY <2>2, <4>2
    <3>3. ASSUME NEW h \in Goroutines, st'[h] = "ticket"
          PROVE  Minus(wait', ticket'[h]) <= MaxLag /\ (h \in Range(order') \/ Minus(wait', ticket'[h]) > Len(order'))
      <4>1. st[h] = "ticket" /\ ticket'[h] = ticket[h] /\ wait' = wait
        BY <1>1, <2>1, <3>3
      <4>2. Minus(wait, ticket[h]) <= MaxLag /\ (h \in Range(order) \/ Minus(wait, ticket[h]) > n)
        BY <4>1 DEF NLIInv, TicketsFit
      <4>3. Minus(wait, ticket[f]) = n
        <5>1. Minus(wait, ticket[order[1]]) = n - 1 + 1
          BY <2>2, <2>3 DEF NLIInv, TicketsFit
        <5>2. QED  BY <2>2, <5>1
      <4>4. Minus(wait, ticket[h]) \in Nat
        BY <1>1, MinusIs DEF NLIInv, NLTypeOK
      <4>5. QED  BY <2>2, <4>1, <4>2, <4>3, <4>4
    <3>4. QED  BY <2>2, <3>1, <3>2, <3>3 DEF TicketsFit
  <2>5. Minus(wait, Plus1(notify)) = n - 1
    <3>1. Minus(wait, notify) = n
      BY <1>1 DEF NLIInv, CountsAgree
    <3>2. QED  BY <1>1, <1>4, <3>1, MinusFacts
  <2>6. QED  BY <1>1, <2>1, <2>2, <2>4, <2>5 DEF CountsAgree
<1>5. QED  BY <1>3, <1>4

\* notifyListNotifyAll wakes them all.
LEMMA AllKeepsTickets ==
  ASSUME NLIInv, NEW g \in Goroutines, NotifyAllLocked(g)
  PROVE  TicketsFit' /\ CountsAgree'
<1>1. /\ st[g] = "alllock" /\ lock' = g /\ st' = [st EXCEPT ![g] = "store"] /\ order' = <<>>
      /\ seen' = [seen EXCEPT ![g] = wait] /\ UNCHANGED <<wait, notify, ticket>>
      /\ wait \in 0 .. Modulus - 1 /\ st \in [Goroutines -> Stages] /\ seen \in [Goroutines -> 0 .. Modulus - 1]
      /\ \A f \in Goroutines : ticket[f] \in 0 .. Modulus - 1
  BY DEF NotifyAllLocked, Goto, NLIInv, NLTypeOK
<1>2. Len(order') = 0 /\ IsInjective(order') /\ Range(order') = {} /\ DOMAIN order' = {}
  BY <1>1, EmptyOnce
<1>3. ASSUME NEW h \in Goroutines, st'[h] = "ticket"
      PROVE  Minus(wait', ticket'[h]) <= MaxLag /\ Minus(wait', ticket'[h]) > 0
  <2>1. st[h] = "ticket"
    BY <1>1, <1>3
  <2>2. Minus(wait, ticket[h]) <= MaxLag /\ (h \in Range(order) \/ Minus(wait, ticket[h]) > Len(order))
    BY <2>1 DEF NLIInv, TicketsFit
  <2>3. h \in Range(order) => Minus(wait, ticket[h]) \in 1 .. Len(order)
    BY OrderFacts
  <2>4. Minus(wait, ticket[h]) \in 0 .. Modulus - 1 /\ Len(order) \in Nat /\ Modulus \in Nat
    BY <1>1, MinusIs, OrderFacts, Half
  <2>5. Minus(wait, ticket[h]) > 0
    BY <2>2, <2>3, <2>4
  <2>6. QED  BY <1>1, <2>2, <2>5
<1>4. TicketsFit'
  BY <1>2, <1>3 DEF TicketsFit
<1>5. CountsAgree'
  <2>1. Minus(wait, wait) = 0
    BY <1>1, MinusFacts
  <2>2. seen'[g] = wait /\ g # None
    BY <1>1, NotifyListAssumption
  <2>3. QED  BY <1>1, <1>2, <2>1, <2>2 DEF CountsAgree
<1>6. QED  BY <1>4, <1>5

\* Every step keeps the tickets in order.
LEMMA KeepsTickets ==
  ASSUME NLIInv, NEW g \in Goroutines, NLStep(g)
  PROVE  TicketsFit' /\ CountsAgree'
<1>1. /\ TicketsFit /\ Range(order) \subseteq Waiting /\ Range(order) \subseteq Goroutines
      /\ st \in [Goroutines -> Stages] /\ ticket \in [Goroutines -> 0 .. Modulus - 1] /\ lock \in Goroutines \cup {None}
      /\ seen \in [Goroutines -> 0 .. Modulus - 1]
      /\ CountsAgree /\ (\A f \in Goroutines : st[f] = "store" <=> lock = f)
  BY OrderFacts DEF NLIInv, NLTypeOK, TicketsFit, ListFits
<1>2. ASSUME UNCHANGED <<order, wait>>, NEW h \in Goroutines, h \notin Range(order),
             \A f \in Goroutines \ {g, h} : st'[f] = st[f], st'[g] # "ticket", st'[h] # "ticket",
             g \in Range(order) => st'[g] = "parked",
             \A f \in Goroutines \ {h} : f = g \/ ticket'[f] = ticket[f],
             g \in Range(order) => ticket'[g] = ticket[g]
      PROVE  TicketsFit'
  BY <1>1, <1>2, TicketsKept DEF Waiting
<1>3. CASE Wait(g)
  <2>1. /\ lock = None /\ st[g] = "ticket" /\ UNCHANGED <<order, wait, notify, lock>>
        /\ Less(ticket[g], notify) <=> g \notin Range(order)
    BY <1>3, TicketDecides DEF Wait
  <2>2. CASE Less(ticket[g], notify)
    <3>1. st' = [st EXCEPT ![g] = "out"] /\ ticket' = [ticket EXCEPT ![g] = 0]
      BY <1>3, <2>2 DEF Wait, Goto, Forget
    <3>2. TicketsFit'
      BY <1>1, <1>2, <2>1, <2>2, <3>1
    <3>3. QED  BY <1>1, <2>1, <3>2 DEF CountsAgree
  <2>3. CASE ~Less(ticket[g], notify)
    <3>1. st' = [st EXCEPT ![g] = "parked"] /\ ticket' = ticket
      BY <1>3, <2>3 DEF Wait, Goto
    <3>2. TicketsFit'
      BY <1>1, <2>1, <3>1, TicketsKept DEF Waiting
    <3>3. QED  BY <1>1, <2>1, <3>2 DEF CountsAgree
  <2>4. QED  BY <2>2, <2>3
<1>4. CASE NotifyOne(g) \/ NotifyAll(g)
  <2>1. /\ st[g] = "out" /\ UNCHANGED <<order, wait, notify, lock, ticket>>
        /\ \E s \in {"one", "all"} : st' = [st EXCEPT ![g] = s]
        /\ seen' = [seen EXCEPT ![g] = wait]
    BY <1>4 DEF NotifyOne, NotifyAll, Goto
  <2>2. g \notin Range(order)
    BY <1>1, <2>1 DEF Waiting
  <2>3. TicketsFit'
    BY <1>1, <1>2, <2>1, <2>2
  <2>4. lock # g
    BY <1>1, <2>1
  <2>5. QED  BY <1>1, <2>1, <2>3, <2>4 DEF CountsAgree
<1>5. CASE NotifyOneFast(g) \/ NotifyAllFast(g)
  <2>1. /\ st[g] \in {"one", "all"} /\ UNCHANGED <<order, wait, notify, lock>>
        /\ \E s \in {"out", "onelock", "alllock"} : st' = [st EXCEPT ![g] = s]
        /\ ticket' = [ticket EXCEPT ![g] = 0] /\ seen' = [seen EXCEPT ![g] = 0]
    BY <1>5 DEF NotifyOneFast, NotifyAllFast, Goto, Forget
  <2>2. g \notin Range(order)
    BY <1>1, <2>1 DEF Waiting
  <2>3. TicketsFit'
    BY <1>1, <1>2, <2>1, <2>2
  <2>4. lock # g
    BY <1>1, <2>1
  <2>5. QED  BY <1>1, <2>1, <2>3, <2>4 DEF CountsAgree
<1>6. CASE NotifyAllStore(g)
  <2>1. /\ st[g] = "store" /\ lock = g /\ UNCHANGED <<order, wait>> /\ lock' = None /\ notify' = seen[g]
        /\ \E s \in {"out", "ready"} : st' = [st EXCEPT ![g] = s]
        /\ ticket' = [ticket EXCEPT ![g] = 0]
    BY <1>1, <1>6 DEF NotifyAllStore, Goto, Forget
  <2>2. g \notin Range(order)
    BY <1>1, <2>1 DEF Waiting
  <2>3. TicketsFit'
    BY <1>1, <1>2, <2>1, <2>2
  <2>4. Minus(wait, seen[g]) = Len(order)
    BY <1>1, <2>1, NotifyListAssumption DEF CountsAgree
  <2>5. QED  BY <2>1, <2>3, <2>4 DEF CountsAgree
<1>7. CASE Ready(g)
  <2> DEFINE s == Head(ready[g])
  <2>1. ready[g] # <<>> /\ ready[g] \in Seq(Goroutines) /\ IsInjective(ready[g])
        /\ Range(ready[g]) \subseteq {f \in Goroutines : st[f] = "parked" /\ f \notin Range(order)}
    BY <1>7 DEF NLIInv, ReadyFits, Ready, NLTypeOK
  <2>2. s \in Goroutines /\ st[s] = "parked" /\ s \notin Range(order)
    BY <2>1, TailOnce
  <2>3. /\ st[g] = "ready" /\ UNCHANGED <<order, wait, notify, lock>>
        /\ \E x \in {"out", "ready"} : st' = [st EXCEPT ![g] = x, ![s] = "out"]
        /\ ticket' = [ticket EXCEPT ![s] = 0] /\ seen' = [seen EXCEPT ![g] = 0]
    BY <1>7 DEF Ready, Forget
  <2>4. g \notin Range(order)
    BY <1>1, <2>3 DEF Waiting
  <2>5. TicketsFit'
    BY <1>1, <1>2, <2>2, <2>3, <2>4
  <2>6. lock # g
    BY <1>1, <2>3
  <2>7. QED  BY <1>1, <2>3, <2>5, <2>6 DEF CountsAgree
<1>8. QED  BY <1>3, <1>4, <1>5, <1>6, <1>7, AddKeepsTickets, OneKeepsTickets, AllKeepsTickets DEF NLStep, Notifying

\* Every step keeps the list what it should be.
LEMMA KeepsList ==
  ASSUME NLIInv, NEW g \in Goroutines, NLStep(g)
  PROVE  ListFits'
<1>1. /\ list \in Seq(Goroutines) /\ IsInjective(list)
      /\ Range(list) = {f \in Range(order) : st[f] = "parked"}
      /\ lock # None => list = <<>>
      /\ \A f \in Goroutines : st[f] = "store" <=> lock = f
      /\ order \in Seq(Goroutines) /\ IsInjective(order)
      /\ Range(order) \subseteq Waiting /\ Range(order) \subseteq Goroutines
      /\ st \in [Goroutines -> Stages] /\ lock \in Goroutines \cup {None}
  BY OrderFacts DEF NLIInv, NLTypeOK, TicketsFit, ListFits
<1>2. CASE Add(g)
  <2>1. /\ st[g] = "out" /\ st' = [st EXCEPT ![g] = "ticket"] /\ order' = Append(order, g)
        /\ UNCHANGED <<list, lock>>
    BY <1>2 DEF Add, Goto
  <2>2. g \notin Range(order)
    BY <1>1, <2>1 DEF Waiting
  <2>3. Range(order') = Range(order) \cup {g}
    BY <1>1, <2>1, <2>2, AppendOnce
  <2>4. Range(list') = {f \in Range(order') : st'[f] = "parked"}
    BY <1>1, <2>1, <2>2, <2>3
  <2>5. QED  BY <1>1, <2>1, <2>4 DEF ListFits
<1>3. CASE Wait(g)
  <2>1. /\ lock = None /\ st[g] = "ticket" /\ UNCHANGED <<order, lock>>
        /\ Less(ticket[g], notify) <=> g \notin Range(order)
    BY <1>3, TicketDecides DEF Wait
  <2>2. CASE Less(ticket[g], notify)
    <3>1. st' = [st EXCEPT ![g] = "out"] /\ list' = list
      BY <1>3, <2>2 DEF Wait, Goto
    <3>2. Range(list') = {f \in Range(order') : st'[f] = "parked"}
      BY <1>1, <2>1, <2>2, <3>1
    <3>3. QED  BY <1>1, <2>1, <3>1, <3>2 DEF ListFits
  <2>3. CASE ~Less(ticket[g], notify)
    <3>1. st' = [st EXCEPT ![g] = "parked"] /\ list' = Append(list, g)
      BY <1>3, <2>3 DEF Wait, Goto
    <3>2. g \notin Range(list)
      BY <1>1, <2>1
    <3>3. Range(list') = Range(list) \cup {g} /\ IsInjective(list')
      BY <1>1, <3>1, <3>2, AppendOnce
    <3>4. Range(list') = {f \in Range(order') : st'[f] = "parked"}
      BY <1>1, <2>1, <2>3, <3>1, <3>3
    <3>5. QED  BY <1>1, <2>1, <3>1, <3>3, <3>4 DEF ListFits
  <2>4. QED  BY <2>2, <2>3
<1>4. CASE NotifyOne(g) \/ NotifyAll(g) \/ NotifyOneFast(g) \/ NotifyAllFast(g) \/ (NotifyOneLocked(g) /\ notify = wait)
  <2>1. /\ st[g] \in {"out", "one", "all", "onelock"} /\ UNCHANGED <<order, lock, list>>
        /\ \E s \in {"one", "all", "out", "onelock", "alllock"} : st' = [st EXCEPT ![g] = s]
    BY <1>4 DEF NotifyOne, NotifyAll, NotifyOneFast, NotifyAllFast, NotifyOneLocked, Goto
  <2>2. Range(list') = {f \in Range(order') : st'[f] = "parked"}
    BY <1>1, <2>1 DEF Waiting
  <2>3. QED  BY <1>1, <2>1, <2>2 DEF ListFits
<1>5. CASE NotifyOneLocked(g) /\ notify # wait
  <2>1. /\ order # <<>> /\ order' = Tail(order) /\ Head(order) \in Range(order)
        /\ st[g] = "onelock" /\ lock = None /\ lock' = lock
    BY <1>5, OneIsNotified DEF NotifyOneLocked
  <2>2. Range(order') = Range(order) \ {Head(order)}
    BY <1>1, <2>1, TailOnce
  <2>3. CASE st[Head(order)] = "ticket" /\ st' = [st EXCEPT ![g] = "out"] /\ UNCHANGED <<list, ready>>
    <3>1. Range(list') = {f \in Range(order') : st'[f] = "parked"}
      BY <1>1, <2>1, <2>2, <2>3 DEF Waiting
    <3>2. QED  BY <1>1, <2>1, <2>3, <3>1 DEF ListFits
  <2>4. CASE /\ st[Head(order)] = "parked" /\ st' = [st EXCEPT ![g] = "ready"]
             /\ list' \in Seq(Goroutines) /\ IsInjective(list') /\ Range(list') = Range(list) \ {Head(order)}
    <3>1. Range(list') = {f \in Range(order') : st'[f] = "parked"}
      BY <1>1, <2>1, <2>2, <2>4 DEF Waiting
    <3>2. QED  BY <1>1, <2>1, <2>4, <3>1 DEF ListFits
  <2>5. QED  BY <1>5, <2>3, <2>4, OneIsNotified
<1>6. CASE NotifyAllLocked(g)
  <2>1. /\ st[g] = "alllock" /\ lock = None /\ lock' = g /\ st' = [st EXCEPT ![g] = "store"]
        /\ order' = <<>> /\ list' = <<>>
    BY <1>6 DEF NotifyAllLocked, Goto
  <2>2. IsInjective(list') /\ Range(list') = {} /\ Range(order') = {}
    BY <2>1, EmptyOnce
  <2>3. QED  BY <1>1, <2>1, <2>2, NotifyListAssumption DEF ListFits
<1>7. CASE NotifyAllStore(g)
  <2>1. /\ st[g] = "store" /\ lock' = None /\ UNCHANGED <<order, list>>
        /\ \E s \in {"out", "ready"} : st' = [st EXCEPT ![g] = s]
    BY <1>7 DEF NotifyAllStore, Goto
  <2>2. Range(list') = {f \in Range(order') : st'[f] = "parked"}
    BY <1>1, <2>1 DEF Waiting
  <2>3. \A f \in Goroutines : st'[f] = "store" <=> lock' = f
    BY <1>1, <2>1, NotifyListAssumption
  <2>4. QED  BY <1>1, <2>1, <2>2, <2>3 DEF ListFits
<1>8. CASE Ready(g)
  <2> DEFINE s == Head(ready[g])
  <2>1. ready[g] # <<>> /\ ready[g] \in Seq(Goroutines) /\ IsInjective(ready[g])
        /\ Range(ready[g]) \subseteq {f \in Goroutines : st[f] = "parked" /\ f \notin Range(order)}
    BY <1>8 DEF NLIInv, ReadyFits, Ready, NLTypeOK
  <2>2. s \in Goroutines /\ st[s] = "parked" /\ s \notin Range(order)
    BY <2>1, TailOnce
  <2>3. /\ st[g] = "ready" /\ UNCHANGED <<order, lock, list>>
        /\ \E x \in {"out", "ready"} : st' = [st EXCEPT ![g] = x, ![s] = "out"]
    BY <1>8 DEF Ready
  <2>4. Range(list') = {f \in Range(order') : st'[f] = "parked"}
    BY <1>1, <2>2, <2>3 DEF Waiting
  <2>5. QED  BY <1>1, <2>2, <2>3, <2>4 DEF ListFits
<1>9. QED  BY <1>2, <1>3, <1>4, <1>5, <1>6, <1>7, <1>8 DEF NLStep, Notifying

\* Who is to be readied stays parked until then.
LEMMA ReadyKept ==
  ASSUME ReadyFits, UNCHANGED ready, Range(order') \cap {f \in Goroutines : st[f] = "parked"} \subseteq Range(order),
         \A f \in Goroutines : /\ st[f] = "parked" /\ f \notin Range(order) => st'[f] = "parked"
                               /\ st'[f] = "parked" /\ f \notin Range(order') => st[f] = "parked" /\ f \notin Range(order)
                               /\ st[f] \in {"store", "ready"} => st'[f] = st[f] \/ (st'[f] = "ready" /\ ready[f] # <<>>) \/ ready[f] = <<>>
                               /\ st'[f] = "ready" => st[f] = "ready" \/ ready[f] # <<>>
  PROVE  ReadyFits'
BY DEF ReadyFits

\* Every step keeps those to be readied what they should be.
LEMMA KeepsReady ==
  ASSUME NLIInv, NEW g \in Goroutines, NLStep(g)
  PROVE  ReadyFits'
<1>1. /\ list \in Seq(Goroutines) /\ IsInjective(list)
      /\ Range(list) = {f \in Range(order) : st[f] = "parked"}
      /\ order \in Seq(Goroutines) /\ IsInjective(order)
      /\ Range(order) \subseteq Waiting /\ Range(order) \subseteq Goroutines
      /\ st \in [Goroutines -> Stages] /\ ready \in [Goroutines -> Seq(Goroutines)]
      /\ ReadyFits
  BY OrderFacts DEF NLIInv, NLTypeOK, TicketsFit, ListFits
<1>2. CASE Add(g)
  <2>1. /\ st[g] = "out" /\ st' = [st EXCEPT ![g] = "ticket"] /\ order' = Append(order, g) /\ UNCHANGED ready
    BY <1>2 DEF Add, Goto
  <2>2. g \notin Range(order)
    BY <1>1, <2>1 DEF Waiting
  <2>3. Range(order') = Range(order) \cup {g}
    BY <1>1, <2>1, <2>2, AppendOnce
  <2>4. QED  BY <1>1, <2>1, <2>2, <2>3, ReadyKept
<1>3. CASE Wait(g)
  <2>1. /\ lock = None /\ st[g] = "ticket" /\ UNCHANGED <<order, ready>>
        /\ Less(ticket[g], notify) <=> g \notin Range(order)
        /\ st' = [st EXCEPT ![g] = IF Less(ticket[g], notify) THEN "out" ELSE "parked"]
    BY <1>3, TicketDecides DEF Wait, Goto
  <2>2. QED  BY <1>1, <2>1, ReadyKept
<1>4. CASE NotifyOne(g) \/ NotifyAll(g) \/ NotifyOneFast(g) \/ NotifyAllFast(g) \/ (NotifyOneLocked(g) /\ notify = wait)
  <2>1. /\ st[g] \in {"out", "one", "all", "onelock"} /\ UNCHANGED <<order, ready>>
        /\ \E s \in {"one", "all", "out", "onelock", "alllock"} : st' = [st EXCEPT ![g] = s]
    BY <1>4 DEF NotifyOne, NotifyAll, NotifyOneFast, NotifyAllFast, NotifyOneLocked, Goto
  <2>2. QED  BY <1>1, <2>1, ReadyKept
<1>5. CASE NotifyOneLocked(g) /\ notify # wait
  <2> DEFINE s == Head(order)
  <2>1. order # <<>> /\ order' = Tail(order) /\ s \in Range(order) /\ st[g] = "onelock"
    BY <1>5, OneIsNotified DEF NotifyOneLocked
  <2>2. Range(order') = Range(order) \ {s}
    BY <1>1, <2>1, TailOnce
  <2>3. CASE st[s] = "ticket" /\ st' = [st EXCEPT ![g] = "out"] /\ UNCHANGED <<list, ready>>
    BY <1>1, <2>1, <2>2, <2>3, ReadyKept
  <2>4. CASE st[s] = "parked" /\ st' = [st EXCEPT ![g] = "ready"] /\ ready' = [ready EXCEPT ![g] = <<s>>]
    <3>1. Range(<<s>>) = {s} /\ IsInjective(<<s>>) /\ <<s>> # <<>>
      BY DEF Range, IsInjective
    <3>2. \A h \in Goroutines : s \notin Range(ready[h])
      BY <1>1, <2>1 DEF ReadyFits
    <3>3. s # g /\ g \notin Range(order)
      BY <1>1, <2>1, <2>4 DEF Waiting
    <3>4. ready[g] = <<>>
      BY <1>1, <2>1 DEF ReadyFits
    <3> DEFINE ready2 == ready'
               st2 == st'
               ord2 == Range(order')
    <3>5. /\ ready2[g] = <<s>> /\ \A h \in Goroutines \ {g} : ready2[h] = ready[h]
          /\ st2[g] = "ready" /\ \A h \in Goroutines \ {g} : st2[h] = st[h]
          /\ ord2 = Range(order) \ {s}
      BY <1>1, <2>2, <2>4
    <3> HIDE DEF ready2, st2, ord2
    <3>6. \A h \in Goroutines :
            /\ IsInjective(ready2[h])
            /\ Range(ready2[h]) \subseteq {f \in Goroutines : st2[f] = "parked" /\ f \notin ord2}
            /\ ready2[h] # <<>> => st2[h] \in {"store", "ready"}
            /\ st2[h] = "ready" => ready2[h] # <<>>
      <4> SUFFICES ASSUME NEW h \in Goroutines
                   PROVE  /\ IsInjective(ready2[h])
                          /\ Range(ready2[h]) \subseteq {f \in Goroutines : st2[f] = "parked" /\ f \notin ord2}
                          /\ ready2[h] # <<>> => st2[h] \in {"store", "ready"}
                          /\ st2[h] = "ready" => ready2[h] # <<>>
        OBVIOUS
      <4>1. CASE h = g
        BY <1>1, <2>1, <2>4, <3>1, <3>3, <3>5, <4>1
      <4>2. CASE h # g
        <5>1. /\ IsInjective(ready[h])
              /\ Range(ready[h]) \subseteq {f \in Goroutines : st[f] = "parked" /\ f \notin Range(order)}
              /\ ready[h] # <<>> => st[h] \in {"store", "ready"}
              /\ st[h] = "ready" => ready[h] # <<>>
          BY <1>1 DEF ReadyFits
        <5>2. QED  BY <2>1, <3>5, <4>2, <5>1
      <4>3. QED  BY <4>1, <4>2
    <3>7. \A h, k \in Goroutines : h # k => Range(ready2[h]) \cap Range(ready2[k]) = {}
      <4>1. \A h \in Goroutines \ {g} : Range(ready2[h]) \cap Range(ready2[g]) = {}
        BY <3>1, <3>2, <3>5
      <4>2. \A h, k \in Goroutines : h # k => Range(ready[h]) \cap Range(ready[k]) = {}
        BY <1>1 DEF ReadyFits
      <4> SUFFICES ASSUME NEW h \in Goroutines, NEW k \in Goroutines, h # k
                   PROVE  Range(ready2[h]) \cap Range(ready2[k]) = {}
        OBVIOUS
      <4>3. CASE h = g \/ k = g
        BY <4>1, <4>3
      <4>4. CASE h # g /\ k # g
        BY <3>5, <4>2, <4>4
      <4>5. QED  BY <4>3, <4>4
    <3>8. \A f \in Goroutines : st2[f] = "parked" /\ f \notin ord2 => \E h \in Goroutines : f \in Range(ready2[h])
      <4> SUFFICES ASSUME NEW f \in Goroutines, st2[f] = "parked", f \notin ord2
                   PROVE  \E h \in Goroutines : f \in Range(ready2[h])
        OBVIOUS
      <4>1. CASE f = s
        BY <3>1, <3>5, <4>1
      <4>2. CASE f # s
        <5>1. st[f] = "parked" /\ f \notin Range(order)
          BY <3>5, <4>2
        <5>2. PICK h \in Goroutines : f \in Range(ready[h])
          BY <1>1, <5>1 DEF ReadyFits
        <5>3. h # g
          BY <3>4, <5>2, EmptyOnce
        <5>4. QED  BY <3>5, <5>2, <5>3
      <4>3. QED  BY <4>1, <4>2
    <3>9. QED  BY <3>6, <3>7, <3>8 DEF ReadyFits, ready2, st2, ord2
  <2>5. QED  BY <1>5, <2>3, <2>4, OneIsNotified
<1>6. CASE NotifyAllLocked(g)
  <2>1. /\ st[g] = "alllock" /\ st' = [st EXCEPT ![g] = "store"]
        /\ order' = <<>> /\ ready' = [ready EXCEPT ![g] = list]
    BY <1>6 DEF NotifyAllLocked, Goto
  <2>2. Range(order') = {}
    BY <2>1, EmptyOnce
  <2>3. ready[g] = <<>> /\ Range(ready[g]) = {}
    BY <1>1, <2>1, EmptyOnce DEF ReadyFits
  <2>4. \A h \in Goroutines : Range(ready[h]) \cap Range(list) = {}
    BY <1>1 DEF ReadyFits
  <2> DEFINE ready2 == ready'
             st2 == st'
  <2>5. /\ ready2[g] = list /\ \A h \in Goroutines \ {g} : ready2[h] = ready[h]
        /\ st2[g] = "store" /\ \A h \in Goroutines \ {g} : st2[h] = st[h]
    BY <1>1, <2>1
  <2> HIDE DEF ready2, st2
  <2>6. \A h \in Goroutines :
          /\ IsInjective(ready2[h])
          /\ Range(ready2[h]) \subseteq {f \in Goroutines : st2[f] = "parked"}
          /\ ready2[h] # <<>> => st2[h] \in {"store", "ready"}
          /\ st2[h] = "ready" => ready2[h] # <<>>
    <3> SUFFICES ASSUME NEW h \in Goroutines
                 PROVE  /\ IsInjective(ready2[h])
                        /\ Range(ready2[h]) \subseteq {f \in Goroutines : st2[f] = "parked"}
                        /\ ready2[h] # <<>> => st2[h] \in {"store", "ready"}
                        /\ st2[h] = "ready" => ready2[h] # <<>>
      OBVIOUS
    <3>1. CASE h = g
      BY <1>1, <2>1, <2>5, <3>1
    <3>2. CASE h # g
      <4>1. /\ IsInjective(ready[h])
            /\ Range(ready[h]) \subseteq {f \in Goroutines : st[f] = "parked"}
            /\ ready[h] # <<>> => st[h] \in {"store", "ready"}
            /\ st[h] = "ready" => ready[h] # <<>>
        BY <1>1 DEF ReadyFits
      <4>2. QED  BY <2>1, <2>5, <3>2, <4>1
    <3>3. QED  BY <3>1, <3>2
  <2>7. \A h, k \in Goroutines : h # k => Range(ready2[h]) \cap Range(ready2[k]) = {}
    <3>1. \A h, k \in Goroutines : h # k => Range(ready[h]) \cap Range(ready[k]) = {}
      BY <1>1 DEF ReadyFits
    <3>2. SUFFICES ASSUME NEW h \in Goroutines, NEW k \in Goroutines, h # k
                   PROVE  Range(ready2[h]) \cap Range(ready2[k]) = {}
      OBVIOUS
    <3>3. CASE h = g
      BY <2>4, <2>5, <3>2, <3>3
    <3>4. CASE k = g
      BY <2>4, <2>5, <3>2, <3>4
    <3>5. CASE h # g /\ k # g
      BY <2>5, <3>1, <3>2, <3>5
    <3>6. QED  BY <3>3, <3>4, <3>5
  <2>8. \A f \in Goroutines : st2[f] = "parked" => \E h \in Goroutines : f \in Range(ready2[h])
    <3> SUFFICES ASSUME NEW f \in Goroutines, st2[f] = "parked"
                 PROVE  \E h \in Goroutines : f \in Range(ready2[h])
      OBVIOUS
    <3>1. st[f] = "parked"
      BY <2>5
    <3>2. CASE f \in Range(order)
      BY <1>1, <2>5, <3>1, <3>2
    <3>3. CASE f \notin Range(order)
      <4>1. PICK h \in Goroutines : f \in Range(ready[h])
        BY <1>1, <3>1, <3>3 DEF ReadyFits
      <4>2. QED  BY <2>3, <2>5, <4>1
    <3>4. QED  BY <3>2, <3>3
  <2>9. QED  BY <2>2, <2>6, <2>7, <2>8 DEF ReadyFits, ready2, st2
<1>7. CASE NotifyAllStore(g)
  <2>1. /\ st[g] = "store" /\ UNCHANGED <<order, ready>>
        /\ st' = [st EXCEPT ![g] = IF ready[g] = <<>> THEN "out" ELSE "ready"]
    BY <1>7 DEF NotifyAllStore, Goto
  <2>2. QED  BY <1>1, <2>1, ReadyKept
<1>8. CASE Ready(g)
  <2> DEFINE s == Head(ready[g])
             rest == Tail(ready[g])
  <2>1. ready[g] # <<>> /\ ready[g] \in Seq(Goroutines) /\ IsInjective(ready[g])
        /\ Range(ready[g]) \subseteq {f \in Goroutines : st[f] = "parked" /\ f \notin Range(order)}
    BY <1>8 DEF NLIInv, ReadyFits, Ready, NLTypeOK
  <2>2. /\ s \in Goroutines /\ st[s] = "parked" /\ s \notin Range(order) /\ s \in Range(ready[g])
        /\ IsInjective(rest) /\ Range(rest) = Range(ready[g]) \ {s}
    BY <2>1, TailOnce
  <2>3. /\ st[g] = "ready" /\ UNCHANGED order
        /\ st' = [st EXCEPT ![g] = IF rest = <<>> THEN "out" ELSE "ready", ![s] = "out"]
        /\ ready' = [ready EXCEPT ![g] = rest]
    BY <1>8 DEF Ready
  <2> DEFINE ready2 == ready'
             st2 == st'
  <2>4. /\ ready2[g] = rest /\ \A h \in Goroutines \ {g} : ready2[h] = ready[h]
        /\ st2[g] = (IF rest = <<>> THEN "out" ELSE "ready") /\ st2[s] = "out"
        /\ \A h \in Goroutines \ {g, s} : st2[h] = st[h]
    BY <1>1, <2>2, <2>3
  <2>5. \A h \in Goroutines \ {g} : s \notin Range(ready[h])
    BY <1>1, <2>2 DEF ReadyFits
  <2> HIDE DEF ready2, st2, s, rest
  <2>6. \A h \in Goroutines :
          /\ IsInjective(ready2[h])
          /\ Range(ready2[h]) \subseteq {f \in Goroutines : st2[f] = "parked" /\ f \notin Range(order)}
          /\ ready2[h] # <<>> => st2[h] \in {"store", "ready"}
          /\ st2[h] = "ready" => ready2[h] # <<>>
    <3> SUFFICES ASSUME NEW h \in Goroutines
                 PROVE  /\ IsInjective(ready2[h])
                        /\ Range(ready2[h]) \subseteq {f \in Goroutines : st2[f] = "parked" /\ f \notin Range(order)}
                        /\ ready2[h] # <<>> => st2[h] \in {"store", "ready"}
                        /\ st2[h] = "ready" => ready2[h] # <<>>
      OBVIOUS
    <3>1. /\ IsInjective(ready[h])
          /\ Range(ready[h]) \subseteq {f \in Goroutines : st[f] = "parked" /\ f \notin Range(order)}
          /\ ready[h] # <<>> => st[h] \in {"store", "ready"}
          /\ st[h] = "ready" => ready[h] # <<>>
      BY <1>1 DEF ReadyFits
    <3>2. CASE h = g
      BY <2>1, <2>2, <2>3, <2>4, <3>1, <3>2
    <3>3. CASE h = s /\ h # g
      BY <2>2, <2>3, <2>4, <2>5, <3>1, <3>3
    <3>4. CASE h \notin {g, s}
      BY <2>2, <2>3, <2>4, <2>5, <3>1, <3>4
    <3>5. QED  BY <3>2, <3>3, <3>4
  <2>7. \A h, k \in Goroutines : h # k => Range(ready2[h]) \cap Range(ready2[k]) = {}
    <3>1. \A h \in Goroutines : Range(ready2[h]) \subseteq Range(ready[h])
      BY <2>2, <2>4
    <3>2. \A h, k \in Goroutines : h # k => Range(ready[h]) \cap Range(ready[k]) = {}
      BY <1>1 DEF ReadyFits
    <3>3. QED  BY <3>1, <3>2
  <2>8. \A f \in Goroutines : st2[f] = "parked" /\ f \notin Range(order) => \E h \in Goroutines : f \in Range(ready2[h])
    <3> SUFFICES ASSUME NEW f \in Goroutines, st2[f] = "parked", f \notin Range(order)
                 PROVE  \E h \in Goroutines : f \in Range(ready2[h])
      OBVIOUS
    <3>1. f # s /\ f # g /\ st[f] = "parked"
      BY <2>2, <2>4
    <3>2. PICK h \in Goroutines : f \in Range(ready[h])
      BY <1>1, <3>1 DEF ReadyFits
    <3>3. QED  BY <2>2, <2>4, <3>1, <3>2
  <2>9. QED  BY <2>3, <2>6, <2>7, <2>8 DEF ReadyFits, ready2, st2
<1>9. QED  BY <1>2, <1>3, <1>4, <1>5, <1>6, <1>7, <1>8 DEF NLStep, Notifying

\* A NotifyAll that is about to store l.notify is not disturbed by most steps.
LEMMA StoreKept ==
  ASSUME StoreFits, UNCHANGED <<wait, notify, lock, order>>,
         lock # None => \A f \in Waiting \ Range(order) :
           \/ st'[f] = st[f] /\ (f \in Range(ready[lock]) => f \in Range(ready'[lock]))
           \/ st[f] = "parked" /\ f \notin Range(ready[lock])
  PROVE  StoreFits'
<1> SUFFICES ASSUME lock # None
             PROVE  \E old \in SUBSET (Waiting' \ Range(order)) :
                      /\ Minus(wait, notify) = Cardinality(old) + Len(order)
                      /\ \A f \in old : st'[f] = "parked" => f \in Range(ready'[lock])
  BY DEF StoreFits
<1>1. PICK old \in SUBSET (Waiting \ Range(order)) :
        /\ Minus(wait, notify) = Cardinality(old) + Len(order)
        /\ \A f \in old : st[f] = "parked" => f \in Range(ready[lock])
  BY DEF StoreFits
<1>2. \A f \in old : st'[f] = st[f] /\ (f \in Range(ready[lock]) => f \in Range(ready'[lock]))
  BY <1>1
<1>3. old \in SUBSET (Waiting' \ Range(order))
  BY <1>1, <1>2 DEF Waiting
<1>4. QED  BY <1>1, <1>2, <1>3

\* notifyListNotifyAll stores what it has read of wait under the lock.
LEMMA KeepsStore ==
  ASSUME NLIInv, NEW g \in Goroutines, NLStep(g)
  PROVE  StoreFits'
<1>1. /\ StoreFits /\ order \in Seq(Goroutines) /\ IsInjective(order) /\ Range(order) \subseteq Waiting
      /\ st \in [Goroutines -> Stages] /\ ready \in [Goroutines -> Seq(Goroutines)]
      /\ wait \in 0 .. Modulus - 1 /\ notify \in 0 .. Modulus - 1 /\ lock \in Goroutines \cup {None}
      /\ \A h \in Goroutines : st[h] = "store" <=> lock = h
  BY DEF NLIInv, NLTypeOK, TicketsFit, ListFits
<1>2. CASE Add(g)
  <2>1. /\ st[g] = "out" /\ st' = [st EXCEPT ![g] = "ticket"] /\ order' = Append(order, g)
        /\ wait' = Plus1(wait) /\ UNCHANGED <<ready, notify, lock>>
    BY <1>2 DEF Add, Goto
  <2>2. g \notin Range(order)
    BY <1>1, <2>1 DEF Waiting
  <2>3. Range(order') = Range(order) \cup {g} /\ Len(order') = Len(order) + 1
    BY <1>1, <2>1, <2>2, AppendOnce
  <2> SUFFICES ASSUME lock # None
               PROVE  \E old \in SUBSET (Waiting' \ Range(order')) :
                        /\ Minus(wait', notify) = Cardinality(old) + Len(order')
                        /\ \A f \in old : st'[f] = "parked" => f \in Range(ready[lock])
    BY <2>1 DEF StoreFits
  <2>4. PICK old \in SUBSET (Waiting \ Range(order)) :
          /\ Minus(wait, notify) = Cardinality(old) + Len(order)
          /\ \A f \in old : st[f] = "parked" => f \in Range(ready[lock])
    BY <1>1 DEF StoreFits
  <2>5. g \notin old /\ old \subseteq Goroutines
    BY <2>1, <2>4 DEF Waiting
  <2>6. Minus(wait, notify) < Modulus - 1
    <3>1. IsFiniteSet(old) /\ IsFiniteSet(Range(order)) /\ old \cap Range(order) = {}
      BY <1>1, <2>4, <2>5, SeqFacts, FS_Subset, NotifyListAssumption
    <3>2. /\ Cardinality(old \cup Range(order)) = Cardinality(old) + Cardinality(Range(order)) - Cardinality({})
          /\ Cardinality(old \cup Range(order) \cup {g}) = Cardinality(old \cup Range(order)) + 1
      <4> DEFINE both == old \cup Range(order)
      <4>1. IsFiniteSet(both) /\ Cardinality(both) = Cardinality(old) + Cardinality(Range(order)) - Cardinality({})
        BY <3>1, FS_Union
      <4>2. g \notin both
        BY <2>2, <2>5
      <4> HIDE DEF both
      <4>3. Cardinality(both \cup {g}) = Cardinality(both) + 1
        BY <4>1, <4>2, FS_AddElement
      <4>4. QED  BY <4>1, <4>3 DEF both
    <3>3. Cardinality(Range(order)) = Len(order) /\ Cardinality({}) = 0
      BY <1>1, LengthCounts, FS_EmptySet, NotifyListAssumption
    <3>4. old \cup Range(order) \cup {g} \subseteq Goroutines
      BY <1>1, <2>5, SeqFacts
    <3>5. Cardinality(old \cup Range(order) \cup {g}) <= Cardinality(Goroutines)
      BY <3>4, FS_Subset, NotifyListAssumption
    <3>6. Cardinality(old) \in Nat /\ Len(order) \in Nat /\ Cardinality(Goroutines) \in Nat
      BY <1>1, <3>1, FS_CardinalityType, NotifyListAssumption
    <3>7. Cardinality(old) + Len(order) + 1 <= Modulus \div 2
      BY <3>2, <3>3, <3>5, <3>6, Half, NotifyListAssumption
    <3>8. QED  BY <2>4, <3>6, <3>7, Half
  <2>7. Minus(wait', notify) = Minus(wait, notify) + 1
    <3>1. Minus(wait, notify) \in 0 .. Modulus - 1 /\ Modulus \in Nat
      BY <1>1, MinusIs, Half
    <3>2. Minus(wait, notify) # Modulus - 1
      BY <2>6, <3>1
    <3>3. QED  BY <1>1, <2>1, <3>2, MinusFacts
  <2>8. Cardinality(old) \in Nat /\ Len(order) \in Nat
    BY <1>1, <2>5, FS_Subset, FS_CardinalityType, NotifyListAssumption
  <2>9. old \in SUBSET (Waiting' \ Range(order')) /\ \A f \in old : st'[f] = "parked" => f \in Range(ready[lock])
    BY <1>1, <2>1, <2>3, <2>4, <2>5 DEF Waiting
  <2>10. Minus(wait', notify) = Cardinality(old) + Len(order')
    BY <2>3, <2>4, <2>7, <2>8
  <2>11. QED  BY <2>9, <2>10
<1>3. CASE Wait(g) \/ NotifyOneLocked(g)
  BY <1>3 DEF StoreFits, Wait, NotifyOneLocked
<1>4. CASE NotifyOne(g) \/ NotifyAll(g) \/ NotifyOneFast(g) \/ NotifyAllFast(g)
  <2>1. /\ st[g] \in {"out", "one", "all"} /\ UNCHANGED <<wait, notify, lock, order, ready>>
        /\ \E s \in {"one", "all", "out", "onelock", "alllock"} : st' = [st EXCEPT ![g] = s]
    BY <1>4 DEF NotifyOne, NotifyAll, NotifyOneFast, NotifyAllFast, Goto
  <2>2. \A f \in Waiting : st'[f] = st[f]
    BY <1>1, <2>1 DEF Waiting
  <2>3. QED  BY <1>1, <2>1, <2>2, StoreKept
<1>5. CASE NotifyAllLocked(g)
  <2>1. /\ st[g] = "alllock" /\ lock = None /\ lock' = g /\ st' = [st EXCEPT ![g] = "store"]
        /\ order' = <<>> /\ ready' = [ready EXCEPT ![g] = list] /\ UNCHANGED <<wait, notify>>
    BY <1>5 DEF NotifyAllLocked, Goto
  <2>2. Minus(wait, notify) = Cardinality(Range(order)) + Len(order')
    <3>1. Minus(wait, notify) = Len(order) /\ Cardinality(Range(order)) = Len(order) /\ Len(order) \in Nat
      BY <1>1, <2>1, LengthCounts, NotifyListAssumption DEF NLIInv, CountsAgree
    <3>2. QED  BY <2>1, <3>1
  <2>3. Range(order) \in SUBSET (Waiting' \ Range(order'))
    BY <1>1, <2>1, EmptyOnce DEF Waiting
  <2>4. \A f \in Range(order) : st'[f] = "parked" => f \in Range(ready'[lock'])
    BY <1>1, <2>1 DEF NLIInv, ListFits, Waiting
  <2>5. QED  BY <2>1, <2>2, <2>3, <2>4 DEF StoreFits
<1>6. CASE NotifyAllStore(g)
  BY <1>6 DEF StoreFits, NotifyAllStore
<1>7. CASE Ready(g)
  <2> DEFINE s == Head(ready[g])
  <2>1. ready[g] # <<>> /\ ready[g] \in Seq(Goroutines) /\ IsInjective(ready[g])
        /\ Range(ready[g]) \subseteq {f \in Goroutines : st[f] = "parked" /\ f \notin Range(order)}
    BY <1>7 DEF NLIInv, ReadyFits, Ready, NLTypeOK
  <2>2. s \in Goroutines /\ st[s] = "parked" /\ s \in Range(ready[g])
    BY <2>1, TailOnce
  <2>3. /\ st[g] = "ready" /\ UNCHANGED <<wait, notify, lock, order>>
        /\ \E x \in {"out", "ready"} : st' = [st EXCEPT ![g] = x, ![s] = "out"]
        /\ ready' = [ready EXCEPT ![g] = Tail(ready[g])]
    BY <1>7 DEF Ready
  <2>4. lock # None => lock # g /\ lock \in Goroutines
    BY <1>1, <2>3
  <2>5. lock # None => ready'[lock] = ready[lock] /\ s \notin Range(ready[lock])
    BY <1>1, <2>2, <2>3, <2>4 DEF NLIInv, ReadyFits
  <2>6. \A f \in Waiting : st'[f] = st[f] \/ f = s
    BY <1>1, <2>3 DEF Waiting
  <2>7. QED  BY <1>1, <2>2, <2>3, <2>5, <2>6, StoreKept
<1>8. QED  BY <1>2, <1>3, <1>4, <1>5, <1>6, <1>7 DEF NLStep, Notifying

\* What is known of a notifyList holds initially, and every step keeps it.
LEMMA NLInitially == NLInit => NLIInv
<1> SUFFICES ASSUME NLInit  PROVE  NLIInv
  OBVIOUS
<1>1. 0 \in 0 .. Modulus - 1 /\ Minus(0, 0) = 0
  BY Half, MinusFacts
<1>2. NLTypeOK
  BY <1>1 DEF NLInit, NLTypeOK, Stages
<1>3. IsInjective(<<>>) /\ Range(<<>>) = {} /\ DOMAIN <<>> = {}
  BY EmptyOnce
<1>4. TicketsFit /\ CountsAgree
  BY <1>1, <1>3 DEF NLInit, TicketsFit, CountsAgree
<1>5. ListFits /\ ReadyFits /\ StoreFits
  BY <1>3, NotifyListAssumption DEF NLInit, ListFits, ReadyFits, StoreFits
<1>6. QED  BY <1>2, <1>4, <1>5 DEF NLIInv

\* The steps of the list keep its invariant.
LEMMA NLKeeps == ASSUME NLIInv, NEW g \in Goroutines, NLStep(g)  PROVE  NLIInv'
BY NLTypes, KeepsTickets, KeepsList, KeepsReady, KeepsStore DEF NLIInv

\* So does what leaves it alone.
LEMMA NLUnchanged == ASSUME NLIInv, UNCHANGED nlvars  PROVE  NLIInv'
BY DEF nlvars, NLIInv, NLTypeOK, TicketsFit, CountsAgree, ListFits, ReadyFits, StoreFits, Waiting

-----------------------------------------------------------------------------
(* The steps of Cond. *)

\* Cond's steps are steps of the list or leave it alone.
LEMMA UserStep ==
  ASSUME NEW g \in Goroutines, Enter(g) \/ Produce(g) \/ WaitLock(g) \/ Proceed(g)
  PROVE  NLStep(g) \/ UNCHANGED nlvars
BY DEF Enter, Produce, WaitLock, Proceed, Consume, WaitBegin, WaitPark, WaitReturn, ProduceUnlock,
       Signal, Broadcast, Notify, Notified, Leave, NLStep

\* The list keeps its invariant whatever its user does.
LEMMA ListInvariance ==
  ASSUME NLIInv, [Next]_vars
  PROVE  NLIInv'
<1>1. CASE UNCHANGED vars
  BY <1>1, NLUnchanged DEF vars
<1>2. ASSUME NEW g \in Goroutines, Enter(g) \/ Produce(g) \/ WaitLock(g) \/ Proceed(g)
      PROVE  NLIInv'
  BY <1>2, UserStep, NLKeeps, NLUnchanged
<1>3. QED  BY <1>1, <1>2 DEF Next

\* Cond keeps its types.
LEMMA CondTypes ==
  ASSUME IInv, [Next]_vars
  PROVE  TypeOK'
<1>1. NLTypeOK'
  BY ListInvariance DEF IInv, NLIInv
<1>2. TypeOK /\ items \in Nat /\ MaxItems \in Nat
  BY CondAssumption DEF IInv, TypeOK
<1>3. CASE UNCHANGED vars
  BY <1>1, <1>2, <1>3 DEF vars, condvars, TypeOK
<1>4. ASSUME NEW g \in Goroutines, Enter(g) \/ Produce(g) \/ WaitLock(g) \/ Proceed(g)
      PROVE  TypeOK'
  <2> USE DEF At, Acquire, Release, PCs
  <2>1. CASE Enter(g) \/ WaitLock(g) \/ WaitReturn(g) \/ ProduceUnlock(g) \/ Notified(g) \/ Leave(g)
    BY <1>1, <1>2, <2>1 DEF TypeOK, Enter, WaitLock, WaitReturn, ProduceUnlock, Notified, Leave
  <2>2. CASE Produce(g)
    BY <1>1, <1>2, <2>2 DEF TypeOK, Produce
  <2>3. CASE Consume(g)
    BY <1>1, <1>2, <2>3 DEF TypeOK, Consume
  <2>4. CASE WaitBegin(g) \/ Signal(g) \/ Broadcast(g)
    BY <1>1, <1>2, <2>4 DEF TypeOK, WaitBegin, Signal, Broadcast
  <2>5. CASE WaitPark(g) \/ Notify(g)
    BY <1>1, <1>2, <2>5 DEF TypeOK, WaitPark, Notify, condvars
  <2>6. QED  BY <1>4, <2>1, <2>2, <2>3, <2>4, <2>5 DEF Proceed
<1>5. QED  BY <1>3, <1>4 DEF Next

\* A goroutine that is idle, or before or after its calls, is in none of the
\* functions of the list.
LEMMA OutsideIsOut ==
  ASSUME TypeOK, StageFits, NEW g \in Goroutines, pc[g] \notin {"unlock", "wait", "free", "held"}
  PROVE  st[g] = "out"
BY DEF StageFits, TypeOK, NLTypeOK, Stages

\* Cond and the list agree where a goroutine is.
LEMMA KeepsStages ==
  ASSUME IInv, [Next]_vars
  PROVE  StageFits'
<1>1. /\ TypeOK /\ StageFits /\ NLIInv /\ pc \in [Goroutines -> PCs] /\ st \in [Goroutines -> Stages]
  BY DEF IInv, TypeOK, NLTypeOK
<1>2. CASE UNCHANGED vars
  BY <1>1, <1>2 DEF vars, condvars, nlvars, StageFits
<1>3. ASSUME NEW g \in Goroutines, Enter(g) \/ Produce(g) \/ WaitLock(g) \/ Proceed(g)
      PROVE  StageFits'
  <2> USE DEF At
  <2>1. CASE Enter(g) \/ Produce(g) \/ WaitLock(g) \/ Consume(g) \/ ProduceUnlock(g) \/ Leave(g)
    <3>1. /\ st' = st /\ pc[g] \in {"idle", "relock", "test", "put", "leave"}
          /\ \E to \in {"test", "put", "leave", "notify", "idle"} : pc' = [pc EXCEPT ![g] = to]
      BY <2>1 DEF Enter, Produce, WaitLock, Consume, ProduceUnlock, Leave, nlvars
    <3>2. st[g] = "out"
      BY <1>1, <3>1, OutsideIsOut
    <3>3. QED  BY <1>1, <3>1, <3>2 DEF StageFits
  <2>2. CASE WaitReturn(g) \/ Notified(g)
    <3>1. /\ st' = st /\ st[g] = "out"
          /\ \E to \in {"relock", "leave", "idle"} : pc' = [pc EXCEPT ![g] = to]
      BY <2>2 DEF WaitReturn, Notified, nlvars
    <3>2. QED  BY <1>1, <3>1 DEF StageFits
  <2>3. CASE WaitBegin(g)
    <3>1. \/ pc' = [pc EXCEPT ![g] = "unlock"] /\ st' = [st EXCEPT ![g] = "ticket"]
          \/ pc[g] = "unlock" /\ pc' = [pc EXCEPT ![g] = "wait"] /\ st' = st
      BY <2>3 DEF WaitBegin, Add, Goto, nlvars
    <3>2. QED  BY <1>1, <3>1 DEF StageFits
  <2>4. CASE WaitPark(g)
    <3>1. /\ pc[g] = "wait" /\ pc' = pc /\ \E s \in {"out", "parked"} : st' = [st EXCEPT ![g] = s]
      BY <2>4 DEF WaitPark, Wait, Goto, condvars
    <3>2. QED  BY <1>1, <3>1 DEF StageFits
  <2>5. CASE Signal(g) \/ Broadcast(g)
    <3>1. /\ \E s \in {"one", "all"} : st' = [st EXCEPT ![g] = s]
          /\ \E to \in {"free", "held"} : pc' = [pc EXCEPT ![g] = to]
      BY <2>5 DEF Signal, Broadcast, NotifyOne, NotifyAll, Goto
    <3>2. QED  BY <1>1, <3>1 DEF StageFits
  <2>6. CASE Notify(g)
    <3>1. pc[g] \in {"free", "held"} /\ pc' = pc /\ Notifying(g)
      BY <2>6 DEF Notify, condvars
    <3>2. CASE Ready(g)
      <4>1. ready[g] # <<>> /\ ready[g] \in Seq(Goroutines) /\ IsInjective(ready[g])
            /\ Range(ready[g]) \subseteq {f \in Goroutines : st[f] = "parked" /\ f \notin Range(order)}
        BY <1>1, <3>2 DEF NLIInv, ReadyFits, Ready, NLTypeOK
      <4>2. PICK s \in Goroutines, x \in {"out", "ready"} :
              st[s] = "parked" /\ st' = [st EXCEPT ![g] = x, ![s] = "out"]
        BY <3>2, <4>1, TailOnce DEF Ready
      <4>3. QED  BY <1>1, <3>1, <4>2 DEF StageFits
    <3>3. CASE ~Ready(g)
      <4>1. \E s \in {"out", "onelock", "alllock", "store", "ready"} : st' = [st EXCEPT ![g] = s]
        BY <3>1, <3>3 DEF Notifying, NotifyOneFast, NotifyOneLocked, NotifyAllFast, NotifyAllLocked, NotifyAllStore, Goto
      <4>2. QED  BY <1>1, <3>1, <4>1 DEF StageFits
    <3>4. QED  BY <3>2, <3>3
  <2>7. QED  BY <1>3, <2>1, <2>2, <2>3, <2>4, <2>5, <2>6 DEF Proceed
<1>4. QED  BY <1>2, <1>3 DEF Next

\* Comparing how many goroutines are coming.
LEMMA ComingFinite == IsFiniteSet(Coming) /\ Cardinality(Coming) \in Nat
<1>1. Coming \subseteq Goroutines
  BY DEF Coming
<1>2. IsFiniteSet(Coming)
  BY <1>1, FS_Subset, NotifyListAssumption
<1>3. QED  BY <1>2, FS_CardinalityType

\* More are coming, if nobody leaves.
LEMMA MoreComing ==
  ASSUME IsFiniteSet(Coming), IsFiniteSet(Coming'), Coming \subseteq Coming'
  PROVE  Cardinality(Coming) <= Cardinality(Coming')
BY FS_Subset

\* One goes and another one comes.
LEMMA OneForOne ==
  ASSUME IsFiniteSet(Coming), IsFiniteSet(Coming'), NEW g, NEW f, f \notin Coming, f \in Coming',
         Coming \ {g} \subseteq Coming'
  PROVE  Cardinality(Coming) <= Cardinality(Coming')
<1> DEFINE less == Coming \ {g}
<1>1. IsFiniteSet(less) /\ Cardinality(less) = IF g \in Coming THEN Cardinality(Coming) - 1 ELSE Cardinality(Coming)
  BY FS_RemoveElement
<1>2. less \subseteq Coming' /\ f \notin less
  OBVIOUS
<1> HIDE DEF less
<1>3. IsFiniteSet(less \cup {f}) /\ Cardinality(less \cup {f}) = Cardinality(less) + 1
  BY <1>1, <1>2, FS_AddElement
<1>4. Cardinality(less \cup {f}) <= Cardinality(Coming')
  BY <1>2, FS_Subset
<1>5. Cardinality(Coming) \in Nat /\ Cardinality(Coming') \in Nat
  BY FS_CardinalityType
<1>6. QED  BY <1>1, <1>3, <1>4, <1>5

\* A step that takes away no goroutine that was coming.
LEMMA NobodyLeaves ==
  ASSUME IInv, items' = items, order' # <<>> => order # <<>>, Coming \subseteq Coming', TypeOK'
  PROVE  ItemsAreAnnounced'
<1>1. IsFiniteSet(Coming) /\ Cardinality(Coming) \in Nat
  BY ComingFinite
<1>2. Coming' \subseteq Goroutines
  BY DEF Coming
<1>3. IsFiniteSet(Coming') /\ Cardinality(Coming') \in Nat
  BY <1>2, FS_Subset, FS_CardinalityType, NotifyListAssumption
<1>4. Cardinality(Coming) <= Cardinality(Coming')
  BY <1>1, <1>3, MoreComing
<1>5. items \in Nat
  BY CondAssumption DEF IInv, TypeOK
<1>6. QED  BY <1>1, <1>3, <1>4, <1>5 DEF IInv, ItemsAreAnnounced

\* A notifier gives up only if no ticket is left.
LEMMA GivesUpRightly ==
  ASSUME NLIInv, notify = wait
  PROVE  order = <<>>
<1>1. wait \in 0 .. Modulus - 1 /\ Minus(wait, notify) = 0
  BY MinusFacts DEF NLIInv, NLTypeOK
<1>2. CASE lock = None
  BY <1>1, <1>2, OrderFacts DEF NLIInv, CountsAgree
<1>3. CASE lock # None
  <2>1. PICK old \in SUBSET (Waiting \ Range(order)) : 0 = Cardinality(old) + Len(order)
    BY <1>1, <1>3 DEF NLIInv, StoreFits
  <2>2. old \subseteq Goroutines
    BY DEF Waiting
  <2>3. Cardinality(old) \in Nat
    BY <2>2, FS_Subset, FS_CardinalityType, NotifyListAssumption
  <2>4. QED  BY <2>1, <2>3, OrderFacts
<1>4. QED  BY <1>2, <1>3

\* The steps outside the list.
LEMMA UserKeepsAnnounced ==
  ASSUME IInv, TypeOK', NEW g \in Goroutines,
         \/ Enter(g) \/ Produce(g) \/ WaitLock(g) \/ Consume(g) \/ WaitReturn(g)
         \/ ProduceUnlock(g) \/ Notified(g) \/ Leave(g) \/ (WaitBegin(g) /\ pc[g] = "unlock")
  PROVE  ItemsAreAnnounced'
<1>1. /\ TypeOK /\ StageFits /\ NLIInv /\ pc \in [Goroutines -> PCs]
      /\ Range(order) \subseteq Waiting
  BY DEF IInv, TypeOK, NLIInv, TicketsFit
<1>0. UNCHANGED <<st, order, seen, wait>>
  BY DEF Enter, Produce, WaitLock, Consume, WaitReturn, ProduceUnlock, Notified, Leave, WaitBegin, At, nlvars
<1> USE <1>0 DEF At
<1>2. CASE Enter(g) \/ WaitLock(g) \/ ProduceUnlock(g) \/ WaitReturn(g) \/ (WaitBegin(g) /\ pc[g] = "unlock")
  <2>1. /\ items' = items
        /\ \E to \in {"test", "notify", "relock", "wait"} :
             /\ pc' = [pc EXCEPT ![g] = to]
             /\ to = "wait" => pc[g] = "unlock"
    BY <1>2 DEF Enter, WaitLock, ProduceUnlock, WaitReturn, WaitBegin, Add
  <2>2. Coming \subseteq Coming'
    BY <1>1, <2>1 DEF Coming
  <2>3. QED  BY <1>1, <2>1, <2>2, NobodyLeaves
<1>3. CASE Notified(g) \/ Leave(g)
  <2>1. /\ items' = items /\ pc[g] \in {"free", "held", "leave"}
        /\ \E to \in {"idle", "leave"} : pc' = [pc EXCEPT ![g] = to]
        /\ pc[g] # "leave" => st[g] = "out"
    BY <1>3 DEF Notified, Leave
  <2>2. st[g] = "out"
    BY <1>1, <2>1, OutsideIsOut
  <2>3. Coming \subseteq Coming'
    BY <1>1, <2>1, <2>2 DEF Coming
  <2>4. QED  BY <1>1, <2>1, <2>3, NobodyLeaves
<1>4. Coming \subseteq Goroutines /\ Coming' \subseteq Goroutines
  BY DEF Coming
<1>5. /\ IsFiniteSet(Coming) /\ IsFiniteSet(Coming') /\ Cardinality(Coming) \in Nat /\ Cardinality(Coming') \in Nat
      /\ items \in Nat
  BY <1>4, FS_Subset, FS_CardinalityType, NotifyListAssumption, CondAssumption DEF IInv, TypeOK
<1>6. CASE Produce(g)
  <2>1. pc[g] = "idle" /\ pc' = [pc EXCEPT ![g] = "put"] /\ items' = items + 1
    BY <1>6 DEF Produce
  <2>2. st[g] = "out"
    BY <1>1, <2>1, OutsideIsOut
  <2>3. Coming' = Coming \cup {g} /\ g \notin Coming
    BY <1>1, <2>1, <2>2 DEF Coming
  <2>4. Cardinality(Coming') = Cardinality(Coming) + 1
    BY <1>5, <2>3, FS_AddElement
  <2>5. QED  BY <1>1, <1>5, <2>1, <2>4 DEF IInv, ItemsAreAnnounced
<1>7. CASE Consume(g)
  <2>1. pc[g] = "test" /\ pc' = [pc EXCEPT ![g] = "leave"] /\ items' = items - 1
    BY <1>7 DEF Consume
  <2>2. st[g] = "out"
    BY <1>1, <2>1, OutsideIsOut
  <2>3. Coming' = Coming \ {g} /\ g \in Coming
    BY <1>1, <2>1, <2>2 DEF Coming
  <2>4. Cardinality(Coming') = Cardinality(Coming) - 1
    BY <1>5, <2>3, FS_RemoveElement
  <2>5. QED  BY <1>1, <1>5, <2>1, <2>4 DEF IInv, ItemsAreAnnounced
<1>8. QED  BY <1>2, <1>3, <1>6, <1>7

\* The steps of the list.
LEMMA ListKeepsAnnounced ==
  ASSUME IInv, TypeOK', NEW g \in Goroutines, WaitBegin(g) \/ WaitPark(g) \/ Signal(g) \/ Broadcast(g) \/ Notify(g),
         WaitBegin(g) => pc[g] # "unlock"
  PROVE  ItemsAreAnnounced'
<1>1. /\ TypeOK /\ StageFits /\ NLIInv /\ pc \in [Goroutines -> PCs] /\ st \in [Goroutines -> Stages]
      /\ Range(order) \subseteq Waiting /\ order \in Seq(Goroutines) /\ IsInjective(order)
      /\ seen \in [Goroutines -> 0 .. Modulus - 1]
  BY DEF IInv, TypeOK, NLIInv, NLTypeOK, TicketsFit
<1> USE DEF At
<1>2. CASE WaitBegin(g)
  <2>1. items' = 0
    BY <1>2 DEF WaitBegin
  <2>2. Coming' \subseteq Goroutines
    BY DEF Coming
  <2>3. Cardinality(Coming') \in Nat
    BY <2>2, FS_Subset, FS_CardinalityType, NotifyListAssumption
  <2>4. QED  BY <2>1, <2>3 DEF ItemsAreAnnounced
<1>3. CASE WaitPark(g)
  <2>1. /\ pc[g] = "wait" /\ st[g] = "ticket" /\ pc' = pc /\ items' = items /\ UNCHANGED <<order, wait>>
        /\ \E s \in {"out", "parked"} : st' = [st EXCEPT ![g] = s]
        /\ seen' = seen \/ seen' = [seen EXCEPT ![g] = 0]
    BY <1>3 DEF WaitPark, Wait, Goto, Forget, condvars
  <2>2. Coming \subseteq Coming'
    BY <1>1, <2>1 DEF Coming
  <2>3. QED  BY <1>1, <2>1, <2>2, NobodyLeaves
<1>4. CASE Signal(g) \/ Broadcast(g)
  <2>1. /\ items' = items /\ UNCHANGED <<order, wait>> /\ seen' = [seen EXCEPT ![g] = wait]
        /\ \E s \in {"one", "all"} : st' = [st EXCEPT ![g] = s]
        /\ \E to \in {"free", "held"} : pc' = [pc EXCEPT ![g] = to]
    BY <1>4 DEF Signal, Broadcast, NotifyOne, NotifyAll, Goto
  <2>2. Coming \subseteq Coming'
    BY <1>1, <2>1 DEF Coming
  <2>3. QED  BY <1>1, <2>1, <2>2, NobodyLeaves
<1>5. CASE Notify(g)
  <2>1. pc[g] \in {"free", "held"} /\ pc' = pc /\ items' = items /\ Notifying(g)
    BY <1>5 DEF Notify, condvars
  <2>2. CASE NotifyOneFast(g) \/ NotifyAllFast(g)
    <3>1. /\ st[g] \in {"one", "all"} /\ UNCHANGED <<order, wait, notify>> /\ seen' = [seen EXCEPT ![g] = 0]
          /\ \/ seen[g] = notify /\ st' = [st EXCEPT ![g] = "out"]
             \/ \E s \in {"onelock", "alllock"} : st' = [st EXCEPT ![g] = s]
      BY <2>2 DEF NotifyOneFast, NotifyAllFast, Goto, Forget
    <3>2. CASE seen[g] = notify /\ notify = wait
      <4>1. order' = <<>>
        BY <1>1, <3>1, <3>2, GivesUpRightly
      <4>2. QED  BY <4>1 DEF ItemsAreAnnounced
    <3>3. CASE ~(seen[g] = notify /\ notify = wait)
      <4>1. Coming \subseteq Coming'
        BY <1>1, <2>1, <3>1, <3>3 DEF Coming
      <4>2. QED  BY <2>1, <3>1, <4>1, NobodyLeaves
    <3>4. QED  BY <3>2, <3>3
  <2>3. CASE NotifyOneLocked(g) /\ notify = wait
    <3>1. order' = order
      BY <2>3 DEF NotifyOneLocked
    <3>2. QED  BY <1>1, <2>3, <3>1, GivesUpRightly DEF ItemsAreAnnounced
  <2>4. CASE NotifyOneLocked(g) /\ notify # wait
    <3> DEFINE f == Head(order)
    <3>1. /\ order # <<>> /\ order' = Tail(order) /\ f \in Range(order) /\ st[g] = "onelock"
          /\ UNCHANGED <<wait, seen>> /\ \E s \in {"out", "ready"} : st' = [st EXCEPT ![g] = s]
      BY <1>1, <2>4, OneIsNotified DEF NotifyOneLocked
    <3>2. Range(order') = Range(order) \ {f}
      BY <1>1, <3>1, TailOnce
    <3>3. st[f] \in {"ticket", "parked"} /\ pc[f] \in {"unlock", "wait"} /\ f \in Goroutines
      BY <1>1, <3>1 DEF Waiting, StageFits
    <3> HIDE DEF f
    <3>4. f \notin Coming /\ f \in Coming'
      BY <2>1, <3>1, <3>2, <3>3 DEF Coming
    <3>5. Coming \ {g} \subseteq Coming'
      BY <1>1, <2>1, <3>1, <3>2 DEF Coming
    <3>6. Coming \subseteq Goroutines /\ Coming' \subseteq Goroutines
      BY DEF Coming
    <3>7. /\ IsFiniteSet(Coming) /\ IsFiniteSet(Coming') /\ Cardinality(Coming) \in Nat /\ Cardinality(Coming') \in Nat
      BY <3>6, FS_Subset, FS_CardinalityType, NotifyListAssumption
    <3>8. Cardinality(Coming) <= Cardinality(Coming')
      BY <3>4, <3>5, <3>7, OneForOne
    <3>9. items \in Nat
      BY <1>1, CondAssumption DEF TypeOK
    <3>10. QED  BY <2>1, <3>1, <3>7, <3>8, <3>9 DEF IInv, ItemsAreAnnounced
  <2>5. CASE NotifyAllLocked(g)
    BY <2>5 DEF NotifyAllLocked, ItemsAreAnnounced
  <2>6. CASE NotifyAllStore(g)
    <3>1. /\ st[g] = "store" /\ UNCHANGED <<order, wait>> /\ seen' = [seen EXCEPT ![g] = 0]
          /\ \E s \in {"out", "ready"} : st' = [st EXCEPT ![g] = s]
      BY <2>6 DEF NotifyAllStore, Goto, Forget
    <3>2. Coming \subseteq Coming'
      BY <1>1, <2>1, <3>1 DEF Coming
    <3>3. QED  BY <2>1, <3>1, <3>2, NobodyLeaves
  <2>7. CASE Ready(g)
    <3>1. ready[g] # <<>> /\ ready[g] \in Seq(Goroutines) /\ IsInjective(ready[g])
          /\ Range(ready[g]) \subseteq {f \in Goroutines : st[f] = "parked" /\ f \notin Range(order)}
      BY <1>1, <2>7 DEF NLIInv, ReadyFits, Ready, NLTypeOK
    <3>2. PICK s \in Goroutines, x \in {"out", "ready"} :
            st[s] = "parked" /\ st' = [st EXCEPT ![g] = x, ![s] = "out"]
      BY <2>7, <3>1, TailOnce DEF Ready
    <3>3. st[g] = "ready" /\ UNCHANGED <<order, wait>> /\ seen' = [seen EXCEPT ![g] = 0]
      BY <2>7 DEF Ready, Forget
    <3>4. Coming \subseteq Coming'
      BY <1>1, <2>1, <3>2, <3>3 DEF Coming
    <3>5. QED  BY <2>1, <3>3, <3>4, NobodyLeaves
  <2>8. QED  BY <2>1, <2>2, <2>3, <2>4, <2>5, <2>6, <2>7 DEF Notifying
<1>6. QED  BY <1>2, <1>3, <1>4, <1>5

\* Every step keeps somebody coming for each item.
LEMMA KeepsAnnounced ==
  ASSUME IInv, [Next]_vars
  PROVE  ItemsAreAnnounced'
<1>1. TypeOK'
  BY CondTypes
<1>2. CASE UNCHANGED vars
  BY <1>1, <1>2, NobodyLeaves DEF vars, condvars, nlvars, Coming
<1>3. ASSUME NEW g \in Goroutines, Enter(g) \/ Produce(g) \/ WaitLock(g) \/ Proceed(g)
      PROVE  ItemsAreAnnounced'
  BY <1>1, <1>3, UserKeepsAnnounced, ListKeepsAnnounced DEF Proceed
<1>4. QED  BY <1>2, <1>3 DEF Next

\* The inductive invariant: who is in order, in list and in ready, how far their
\* tickets lag behind, and who is coming for the items.
THEOREM Invariance == Spec => []IInv
<1>1. Init => IInv
  <2> SUFFICES ASSUME Init  PROVE  IInv
    OBVIOUS
  <2>1. NLIInv
    BY NLInitially DEF Init
  <2>2. TypeOK
    BY <2>1, CondAssumption DEF Init, TypeOK, PCs, NLIInv
  <2>3. StageFits /\ ItemsAreAnnounced
    BY DEF Init, NLInit, StageFits, ItemsAreAnnounced
  <2>4. QED  BY <2>1, <2>2, <2>3 DEF IInv
<1>2. IInv /\ [Next]_vars => IInv'
  <2> SUFFICES ASSUME IInv, [Next]_vars  PROVE  IInv'
    OBVIOUS
  <2>1. NLIInv'
    BY ListInvariance DEF IInv
  <2>2. QED  BY <2>1, CondTypes, KeepsStages, KeepsAnnounced DEF IInv
<1>3. QED  BY <1>1, <1>2, PTL DEF Spec

\* The counts of the notifyList say how many tickets are outstanding and no
\* goroutine parks that has been notified, however often the counts wrap around.
THEOREM Consistency == Spec => []TicketsConsistent
<1>1. IInv => TicketsConsistent
  BY DEF IInv, NLIInv, ListFits, TicketsConsistent, NoneParkedTooLate
<1>2. QED  BY <1>1, Invariance, PTL

\* Nobody sleeps in Wait beside an item that nobody is coming for.
THEOREM NobodyStranded == Spec => []NoStrandedItem
<1>1. IInv => NoStrandedItem
  <2> SUFFICES ASSUME IInv, \A g \in Goroutines : pc[g] = "idle" \/ (pc[g] = "wait" /\ st[g] = "parked"),
                      NEW f \in Goroutines, pc[f] # "idle"
               PROVE  items = 0
    BY DEF NoStrandedItem
  <2>1. TypeOK /\ StageFits /\ NLIInv
    BY DEF IInv
  <2>2. \A g \in Goroutines : (pc[g] = "idle" /\ st[g] = "out") \/ (pc[g] = "wait" /\ st[g] = "parked")
    <3>1. \A g \in Goroutines : pc[g] = "idle" => st[g] = "out"
      BY <2>1, OutsideIsOut
    <3>2. QED  BY <3>1
  <2>3. \A g \in Goroutines : Range(ready[g]) = {}
    BY <2>1, <2>2, EmptyOnce DEF NLIInv, ReadyFits
  <2>4. \A g \in Goroutines : pc[g] = "wait" => g \in Range(order)
    BY <2>1, <2>2, <2>3 DEF NLIInv, ReadyFits
  <2>5. order # <<>>
    BY <2>4, EmptyOnce
  <2>6. Coming = {}
    BY <2>2, <2>4 DEF Coming
  <2>7. items <= 0
    BY <2>5, <2>6, FS_EmptySet DEF IInv, ItemsAreAnnounced
  <2>8. QED  BY <2>1, <2>7, CondAssumption DEF TypeOK
<1>2. QED  BY <1>1, Invariance, PTL

-----------------------------------------------------------------------------
(* The list implements the waiting room of module CondQueue. *)

\* A step of the list is a step of the waiting room, or none.
LEMMA StepMaps ==
  ASSUME NLIInv, NEW g \in Goroutines, NLStep(g)
  PROVE  Abstract!Next \/ UNCHANGED Abstract!vars
<1> DEFINE woken == Waiting \ Range(order)
<1>1. /\ st \in [Goroutines -> Stages] /\ order \in Seq(Goroutines) /\ IsInjective(order)
      /\ Range(order) \subseteq Waiting /\ Abstract!Members = Range(order)
  BY DEF NLIInv, NLTypeOK, TicketsFit, Abstract!Members, Range
<1> USE DEF Abstract!vars
<1>2. CASE Add(g)
  <2>1. /\ st[g] = "out" /\ st' = [st EXCEPT ![g] = "ticket"] /\ order' = Append(order, g)
    BY <1>2 DEF Add, Goto
  <2>2. g \notin Waiting /\ Waiting' = Waiting \cup {g}
    BY <1>1, <2>1 DEF Waiting
  <2>3. Range(order') = Range(order) \cup {g}
    BY <1>1, <2>1, <2>2, AppendOnce
  <2>4. Abstract!Join(g)
    BY <1>1, <2>1, <2>2, <2>3 DEF Abstract!Join
  <2>5. QED  BY <2>4 DEF Abstract!Next
<1>3. CASE Wait(g)
  <2>1. lock = None /\ st[g] = "ticket" /\ order' = order
    BY <1>3 DEF Wait
  <2>2. Less(ticket[g], notify) <=> g \notin Range(order)
    BY <2>1, TicketDecides
  <2>3. CASE Less(ticket[g], notify)
    <3>1. st' = [st EXCEPT ![g] = "out"]
      BY <1>3, <2>3 DEF Wait, Goto
    <3>2. g \in woken /\ woken' = woken \ {g}
      BY <1>1, <2>1, <2>2, <2>3, <3>1 DEF Waiting
    <3>3. Abstract!Leave(g)
      BY <2>1, <3>2 DEF Abstract!Leave
    <3>4. QED  BY <3>3 DEF Abstract!Next
  <2>4. CASE ~Less(ticket[g], notify)
    <3>1. st' = [st EXCEPT ![g] = "parked"]
      BY <1>3, <2>4 DEF Wait, Goto
    <3>2. QED  BY <1>1, <2>1, <3>1 DEF Waiting
  <2>5. QED  BY <2>3, <2>4
<1>4. CASE NotifyOne(g) \/ NotifyAll(g) \/ NotifyOneFast(g) \/ NotifyAllFast(g) \/ NotifyAllStore(g)
           \/ (NotifyOneLocked(g) /\ notify = wait)
  <2>1. /\ st[g] \notin {"ticket", "parked"} /\ order' = order
        /\ \E s \in Stages \ {"ticket", "parked"} : st' = [st EXCEPT ![g] = s]
    BY <1>4 DEF NotifyOne, NotifyAll, NotifyOneFast, NotifyAllFast, NotifyAllStore, NotifyOneLocked, Goto, Stages
  <2>2. QED  BY <1>1, <2>1 DEF Waiting
<1>5. CASE NotifyOneLocked(g) /\ notify # wait
  <2>1. /\ order # <<>> /\ order' = Tail(order) /\ Head(order) \in Range(order) /\ st[g] = "onelock"
        /\ \E s \in {"out", "ready"} : st' = [st EXCEPT ![g] = s]
    BY <1>5, OneIsNotified DEF NotifyOneLocked
  <2>2. Range(order') = Range(order) \ {Head(order)} /\ Waiting' = Waiting
    BY <1>1, <2>1, TailOnce DEF Waiting
  <2>3. woken' = woken \cup {Head(order)}
    BY <1>1, <2>1, <2>2
  <2>4. Abstract!Signal
    BY <2>1, <2>3 DEF Abstract!Signal
  <2>5. QED  BY <2>4 DEF Abstract!Next
<1>6. CASE NotifyAllLocked(g)
  <2>1. st[g] = "alllock" /\ st' = [st EXCEPT ![g] = "store"] /\ order' = <<>>
    BY <1>6 DEF NotifyAllLocked, Goto
  <2>2. Waiting' = Waiting /\ Range(order') = {}
    BY <1>1, <2>1, EmptyOnce DEF Waiting
  <2>3. woken' = woken \cup Range(order)
    BY <1>1, <2>2
  <2>4. Abstract!Broadcast
    BY <1>1, <2>1, <2>3 DEF Abstract!Broadcast
  <2>5. QED  BY <2>4 DEF Abstract!Next
<1>7. CASE Ready(g)
  <2> DEFINE s == Head(ready[g])
  <2>1. ready[g] # <<>> /\ ready[g] \in Seq(Goroutines) /\ IsInjective(ready[g])
        /\ Range(ready[g]) \subseteq {f \in Goroutines : st[f] = "parked" /\ f \notin Range(order)}
    BY <1>7 DEF NLIInv, ReadyFits, Ready, NLTypeOK
  <2>2. s \in Goroutines /\ st[s] = "parked" /\ s \notin Range(order)
    BY <2>1, TailOnce
  <2>3. /\ st[g] = "ready" /\ order' = order
        /\ \E x \in {"out", "ready"} : st' = [st EXCEPT ![g] = x, ![s] = "out"]
    BY <1>7 DEF Ready
  <2> HIDE DEF s
  <2>4. s \in woken /\ woken' = woken \ {s}
    BY <1>1, <2>2, <2>3 DEF Waiting
  <2>5. Abstract!Leave(s)
    BY <2>3, <2>4 DEF Abstract!Leave
  <2>6. QED  BY <2>2, <2>5 DEF Abstract!Next
<1>8. QED  BY <1>2, <1>3, <1>4, <1>5, <1>6, <1>7 DEF NLStep, Notifying

\* Every run of Cond is a run of the waiting room: tickets are served in the order
\* they were taken, and Wait returns to nobody who was not woken.
THEOREM Refinement == Spec => ImplementsCondQueue
<1>1. Init => Abstract!Init
  BY DEF Init, NLInit, Abstract!Init, Waiting
<1>2. IInv /\ [Next]_vars => [Abstract!Next]_(Abstract!vars)
  <2> SUFFICES ASSUME IInv, [Next]_vars  PROVE  Abstract!Next \/ UNCHANGED Abstract!vars
    OBVIOUS
  <2>1. CASE UNCHANGED nlvars
    BY <2>1 DEF nlvars, Abstract!vars, Waiting
  <2>2. ASSUME NEW g \in Goroutines, NLStep(g)
        PROVE  Abstract!Next \/ UNCHANGED Abstract!vars
    BY <2>2, StepMaps DEF IInv
  <2>3. UNCHANGED nlvars \/ \E g \in Goroutines : NLStep(g)
    <3>1. CASE UNCHANGED vars
      BY <3>1 DEF vars
    <3>2. ASSUME NEW g \in Goroutines, Enter(g) \/ Produce(g) \/ WaitLock(g) \/ Proceed(g)
          PROVE  NLStep(g) \/ UNCHANGED nlvars
      BY <3>2, UserStep
    <3>3. QED  BY <3>1, <3>2 DEF Next
  <2>4. QED  BY <2>1, <2>2, <2>3
<1>3. QED  BY <1>1, <1>2, Invariance, PTL DEF Spec, ImplementsCondQueue, Abstract!Spec

=============================================================================
