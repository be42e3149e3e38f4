-------------------------------- MODULE Sched --------------------------------
(***************************************************************************)
(* The scheduler (src/go/src/runtime/proc.go): worker threads (M) that run *)
(* goroutines need a processor (P).  Work is queued per P, where only the  *)
(* owner puts and others steal, and in a global queue under sched.lock.    *)
(* Nobody is told which thread should run what; instead a thread without   *)
(* work spins, whoever submits work wakes a thread if a P is idle and      *)
(* nobody spins (wakep), and a thread that stops spinning drops nmspinning *)
(* first and looks at all the queues again ("delicate dance").             *)
(*                                                                         *)
(* Goroutines are counted, not named.  A critical section under sched.lock *)
(* is one step, and so is each access to a queue or a counter outside it.  *)
(***************************************************************************)
EXTENDS Naturals, FiniteSets, FiniteSetsExt

CONSTANTS
  Ms,       \* threads that may be created
  Ps,       \* processors: gomaxprocs of them
  Sysmon,   \* the monitor thread, which never has a P
  Nil,
  NGoroutines,
  RunqLen,  \* len(p.runq), 256 in the code
  MaxPolled \* goroutines that netpoll returns at once

\* Half a queue is what runqputslow moves and globrunqget takes at most.
ASSUME SchedAssumption ==
  /\ IsFiniteSet(Ms) /\ Sysmon \notin Ms
  /\ IsFiniteSet(Ps) /\ Nil \notin Ms \cup Ps
  /\ NGoroutines \in Nat \ {0} /\ MaxPolled \in Nat
  /\ RunqLen \in Nat /\ RunqLen \div 2 > 0

Threads == Ms \cup {Sysmon}
gomaxprocs == Cardinality(Ps)

\* Where a thread may be: not running, in the scheduler, or with a goroutine.
Locations ==
  {"none", "parked", "stopm", "sysmon", "throw"}
    \cup {"schedule", "top", "spin", "spin2", "steal", "release", "unspin", "recheck", "recheck2", "respin"}
    \cup {"netpoll", "polling", "polled", "inject", "inject2", "inject3"}
    \cup {"wakep", "wakep2", "startm", "startm2", "startm3", "handoff", "handoff2", "handoff3"}
    \cup {"found", "run", "syscall", "exit0"}

VARIABLES
  mpc,        \* where each thread is
  p,          \* m.p
  nextp,      \* m.nextp, set before the note m.park
  spinning,   \* the threads with m.spinning
  nmspinning, \* sched.nmspinning
  pidle,      \* sched.pidle, npidle its length, idlepMask its members
  psyscall,   \* the Ps whose status is _Psyscall
  midle,      \* sched.midle
  runq,       \* runq[q]: how many goroutines p.runq and p.runnext hold
  runqsize,   \* sched.runqsize
  waiting,    \* how many goroutines wait for an event
  polling,    \* somebody blocks in netpoll: sched.lastpoll is 0
  hand,       \* the P a thread has in its hands, not in m.p
  start,      \* arguments of startm, and the M it has chosen
  ret,        \* where startm returns to
  looked,       \* Ps that a loop over allp has passed
  overlooked, \* history: a P has become idle beside work, nobody having looked
  glist       \* goroutines from netpoll: Ms to start for them, others to queue

mvars == <<p, nextp, spinning>>
queues == <<runq, runqsize, waiting>>
idle == <<pidle, midle>>
locals == <<hand, start, ret, looked, glist>>
svars == <<mpc, mvars, nmspinning, idle, psyscall, queues, polling, locals, overlooked>>

NoGs == [n |-> 0, rest |-> 0]
NoStart == [p |-> Nil, m |-> Nil, spinning |-> FALSE]

SchedTypeOK ==
  /\ mpc \in [Threads -> Locations] /\ ret \in [Threads -> Locations \cup {Nil}]
  /\ p \in [Ms -> Ps \cup {Nil}] /\ nextp \in [Ms -> Ps \cup {Nil}]
  /\ spinning \subseteq Ms /\ nmspinning \in 0..Cardinality(Threads)
  /\ pidle \subseteq Ps /\ psyscall \subseteq Ps /\ midle \subseteq Ms
  /\ runq \in [Ps -> 0..RunqLen] /\ {runqsize, waiting} \subseteq 0..NGoroutines
  /\ {polling, overlooked} \subseteq BOOLEAN
  /\ hand \in [Threads -> Ps \cup {Nil}]
  /\ start \in [Threads -> [p : Ps \cup {Nil}, m : Ms \cup {Nil}, spinning : BOOLEAN]]
  /\ looked \in [Ms -> SUBSET Ps] /\ glist \in [Ms -> [n : 0..NGoroutines, rest : 0..NGoroutines]]

\* The first thread runs the main goroutine; the other Ps are idle.
SchedInit ==
  \E m0 \in Ms, p0 \in Ps :
    /\ mpc = [t \in Threads |-> IF t = m0 THEN "run" ELSE IF t = Sysmon THEN "sysmon" ELSE "none"]
    /\ p = [m \in Ms |-> IF m = m0 THEN p0 ELSE Nil]
    /\ nextp = [m \in Ms |-> Nil]
    /\ spinning = {} /\ nmspinning = 0
    /\ pidle = Ps \ {p0} /\ psyscall = {} /\ midle = {}
    /\ runq = [q \in Ps |-> 0] /\ runqsize = 0 /\ waiting = NGoroutines - 1
    /\ polling = FALSE
    /\ hand = [t \in Threads |-> Nil]
    /\ start = [t \in Threads |-> NoStart]
    /\ ret = [t \in Threads |-> "schedule"]
    /\ looked = [m \in Ms |-> {}] /\ glist = [m \in Ms |-> NoGs] /\ overlooked = FALSE

Go(t, l) == mpc' = [mpc EXCEPT ![t] = l]
Moves(t, l, next) == mpc[t] = l /\ Go(t, next)
Return(t) == Go(t, ret[t]) /\ ret' = [ret EXCEPT ![t] = Nil]

-----------------------------------------------------------------------------
(* Queues. *)

\* runqput, runqputslow: if the queue is full, half of it goes with the
\* goroutine to the global queue.
runqput(q) ==
  IF runq[q] < RunqLen
  THEN runq' = [runq EXCEPT ![q] = @ + 1] /\ UNCHANGED runqsize
  ELSE /\ runq' = [runq EXCEPT ![q] = @ - RunqLen \div 2]
       /\ runqsize' = runqsize + RunqLen \div 2 + 1

\* globrunqget: one goroutine to run, and others for the queue of q.
globrunqget(q, max) ==
  /\ runqsize > 0
  /\ LET share == {runqsize \div gomaxprocs + 1, runqsize, RunqLen \div 2}
         n == Min(IF max > 0 THEN share \cup {max} ELSE share)
     IN /\ runqsize' = runqsize - n
        /\ runq' = [runq EXCEPT ![q] = @ + n - 1]

\* runqsteal: half of the goroutines of q2, rounded up, one of them to run.
runqsteal(q, q2) ==
  /\ runq[q2] > 0
  /\ LET n == runq[q2] - runq[q2] \div 2
     IN runq' = [runq EXCEPT ![q2] = @ - n, ![q] = @ + n - 1]
  /\ UNCHANGED runqsize

\* Work that only another look at the queues of the Ps would find.
LocalWork == \E q \in Ps : runq[q] > 0
Work == LocalWork \/ runqsize > 0

-----------------------------------------------------------------------------
(* Starting threads. *)

\* startm(q, spin) is called; it returns to l.
CallStartm(t, q, spin, l) ==
  /\ Go(t, "startm")
  /\ start' = [start EXCEPT ![t] = [p |-> q, m |-> Nil, spinning |-> spin]]
  /\ ret' = [ret EXCEPT ![t] = l]

\* wakep is called after work was submitted; it returns to l.
CallWakep(t, l) == Go(t, "wakep") /\ ret' = [ret EXCEPT ![t] = l]

\* wakep: nobody is woken if no P is idle.
WakepIdle(t) ==
  /\ mpc[t] = "wakep"
  /\ IF pidle = {} THEN Return(t) ELSE Go(t, "wakep2") /\ UNCHANGED ret
  /\ UNCHANGED <<mvars, nmspinning, idle, psyscall, queues, polling, hand, start, looked, glist, overlooked>>

\* wakep: nor if somebody spins.
Wakep(t) ==
  /\ mpc[t] = "wakep2"
  /\ IF nmspinning # 0
     THEN Return(t) /\ UNCHANGED <<nmspinning, start>>
     ELSE nmspinning' = 1 /\ CallStartm(t, Nil, TRUE, ret[t])
  /\ UNCHANGED <<mvars, idle, psyscall, queues, polling, hand, looked, glist, overlooked>>

\* startm: a P, unless the caller brought one, and a thread, new if none is idle.
Startm(t) ==
  /\ mpc[t] = "startm"
  /\ \E q \in IF start[t].p = Nil THEN pidle ELSE {start[t].p},
        m \in IF midle = {} THEN {n \in Ms : mpc[n] = "none"} ELSE midle :
       /\ \A u \in Threads : start[u].m # m
       /\ pidle' = pidle \ {q} /\ midle' = midle \ {m}
       /\ start' = [start EXCEPT ![t] = [@ EXCEPT !.p = q, !.m = m]]
  /\ Go(t, "startm2")
  /\ UNCHANGED <<mvars, nmspinning, psyscall, queues, polling, hand, ret, looked, glist, overlooked>>

\* Mutation: the caller's increment is not undone.
StartmFailsQuietly(t) ==
  /\ mpc[t] = "startm" /\ start[t].p = Nil /\ pidle = {}
  /\ Return(t)
  /\ start' = [start EXCEPT ![t] = NoStart]
  /\ UNCHANGED <<mvars, nmspinning, idle, psyscall, queues, polling, hand, looked, glist, overlooked>>

\* startm: no P is left, and the caller's increment is undone.
StartmFails(t) ==
  /\ mpc[t] = "startm" /\ start[t].p = Nil /\ pidle = {}
  /\ IF start[t].spinning THEN Go(t, "startm3") /\ UNCHANGED ret ELSE Return(t)
  /\ start' = [start EXCEPT ![t] = NoStart]
  /\ UNCHANGED <<mvars, nmspinning, idle, psyscall, queues, polling, hand, looked, glist, overlooked>>
StartmUndo(t) ==
  /\ mpc[t] = "startm3" /\ Return(t)
  /\ nmspinning' = nmspinning - 1
  /\ overlooked' = (overlooked \/ (pidle # {} /\ Work))
  /\ UNCHANGED <<mvars, idle, psyscall, queues, polling, hand, start, looked, glist>>

\* startm: the thread gets the P and m.spinning, and its note.
StartmWake(t) ==
  /\ mpc[t] = "startm2"
  /\ LET s == start[t] IN
       IF s.m \in spinning \/ nextp[s.m] # Nil \/ (s.spinning /\ runq[s.p] > 0)
       THEN Go(t, "throw") /\ UNCHANGED <<spinning, nextp, start, ret>>
       ELSE /\ mpc' = [mpc EXCEPT ![t] = ret[t], ![s.m] = "parked"]
            /\ spinning' = IF s.spinning THEN spinning \cup {s.m} ELSE spinning
            /\ nextp' = [nextp EXCEPT ![s.m] = s.p]
            /\ start' = [start EXCEPT ![t] = NoStart]
            /\ ret' = [ret EXCEPT ![t] = Nil]
  /\ UNCHANGED <<p, nmspinning, idle, psyscall, queues, polling, hand, looked, glist, overlooked>>

\* stopm after mPark, and mstart1: the thread has its P.
Unpark(m) ==
  /\ mpc[m] = "parked" /\ nextp[m] # Nil
  /\ p' = [p EXCEPT ![m] = nextp[m]]
  /\ nextp' = [nextp EXCEPT ![m] = Nil]
  /\ Return(m)
  /\ UNCHANGED <<spinning, nmspinning, idle, psyscall, queues, polling, hand, start, looked, glist, overlooked>>

-----------------------------------------------------------------------------
(* What a running goroutine does. *)

\* ready (called by goready), newproc: a goroutine is made runnable, then wakep
\* is called.
Goready(m) ==
  /\ mpc[m] = "run" /\ waiting > 0
  /\ waiting' = waiting - 1
  /\ runqput(p[m])
  /\ CallWakep(m, "run")
  /\ UNCHANGED <<mvars, nmspinning, idle, psyscall, polling, hand, start, looked, glist, overlooked>>

\* park_m, goexit0: the goroutine waits, or ends and may be started anew.
Park(m) ==
  /\ Moves(m, "run", "schedule")
  /\ waiting' = waiting + 1
  /\ UNCHANGED <<mvars, nmspinning, idle, psyscall, runq, runqsize, polling, locals, overlooked>>

\* goschedImpl: the goroutine yields, or is preempted.
Gosched(m) ==
  /\ Moves(m, "run", "schedule")
  /\ runqsize' = runqsize + 1
  /\ overlooked' = (overlooked \/ pidle # {})
  /\ UNCHANGED <<mvars, nmspinning, idle, psyscall, runq, waiting, polling, locals>>

\* reentersyscall: the P is left behind, in _Psyscall.
Entersyscall(m) ==
  /\ Moves(m, "run", "syscall")
  /\ psyscall' = psyscall \cup {p[m]}
  /\ hand' = [hand EXCEPT ![m] = p[m]]
  /\ p' = [p EXCEPT ![m] = Nil]
  /\ UNCHANGED <<nextp, spinning, nmspinning, idle, queues, polling, start, ret, looked, glist, overlooked>>

\* Mutation: the old P is taken back also if it is idle.
ExitsyscallIdle(m) ==
  /\ mpc[m] = "syscall"
  /\ hand' = [hand EXCEPT ![m] = Nil]
  /\ IF hand[m] \in psyscall \cup pidle
     THEN /\ Go(m, "run")
          /\ psyscall' = psyscall \ {hand[m]}
          /\ p' = [p EXCEPT ![m] = hand[m]]
     ELSE Go(m, "exit0") /\ UNCHANGED <<psyscall, p>>
  /\ UNCHANGED <<nextp, spinning, nmspinning, idle, queues, polling, start, ret, looked, glist, overlooked>>

\* exitsyscallfast: the old P is taken back if it is in a system call, even if
\* another thread has left it there since; otherwise an idle one is tried.
Exitsyscall(m) ==
  /\ mpc[m] = "syscall"
  /\ hand' = [hand EXCEPT ![m] = Nil]
  /\ IF hand[m] \in psyscall
     THEN /\ Go(m, "run")
          /\ psyscall' = psyscall \ {hand[m]}
          /\ p' = [p EXCEPT ![m] = hand[m]]
     ELSE Go(m, "exit0") /\ UNCHANGED <<psyscall, p>>
  /\ UNCHANGED <<nextp, spinning, nmspinning, idle, queues, polling, start, ret, looked, glist, overlooked>>

\* pidleget for m, which goes to l.
GetP(m, l) ==
  /\ \E q \in pidle : pidle' = pidle \ {q} /\ p' = [p EXCEPT ![m] = q]
  /\ Go(m, l)
  /\ UNCHANGED <<runqsize, midle>>

\* exitsyscallfast_pidle, exitsyscall0: another P if one is idle; otherwise the
\* goroutine goes to the global queue.
Exit0(m) ==
  /\ mpc[m] = "exit0"
  /\ IF pidle # {} THEN GetP(m, "run") /\ UNCHANGED ret
     ELSE /\ Go(m, "stopm") /\ ret' = [ret EXCEPT ![m] = "schedule"]
          /\ runqsize' = runqsize + 1
          /\ UNCHANGED <<idle, p>>
  /\ UNCHANGED <<nextp, spinning, nmspinning, psyscall, runq, waiting, polling, hand, start, looked, glist, overlooked>>

-----------------------------------------------------------------------------
(* schedule and findrunnable. *)

\* A goroutine is found: it is run, but a spinning thread stops spinning first.
GotG(m) == Go(m, IF m \in spinning THEN "found" ELSE "run")

\* schedule: once in a while the global queue comes first.
ScheduleGlobal(m) ==
  /\ mpc[m] = "schedule" /\ GotG(m)
  /\ globrunqget(p[m], 1)
  /\ UNCHANGED <<mvars, nmspinning, idle, psyscall, waiting, polling, locals, overlooked>>

\* schedule, findrunnable: the P's own queue, which nobody else puts to, and
\* then the global one.
RunqGet(m) ==
  /\ mpc[m] \in {"schedule", "top"}
  /\ IF runq[p[m]] > 0
     THEN /\ IF mpc[m] = "schedule" /\ m \in spinning THEN Go(m, "throw") ELSE GotG(m)
          /\ runq' = [runq EXCEPT ![p[m]] = @ - 1]
          /\ UNCHANGED runqsize
     ELSE IF runqsize > 0 THEN globrunqget(p[m], 0) /\ GotG(m)
     ELSE Go(m, "spin") /\ UNCHANGED <<runq, runqsize>>
  /\ UNCHANGED <<mvars, nmspinning, idle, psyscall, waiting, polling, locals, overlooked>>

\* Limit the number of spinning Ms to half the number of busy Ps.
MaySpin == 2 * nmspinning < gomaxprocs - Cardinality(pidle)

\* findrunnable: whether to look for work elsewhere at all.
Spin(m) ==
  /\ mpc[m] = "spin"
  /\ Go(m, IF m \in spinning THEN "steal" ELSE IF MaySpin THEN "spin2" ELSE "release")
  /\ UNCHANGED <<mvars, nmspinning, idle, psyscall, queues, polling, locals, overlooked>>

\* m.spinning is set, and counted.
StartSpinning(m, l, next) ==
  /\ Moves(m, l, next)
  /\ spinning' = spinning \cup {m}
  /\ nmspinning' = nmspinning + 1
  /\ ret' = [ret EXCEPT ![m] = Nil]
  /\ UNCHANGED <<p, nextp, idle, psyscall, queues, polling, hand, start, looked, glist, overlooked>>

\* m.spinning is cleared, and uncounted.
StopSpinning(m, next) ==
  /\ Go(m, next)
  /\ spinning' = spinning \ {m}
  /\ nmspinning' = nmspinning - 1

\* A loop over allp, but for the P own, has passed q; at its end m goes to l.
Passed(m, q, own, l) ==
  IF looked[m] \cup {q, own} = Ps \cup {own}
  THEN Go(m, l) /\ looked' = [looked EXCEPT ![m] = {}]
  ELSE looked' = [looked EXCEPT ![m] = @ \cup {q}] /\ UNCHANGED mpc

\* stealWork: another P that is not idle has something to steal.
Steal(m) ==
  /\ mpc[m] = "steal" /\ GotG(m)
  /\ \E q \in Ps \ (pidle \cup {p[m]}) : runqsteal(p[m], q)
  /\ looked' = [looked EXCEPT ![m] = {}]
  /\ UNCHANGED <<mvars, nmspinning, idle, psyscall, waiting, polling, hand, start, ret, glist, overlooked>>

\* stealWork, the last of its tries: nothing at q.
StealNothing(m) ==
  /\ mpc[m] = "steal"
  /\ \E q \in Ps \ (looked[m] \cup {p[m]}) :
       /\ q \in pidle \/ runq[q] = 0
       /\ Passed(m, q, p[m], "release")
  /\ UNCHANGED <<mvars, nmspinning, idle, psyscall, queues, polling, hand, start, ret, glist, overlooked>>

\* findrunnable: "return P and block", after a last look at the global queue.
ReturnP(m) ==
  /\ mpc[m] = "release"
  /\ IF runqsize > 0
     THEN GotG(m) /\ globrunqget(p[m], 0) /\ UNCHANGED <<pidle, p, ret, overlooked>>
     ELSE /\ Go(m, IF runq[p[m]] > 0 THEN "throw" ELSE IF m \in spinning THEN "unspin" ELSE "netpoll")
          /\ pidle' = pidle \cup {p[m]}
          /\ p' = [p EXCEPT ![m] = Nil]
          /\ overlooked' = (overlooked \/ (m \notin spinning /\ LocalWork))
          /\ ret' = [ret EXCEPT ![m] = IF m \in spinning THEN "respin" ELSE "top"]   \* wasSpinning
          /\ UNCHANGED <<runq, runqsize>>
  /\ UNCHANGED <<nextp, spinning, nmspinning, midle, psyscall, waiting, polling, hand, start, looked, glist>>

\* Mutation: the queues are not checked again.
UnspinUnchecked(m) ==
  /\ mpc[m] = "unspin" /\ StopSpinning(m, "netpoll")
  /\ overlooked' = (runqsize > 0)
  /\ UNCHANGED <<p, nextp, idle, psyscall, queues, polling, locals>>

\* findrunnable: "We must drop nmspinning first and then check all sources again".
Unspin(m) ==
  /\ mpc[m] = "unspin" /\ StopSpinning(m, "recheck")
  /\ overlooked' = (runqsize > 0)
  /\ UNCHANGED <<p, nextp, idle, psyscall, queues, polling, locals>>

\* checkRunqsNoP: a queue that is not empty is found, and a P needed to steal.
Recheck(m) ==
  /\ mpc[m] = "recheck"
  /\ \E q \in Ps \ looked[m] :
       IF q \notin pidle /\ runq[q] > 0
       THEN Go(m, "recheck2") /\ looked' = [looked EXCEPT ![m] = {}]
       ELSE Passed(m, q, Nil, "netpoll")
  /\ UNCHANGED <<mvars, nmspinning, idle, psyscall, queues, polling, hand, start, ret, glist, overlooked>>
RecheckP(m) ==
  /\ mpc[m] = "recheck2"
  /\ IF pidle # {} THEN GetP(m, "respin") ELSE Go(m, "netpoll") /\ UNCHANGED <<pidle, p, runqsize, midle>>
  /\ UNCHANGED <<nextp, spinning, nmspinning, psyscall, runq, waiting, polling, locals, overlooked>>

\* findrunnable: one thread without a P may block in the network poller.
Netpoll(m) ==
  /\ Moves(m, "netpoll", "polling") /\ ~polling /\ waiting > 0
  /\ polling' = TRUE
  /\ UNCHANGED <<mvars, nmspinning, idle, psyscall, queues, locals, overlooked>>

\* findrunnable: the poller has some goroutines, or was only interrupted.
Polled(m) ==
  /\ Moves(m, "polling", "polled")
  /\ polling' = FALSE
  /\ \E k \in 0..Min({waiting, MaxPolled}) :
       waiting' = waiting - k /\ glist' = [glist EXCEPT ![m].rest = k]
  /\ UNCHANGED <<mvars, nmspinning, idle, psyscall, runq, runqsize, hand, start, ret, looked, overlooked>>

\* findrunnable: with a P the first of them is run, or without any the search
\* begins again; the others are injected.
PolledP(m) ==
  /\ mpc[m] = "polled"
  /\ LET k == glist[m].rest IN
       IF pidle # {}
       THEN /\ GetP(m, IF k = 0 THEN ret[m] ELSE IF k = 1 THEN "run" ELSE "inject")
            /\ glist' = [glist EXCEPT ![m].rest = Max({k - 1, 0})]
            /\ ret' = [ret EXCEPT ![m] = IF k = 0 /\ @ = "respin" THEN @ ELSE Nil]
       ELSE /\ Go(m, IF k = 0 THEN "stopm" ELSE "inject")
            /\ ret' = [ret EXCEPT ![m] = "top"]
            /\ UNCHANGED <<pidle, p, runqsize, midle, glist>>
  /\ UNCHANGED <<nextp, spinning, nmspinning, psyscall, runq, waiting, polling, hand, start, looked, overlooked>>

\* injectglist: how many of them other threads are to take from the global
\* queue: all if m has no P, and otherwise as many as there are idle Ps.
Inject(m) ==
  /\ Moves(m, "inject", "inject2")
  /\ LET k == glist[m].rest
         n == IF p[m] = Nil THEN k ELSE Min({k, Cardinality(pidle)})
     IN glist' = [glist EXCEPT ![m] = [n |-> n, rest |-> k - n]]
  /\ UNCHANGED <<mvars, nmspinning, idle, psyscall, queues, polling, hand, start, ret, looked, overlooked>>

\* injectglist: globrunqputbatch.
InjectGlobal(m) ==
  /\ Moves(m, "inject2", "inject3")
  /\ runqsize' = runqsize + glist[m].n
  /\ UNCHANGED <<mvars, nmspinning, idle, psyscall, runq, waiting, polling, locals, overlooked>>

\* injectglist, startIdle: a thread for each of them while there are idle Ps.
StartIdle(m) ==
  /\ mpc[m] = "inject3" /\ glist[m].n > 0 /\ pidle # {}
  /\ CallStartm(m, Nil, FALSE, "inject3")
  /\ glist' = [glist EXCEPT ![m].n = @ - 1]
  /\ UNCHANGED <<mvars, nmspinning, idle, psyscall, queues, polling, hand, looked, overlooked>>

\* injectglist, runqputbatch: the rest goes to the P's own queue.
InjectLocal(m) ==
  /\ mpc[m] = "inject3" /\ (glist[m].n = 0 \/ pidle = {})
  /\ IF p[m] = Nil
     THEN Go(m, "stopm") /\ ret' = [ret EXCEPT ![m] = "top"] /\ UNCHANGED <<runq, runqsize, overlooked>>
     ELSE LET k == Min({glist[m].rest, RunqLen - runq[p[m]]}) IN
            /\ Go(m, "run")
            /\ runq' = [runq EXCEPT ![p[m]] = @ + k]
            /\ runqsize' = runqsize + glist[m].rest - k
            /\ overlooked' = (overlooked \/ (glist[m].rest > 0 /\ pidle # {}))
            /\ ret' = [ret EXCEPT ![m] = Nil]
  /\ glist' = [glist EXCEPT ![m] = NoGs]
  /\ UNCHANGED <<mvars, nmspinning, idle, psyscall, waiting, polling, hand, start, looked>>

\* stopm: the thread is put on the idle list and parks.
Stopm(m) ==
  /\ mpc[m] \in {"stopm", "netpoll"}
  /\ Go(m, "parked")
  /\ midle' = midle \cup {m}
  /\ ret' = [ret EXCEPT ![m] = IF mpc[m] = "netpoll" THEN "top" ELSE @]
  /\ UNCHANGED <<mvars, nmspinning, pidle, psyscall, queues, polling, hand, start, looked, glist, overlooked>>

\* resetspinning: a thread that has found work stops spinning, and may have to
\* wake another one in its place.
Resetspinning(m) ==
  /\ mpc[m] = "found" /\ StopSpinning(m, "wakep")
  /\ ret' = [ret EXCEPT ![m] = "run"]
  /\ UNCHANGED <<p, nextp, idle, psyscall, queues, polling, hand, start, looked, glist, overlooked>>

-----------------------------------------------------------------------------
(* Handing off Ps. *)

\* retake: the monitor takes a P from a system call.
Retake ==
  /\ Moves(Sysmon, "sysmon", "handoff")
  /\ \E q \in psyscall : psyscall' = psyscall \ {q} /\ hand' = [hand EXCEPT ![Sysmon] = q]
  /\ UNCHANGED <<mvars, nmspinning, idle, queues, polling, start, ret, looked, glist, overlooked>>

\* entersyscallblock: the thread hands off its P before it blocks.
Entersyscallblock(m) ==
  /\ Moves(m, "run", "handoff")
  /\ hand' = [hand EXCEPT ![m] = p[m]]
  /\ p' = [p EXCEPT ![m] = Nil]
  /\ UNCHANGED <<nextp, spinning, nmspinning, idle, psyscall, queues, polling, start, ret, looked, glist, overlooked>>

\* handoffp goes back to where it was called.
HandedOff(t) == IF t = Sysmon THEN "sysmon" ELSE "syscall"
StartFor(t, spin) ==
  /\ CallStartm(t, hand[t], spin, HandedOff(t))
  /\ hand' = [hand EXCEPT ![t] = Nil]

\* handoffp: "if it has local work, start it straight away".
Handoff(t) ==
  /\ mpc[t] = "handoff"
  /\ IF runq[hand[t]] > 0 \/ runqsize > 0
     THEN StartFor(t, FALSE)
     ELSE Go(t, "handoff2") /\ UNCHANGED <<hand, start, ret>>
  /\ UNCHANGED <<mvars, nmspinning, idle, psyscall, queues, polling, looked, glist, overlooked>>

\* handoffp: "no local work, check that there are no spinning/idle M's".
HandoffSpin(t) ==
  /\ mpc[t] = "handoff2"
  /\ IF nmspinning + Cardinality(pidle) = 0
     THEN nmspinning' = 1 /\ StartFor(t, TRUE)
     ELSE Go(t, "handoff3") /\ UNCHANGED <<nmspinning, hand, start, ret>>
  /\ UNCHANGED <<mvars, idle, psyscall, queues, polling, looked, glist, overlooked>>

\* handoffp, under sched.lock: global work, or nobody left to poll the network.
HandoffIdle(t) ==
  /\ mpc[t] = "handoff3"
  /\ IF runqsize > 0 \/ (Cardinality(pidle) = gomaxprocs - 1 /\ ~polling)
     THEN StartFor(t, FALSE) /\ UNCHANGED <<pidle, overlooked>>
     ELSE /\ Go(t, HandedOff(t))
          /\ pidle' = pidle \cup {hand[t]}
          /\ hand' = [hand EXCEPT ![t] = Nil]
          /\ overlooked' = (overlooked \/ LocalWork)
          /\ UNCHANGED <<start, ret>>
  /\ UNCHANGED <<mvars, nmspinning, midle, psyscall, queues, polling, looked, glist>>

-----------------------------------------------------------------------------
\* Steps that a thread takes by itself.
Step(t) ==
  \/ WakepIdle(t) \/ Wakep(t)
  \/ Startm(t) \/ StartmFails(t) \/ StartmUndo(t) \/ StartmWake(t)
  \/ Handoff(t) \/ HandoffSpin(t) \/ HandoffIdle(t)
MStep(m) ==
  \/ Unpark(m) \/ Stopm(m) \/ Resetspinning(m) \/ Exit0(m)
  \/ ScheduleGlobal(m) \/ RunqGet(m)
  \/ Spin(m) \/ StartSpinning(m, "spin2", "steal") \/ Steal(m) \/ StealNothing(m)
  \/ ReturnP(m) \/ Unspin(m) \/ Recheck(m) \/ RecheckP(m) \/ StartSpinning(m, "respin", "top")
  \/ Netpoll(m) \/ PolledP(m) \/ Inject(m) \/ InjectGlobal(m) \/ StartIdle(m) \/ InjectLocal(m)

\* What the goroutines, the kernel and the monitor do.
Environment(m) ==
  \/ Goready(m) \/ Park(m) \/ Gosched(m) \/ Entersyscall(m) \/ Entersyscallblock(m)
  \/ Exitsyscall(m) \/ Polled(m)

SchedNext ==
  \/ \E t \in Threads : Step(t)
  \/ \E m \in Ms : MStep(m) \/ Environment(m)
  \/ Retake

SchedSpec == SchedInit /\ [][SchedNext]_svars

-----------------------------------------------------------------------------
(* Properties. *)

\* The places in use, where f says how many: an element of S and a number.
Places(f, S) == {x \in S \X (1..NGoroutines + RunqLen) : x[2] <= f[x[1]]}

Queued == runqsize + Cardinality(Places(runq, Ps))

\* sched.nmspinning counts the threads that spin, and each increment that a
\* caller of startm has made for a thread yet to start, so that nobody relies
\* on a spinning thread that does not exist; and no throw is reached: startm
\* finds its thread neither spinning nor with a P and never gives a spinning
\* thread local work, and a P is empty when it becomes idle.
SpinnersCounted ==
  /\ SchedTypeOK /\ \A t \in Threads : mpc[t] # "throw"
  /\ nmspinning = Cardinality(spinning) + Cardinality({t \in Threads : start[t].spinning \/ mpc[t] = "startm3"})

\* The threads that have a goroutine, to run or in a system call.
Carrying(m) ==
  \/ mpc[m] \in {"run", "found", "syscall", "exit0", "handoff", "handoff2", "handoff3"}
  \/ mpc[m] \in {"inject", "inject2", "inject3"} /\ p[m] # Nil
  \/ mpc[m] \in {"wakep", "wakep2", "startm", "startm2", "startm3"} /\ (ret[m] \in {"run", "syscall"} \/ p[m] # Nil)

\* The goroutines from netpoll that m has yet to put in a queue.
Injecting(m) == glist[m].rest + IF mpc[m] = "inject2" THEN glist[m].n ELSE 0

\* What holds P q.
Owners(q) ==
  {<<"m", m>> : m \in {n \in Ms : p[n] = q}} \cup {<<"nextp", m>> : m \in {n \in Ms : nextp[n] = q}}
    \cup {<<"startm", t>> : t \in {u \in Threads : start[u].p = q}}
    \cup {<<"handoffp", t>> : t \in {u \in Threads : hand[u] = q /\ mpc[u] # "syscall"}}
    \cup {<<l, Nil>> : l \in {k \in {"idle", "syscall"} : q \in IF k = "idle" THEN pidle ELSE psyscall}}

\* A P is with one thread, or idle, or left in a system call.
OneOwner == \A q \in Ps : Cardinality(Owners(q)) = 1

\* "P running on two Ms" never happens, though system calls leave Ps behind that
\* two threads and the monitor race for ("Every owned P must have an owner"); and
\* no goroutine is lost or run twice as it moves between the queues.
NothingIsLost ==
  /\ OneOwner
  /\ NGoroutines = waiting + Queued + Cardinality({m \in Ms : Carrying(m)})
                  + Cardinality(Places([m \in Ms |-> Injecting(m)], Ms))

\* Where threads are between two decisions: all they have begun is done.
Settled(t) ==
  \/ mpc[t] \in {"none", "run", "syscall", "polling", "sysmon"}
  \/ mpc[t] = "parked" /\ nextp[t] = Nil

\* "This transition can race with submission of new work, and either one part or
\* another needs to unpark another worker thread": the two never both fail to,
\* so that no goroutine waits beside an idle P.  There are exceptions, which
\* overlooked stands for.  goschedImpl and injectglist, with a P, put work in a
\* queue without calling wakep; handoffp and a thread that was not allowed to
\* spin put a P on the idle list without looking at the queues again; a local
\* queue overflows into the global one after the spinning thread has looked there
\* and before it drops nmspinning, so that wakep relies on it; and startm finds
\* no idle P and undoes wakep's increment, though one may be idle again by then.
\* They last until the next thread that spins has looked.
WorkConserving ==
  (\A t \in Threads : Settled(t)) /\ pidle # {} /\ Queued > 0 => overlooked

-----------------------------------------------------------------------------
(* Why it works. *)

Calling == {"startm", "startm2", "startm3"}
Injects == {"inject", "inject2", "inject3"}
Handing == {"handoff", "handoff2", "handoff3"}

\* Where a thread has a P, and where it has none.
WithP(m) ==
  \/ mpc[m] \in {"schedule", "top", "spin", "spin2", "steal", "release", "respin", "found", "run", "wakep", "wakep2"}
  \/ mpc[m] \in Calling /\ ret[m] = "run"
WithoutP(m) ==
  \/ mpc[m] \in {"none", "parked", "stopm", "unspin", "recheck", "recheck2", "netpoll", "polling", "polled"}
  \/ mpc[m] \in {"syscall", "exit0"} \cup Handing
  \/ mpc[m] \in Calling /\ ret[m] = "syscall"
PFits == \A m \in Ms : (WithP(m) => p[m] # Nil) /\ (WithoutP(m) => p[m] = Nil)

\* Where a call returns to.
RetFits ==
  /\ \A m \in Ms :
       /\ mpc[m] \in {"wakep", "wakep2", "startm3"} => ret[m] = "run"
       /\ mpc[m] \in {"startm", "startm2"} => ret[m] \in {"run", "inject3", "syscall"}
       /\ mpc[m] = "none" => ret[m] = "schedule"
       /\ mpc[m] \in {"parked", "stopm"} => ret[m] \in {"schedule", "top"}
       /\ mpc[m] \in {"unspin", "recheck", "recheck2", "respin"} => ret[m] = "respin"
       /\ mpc[m] \in {"netpoll", "polling", "polled"} => ret[m] \in {"respin", "top"}
       /\ mpc[m] \notin {"sysmon", "throw"}
  /\ mpc[Sysmon] \in {"sysmon", "startm", "startm2"} \cup Handing
  /\ mpc[Sysmon] \in {"startm", "startm2"} => ret[Sysmon] = "sysmon"

\* The arguments of startm: wakep and startIdle bring no P, handoffp does.
StartFits ==
  /\ \A t \in Threads :
       /\ mpc[t] \notin {"startm", "startm2"} => start[t] = NoStart
       /\ mpc[t] = "startm" => start[t].m = Nil
       /\ mpc[t] = "startm" => (start[t].p = Nil) = (ret[t] \in {"run", "inject3"})
       /\ mpc[t] = "startm2" => start[t].m # Nil /\ start[t].p # Nil
       /\ mpc[t] \in {"startm", "startm2"} /\ ret[t] = "run" => start[t].spinning
       /\ mpc[t] \in {"startm", "startm2"} /\ ret[t] = "inject3" => ~start[t].spinning
       /\ mpc[t] \in Handing => hand[t] # Nil
       /\ hand[t] # Nil => mpc[t] \in Handing \cup {"syscall"}

\* The list from netpoll, and the loops over allp.
ListsFit ==
  \A m \in Ms :
    /\ mpc[m] \notin {"polled"} \cup Injects /\ ~(mpc[m] \in Calling /\ ret[m] = "inject3") => glist[m] = NoGs
    /\ mpc[m] \in {"polled", "inject"} => glist[m].n = 0
    /\ p[m] = Nil /\ mpc[m] \notin {"polled", "inject"} => glist[m].rest = 0
    /\ glist[m].n + glist[m].rest <= NGoroutines
    /\ mpc[m] \notin {"steal", "recheck"} => looked[m] = {}

\* A thread without a P is idle, or chosen by one startm, or has got its note.
IdleFits ==
  \A m \in Ms :
    /\ m \in midle => mpc[m] = "parked" /\ nextp[m] = Nil
    /\ nextp[m] # Nil => mpc[m] = "parked"
    /\ \A t \in Threads : start[t].m = m =>
         /\ mpc[m] \in {"none", "parked"} /\ m \notin midle /\ nextp[m] = Nil
         /\ \A u \in Threads : start[u].m = m => u = t

\* Where a thread spins.
SpinFits ==
  \A m \in Ms :
    /\ m \in spinning => mpc[m] \in {"schedule", "top", "spin", "steal", "release", "unspin", "found"}
                           \/ (mpc[m] = "parked" /\ nextp[m] # Nil)
    /\ mpc[m] \in {"steal", "unspin", "found"} => m \in spinning

\* Ps without local work.
EmptyFits ==
  /\ \A q \in pidle : runq[q] = 0
  /\ \A t \in Threads :
       /\ start[t].spinning /\ start[t].p # Nil => runq[start[t].p] = 0
       /\ mpc[t] \in {"handoff2", "handoff3"} => runq[hand[t]] = 0
  /\ \A m \in Ms :
       /\ m \in spinning /\ nextp[m] # Nil => runq[nextp[m]] = 0
       /\ m \in spinning /\ mpc[m] = "schedule" => runq[p[m]] = 0
       /\ mpc[m] \in {"spin", "spin2", "steal", "release"} => runq[p[m]] = 0

\* What m does about work that nobody spins for: startIdle has threads to start,
\* and each of them, like a thread that is out of work, looks at its own queue
\* and the global one before it gives up its P.  A queue that is not empty and
\* not in S is left out, for somebody else is to look at it.
Counts(q, S) == q \in S \/ runq[q] = 0
Looks(m, S) ==
  \/ mpc[m] = "startm" /\ ret[m] = "inject3"
  \/ mpc[m] = "startm2" /\ ret[m] = "inject3" /\ Counts(start[m].p, S)
  \/ m \notin spinning /\ nextp[m] # Nil /\ Counts(nextp[m], S)
  \/ m \notin spinning /\ mpc[m] \in {"schedule", "top", "spin", "release"} /\ Counts(p[m], S)
Promised(m) ==
  IF mpc[m] = "inject3" \/ (mpc[m] \in Calling /\ ret[m] = "inject3") THEN glist[m].n ELSE 0
Help(m, S) == Promised(m) + IF Looks(m, S) THEN 1 ELSE 0
Helped(S) ==
  runqsize + Cardinality(Places(runq, S)) <= Cardinality(Places([m \in Ms |-> Help(m, S)], Ms))

\* While a P is idle, somebody spins or is about to, or is about to wake a
\* thread, or there is help for all work, but for what m is yet to look at.
Waking == {"wakep", "wakep2", "spin2", "recheck2", "respin"}
SomebodyLooks ==
  pidle # {} /\ ~overlooked =>
    \/ nmspinning > 0
    \/ \E m \in Ms : mpc[m] \in Waking
    \/ Helped(Ps)
    \/ \E m \in Ms : mpc[m] = "recheck" /\ Helped(looked[m])

SchedInv ==
  /\ SpinnersCounted /\ NothingIsLost
  /\ PFits /\ RetFits /\ StartFits /\ ListsFit /\ IdleFits /\ SpinFits /\ EmptyFits
  /\ SomebodyLooks
=============================================================================
