------------------------------- MODULE Netpoll -------------------------------
(***************************************************************************)
(* The runtime's side of a pollable descriptor (runtime/netpoll.go, with   *)
(* the edge-triggered epoll of netpoll_epoll.go): pollDesc with its two    *)
(* binary semaphores rg and wg, on which the one reader and the one writer *)
(* wait, and which I/O readiness, a deadline and pollUnblock change        *)
(* without a lock, each by a CAS.  FD uses these operators.                *)
(*                                                                         *)
(* Deadlines are none, later or past.  The numbers seq, which make a late  *)
(* call of a timer that has been reset do nothing, are left out with the   *)
(* timers.  So is the error of an event scan (everr).                      *)
(***************************************************************************)
EXTENDS FdMutex

\* What rg, wg and the lock hold besides goroutines is told apart from them.
ASSUME NetpollAssumption ==
  /\ {"nil", "ready", "wait", "timer"} \cap Goroutines = {}
  /\ None # "timer"

VARIABLES closing,    \* pd.closing
          gpp,        \* pd.rg, pd.wg: "nil", "ready" (pdReady), "wait" (pdWait) or a goroutine
          deadline,   \* pd.rd, pd.wd: "none" (0), "later" (positive), "past" (negative)
          lock,       \* who holds pd.lock: None, a goroutine or "timer"
          unblocking, \* the modes that it is still to call netpollunblock for
          ready,      \* the modes that the kernel is ready for
          edge        \* the modes whose readiness epoll_wait is to report

pdvars == <<closing, gpp, deadline, lock, unblocking, ready, edge>>

PdTypeOK ==
  /\ closing \in BOOLEAN
  /\ gpp \in [Modes -> {"nil", "ready", "wait"} \cup Goroutines]
  /\ deadline \in [Modes -> {"none", "later", "past"}]
  /\ lock \in Goroutines \cup {None, "timer"}
  /\ {unblocking, ready, edge} \subseteq SUBSET Modes

\* pollOpen.
PdInit ==
  /\ closing = FALSE
  /\ gpp = [m \in Modes |-> "nil"]
  /\ deadline = [m \in Modes |-> "none"]
  /\ lock = None /\ unblocking = {}
  /\ ready = {} /\ edge = {}

\* netpollcheckerr.
netpollcheckerr(m) == closing \/ deadline[m] = "past"

Set(m, v) == gpp' = [gpp EXCEPT ![m] = v]

-----------------------------------------------------------------------------
(* The reader and the writer. *)

\* pollReset, netpollblock: the semaphore is cleared.
Clear(m) == Set(m, "nil") /\ UNCHANGED <<closing, deadline, lock, unblocking, ready, edge>>

\* netpollblock: prepare to park.
Wait(m) == Set(m, "wait") /\ UNCHANGED <<closing, deadline, lock, unblocking, ready, edge>>

\* netpollblockcommit: park, unless the state has changed.
Commit(g, m) == gpp[m] = "wait" /\ Set(m, g) /\ UNCHANGED <<closing, deadline, lock, unblocking, ready, edge>>
Parked(g, m) == gpp[m] = g

-----------------------------------------------------------------------------
(* Those who end the wait. *)

\* netpollunblock: the goroutine that was parked runs again.
netpollunblock(m, ioready) ==
  gpp' = IF gpp[m] = "ready" \/ (gpp[m] = "nil" /\ ~ioready) THEN gpp
         ELSE [gpp EXCEPT ![m] = IF ioready THEN "ready" ELSE "nil"]

\* The holder h of pd.lock has stored its news, and is to unblock the modes ms.
Hold(h, ms) ==
  /\ lock = None /\ lock' = IF ms = {} THEN None ELSE h
  /\ unblocking' = ms

\* netpollunblock for the next mode, reading first; then pd.lock is released.
Unblock(h) ==
  /\ lock = h
  /\ LET m == IF "r" \in unblocking THEN "r" ELSE "w" IN
       /\ netpollunblock(m, FALSE)
       /\ unblocking' = unblocking \ {m}
       /\ lock' = IF unblocking = {m} THEN None ELSE h
  /\ UNCHANGED <<closing, deadline, ready, edge>>

\* pollSetDeadline: new deadlines, those in the past unblock.
pollSetDeadline(h, ms, d) ==
  LET new == [m \in Modes |-> IF m \in ms /\ ~closing THEN d ELSE deadline[m]] IN
    /\ deadline' = new
    /\ Hold(h, IF closing THEN {} ELSE {m \in Modes : new[m] = "past"})
    /\ UNCHANGED <<closing, gpp, ready, edge>>

\* netpolldeadlineimpl: the deadlines ms pass.
Expire(ms) ==
  /\ ~closing /\ \A m \in ms : deadline[m] = "later"
  /\ deadline' = [m \in Modes |-> IF m \in ms THEN "past" ELSE deadline[m]]
  /\ Hold("timer", ms)
  /\ UNCHANGED <<closing, gpp, ready, edge>>

\* pollUnblock.
pollUnblock(h) ==
  /\ closing' = TRUE
  /\ Hold(h, Modes)
  /\ UNCHANGED <<gpp, deadline, ready, edge>>

\* netpoll, netpollready: an event is reported, no lock is taken.
netpollready(m) ==
  /\ m \in edge /\ edge' = edge \ {m}
  /\ netpollunblock(m, TRUE)
  /\ UNCHANGED <<closing, deadline, lock, unblocking, ready>>

\* The kernel becomes ready, which is an event.
KernelReady(m) ==
  /\ m \notin ready
  /\ ready' = ready \cup {m} /\ edge' = edge \cup {m}
  /\ UNCHANGED <<closing, gpp, deadline, lock, unblocking>>

\* A system call may use up what the kernel was ready for.
Use(m) == ready' \in {ready, ready \ {m}} /\ UNCHANGED <<closing, gpp, deadline, lock, unblocking, edge>>
=============================================================================
