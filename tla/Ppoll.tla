--------------------------------- MODULE Ppoll ---------------------------------
(***************************************************************************)
(* poll/ppoll.c: one call of ppoll, made of pthread_sigmask and poll, with *)
(* a kqueue that remembers the signals which arrive in between.            *)
(*                                                                         *)
(* Signals are sent, and descriptors become ready, between any two steps.  *)
(* A signal that is not blocked runs its handler at once; a blocked one    *)
(* stays pending until the mask lets it through.                           *)
(***************************************************************************)
EXTENDS Integers, FiniteSets

CONSTANTS
    Signals,
    Caught,         \* those with a handler and without SA_RESTART
    Restarting,     \* those with a handler and SA_RESTART
    Fds,            \* the descriptors of the caller's fds
    NoMask,         \* sigmask == NULL
    Forever,        \* timeout == NULL
    Timeouts,       \* the timeouts: tv_sec and tv_nsec
    NsPerMs, MsPerSec, IntMax   \* 1000000, 1000, INT_MAX

ASSUME SignalAssumption ==
    /\ Caught \subseteq Signals /\ Restarting \subseteq Signals
    /\ IsFiniteSet(Fds)
ASSUME TimeAssumption ==
    /\ Timeouts \subseteq [tv_sec : Int, tv_nsec : Int] /\ Forever \notin Timeouts
    /\ NsPerMs \in Nat \ {0} /\ MsPerSec \in Nat \ {0} /\ IntMax \in Nat

VARIABLES
    phase,              \* where the call is
    sigmask, timeout,   \* the arguments
    timeout_ms,
    mask, pending,      \* the thread's blocked signals, and those held back
    origmask,
    kevs,               \* the signals watched
    kq,                 \* "none", "open", or "armed": the events are registered
    event,              \* the kqueue has something to report
    fds2,               \* the array with the kqueue in it has been allocated
    ready,              \* the caller's descriptors that are ready
    handled,            \* the signals whose handler ran under sigmask
    interrupted,        \* a handler ran while poll was waiting
    ec, n               \* the result

args == <<sigmask, timeout, timeout_ms>>
thread == <<mask, pending, handled, interrupted>>
queue == <<kevs, kq, event, fds2>>
ppollvars == <<phase, args, thread, origmask, queue, ready, ec, n>>

Masks == SUBSET Signals
Errors == {"none", "EINVAL", "ENOMEM", "EMFILE", "EINTR"}

PpollTypeOK ==
    /\ phase \in {"call", "watch", "kqueue", "register", "pending", "alloc", "mask",
               "poll", "restore", "done"}
    /\ sigmask \in Masks \union {NoMask}
    /\ timeout \in Timeouts \union {Forever} /\ timeout_ms \in -1..IntMax
    /\ mask \in Masks /\ pending \in Masks /\ origmask \in Masks
    /\ kevs \in Masks /\ kq \in {"none", "open", "armed"}
    /\ event \in BOOLEAN /\ fds2 \in BOOLEAN
    /\ ready \in SUBSET Fds
    /\ handled \in Masks /\ interrupted \in BOOLEAN
    /\ ec \in Errors /\ n \in Nat

PpollInit ==
    /\ phase = "call"
    /\ sigmask \in Masks \union {NoMask} /\ timeout \in Timeouts \union {Forever}
    /\ timeout_ms = -1
    /\ mask \in Masks /\ origmask = mask
    /\ pending \in SUBSET mask
    /\ kevs = {} /\ kq = "none" /\ event = FALSE /\ fds2 = FALSE
    /\ ready = {}
    /\ handled = {} /\ interrupted = FALSE
    /\ ec = "none" /\ n = 0

--------------------------------------------------------------------------------
(* timeout, in the milliseconds poll takes (lines 20-37).                  *)

\* Mutant of Milliseconds: the remainder is cut off.
MillisecondsCut(to) ==
    IF to = Forever THEN -1
    ELSE LET ms == to.tv_sec * MsPerSec + to.tv_nsec \div NsPerMs
         IN  IF ms > IntMax THEN -1 ELSE ms

Milliseconds(to) ==
    IF to = Forever THEN -1
    ELSE LET up == IF to.tv_nsec % NsPerMs # 0 THEN 1 ELSE 0
             ms == to.tv_sec * MsPerSec + to.tv_nsec \div NsPerMs + up
         IN  IF ms > IntMax THEN -1 ELSE ms

Invalid(to) == to # Forever /\ (to.tv_sec < 0 \/ to.tv_nsec \notin 0..(NsPerMs * MsPerSec - 1))

Fail(e) == phase' = "done" /\ ec' = e

--------------------------------------------------------------------------------
Call ==
    /\ phase = "call"
    /\ IF Invalid(timeout)
       THEN Fail("EINVAL") /\ UNCHANGED timeout_ms
       ELSE /\ timeout_ms' = Milliseconds(timeout)
            /\ phase' = "watch" /\ UNCHANGED ec
    /\ UNCHANGED <<sigmask, timeout, thread, origmask, queue, ready, n>>

\* Lines 44-78: the signals that are blocked now and will not be, and whose
\* handlers mean to interrupt.  pthread_sigmask or sigaction may fail on the way.
Watch ==
    /\ phase = "watch"
    /\ LET looks == timeout_ms # 0 /\ sigmask # NoMask
       IN  \/ /\ kevs' = IF looks THEN (mask \ sigmask) \intersect (Caught \ Restarting) ELSE {}
              /\ phase' = IF kevs' = {} THEN "mask" ELSE "kqueue"
              /\ UNCHANGED ec
           \/ looks /\ Fail("EINVAL") /\ UNCHANGED kevs
    /\ UNCHANGED <<args, thread, origmask, kq, event, fds2, ready, n>>

Kqueue ==
    /\ phase = "kqueue"
    /\ \/ kq' = "open" /\ phase' = "register" /\ UNCHANGED ec
       \/ Fail("EMFILE") /\ UNCHANGED kq
    /\ UNCHANGED <<args, thread, origmask, kevs, event, fds2, ready, n>>

\* The label out: the kqueue is closed.
Out(e) == Fail(e) /\ kq' = "none"

Register ==
    /\ phase = "register"
    /\ \/ kq' = "armed" /\ phase' = "pending" /\ UNCHANGED ec
       \/ Out("ENOMEM")
    /\ UNCHANGED <<args, thread, origmask, kevs, event, fds2, ready, n>>

\* Mutant of CheckPending: what is pending already is not looked for.
CheckNothing ==
    /\ phase = "pending"
    /\ phase' = "alloc"
    /\ UNCHANGED <<args, thread, origmask, queue, ready, ec, n>>

\* A signal that was pending before the events were registered triggers the
\* kqueue by hand (lines 94-113).
CheckPending ==
    /\ phase = "pending"
    /\ \/ /\ event' = (event \/ pending \intersect kevs # {})
          /\ phase' = "alloc"
          /\ UNCHANGED <<kq, ec>>
       \/ Out("ENOMEM") /\ UNCHANGED event
    /\ UNCHANGED <<args, thread, origmask, kevs, fds2, ready, n>>

\* More bytes than a size_t counts are EINVAL (lines 115-127).
Allocate ==
    /\ phase = "alloc"
    /\ \/ fds2' = TRUE /\ phase' = "mask" /\ UNCHANGED <<kq, ec>>
       \/ \E e \in {"EINVAL", "ENOMEM"} : Out(e) /\ UNCHANGED fds2
    /\ UNCHANGED <<args, thread, origmask, kevs, event, ready, n>>

Handlers == Caught \union Restarting

\* The signals a new mask lets through run their handlers now.
ChangeMask(m) ==
    /\ mask' = m
    /\ pending' = pending \intersect m
    /\ handled' = handled \union ((pending \ m) \intersect Handlers)

SetMask ==
    /\ phase = "mask"
    /\ IF sigmask # NoMask
       THEN ChangeMask(sigmask) /\ origmask' = mask
       ELSE UNCHANGED <<mask, pending, handled, origmask>>
    /\ phase' = "poll"
    /\ UNCHANGED <<args, interrupted, queue, ready, ec, n>>

Found == Cardinality(ready) + (IF fds2 /\ event THEN 1 ELSE 0)

\* Mutant of PollReady: the kqueue is one of the descriptors reported.
PollReadyAll ==
    /\ phase = "poll" /\ Found > 0
    /\ ec' = "none" /\ n' = Found
    /\ phase' = "restore"
    /\ UNCHANGED <<args, thread, origmask, queue, ready>>

\* poll finds something; the kqueue is not counted, and alone it means that a
\* signal came (lines 139-158).
PollReady ==
    /\ phase = "poll" /\ Found > 0
    /\ IF ready = {}
       THEN ec' = "EINTR" /\ UNCHANGED n
       ELSE ec' = "none" /\ n' = Cardinality(ready)
    /\ phase' = "restore"
    /\ UNCHANGED <<args, thread, origmask, queue, ready>>

PollTimesOut ==
    /\ phase = "poll" /\ Found = 0 /\ ~interrupted
    /\ timeout_ms # -1
    /\ phase' = "restore"
    /\ UNCHANGED <<args, thread, origmask, queue, ready, ec, n>>

PollInterrupted ==
    /\ phase = "poll" /\ interrupted
    /\ ec' = "EINTR"
    /\ phase' = "restore"
    /\ UNCHANGED <<args, thread, origmask, queue, ready, n>>

\* Mutant of RestoreMask: an interrupted call returns at once.
RestoreMaskLater ==
    /\ phase = "restore"
    /\ IF sigmask # NoMask /\ ec = "none" THEN ChangeMask(origmask)
                                          ELSE UNCHANGED <<mask, pending, handled>>
    /\ kq' = "none"
    /\ phase' = "done"
    /\ UNCHANGED <<args, interrupted, origmask, kevs, event, fds2, ready, ec, n>>

RestoreMask ==
    /\ phase = "restore"
    /\ IF sigmask # NoMask THEN ChangeMask(origmask)
                           ELSE UNCHANGED <<mask, pending, handled>>
    /\ kq' = "none"
    /\ phase' = "done"
    /\ UNCHANGED <<args, interrupted, origmask, kevs, event, fds2, ready, ec, n>>

--------------------------------------------------------------------------------
(* The rest of the system.                                                 *)

\* Somebody sends s.  The kqueue sees it, blocked or not, once registered.
Send(s) ==
    /\ phase # "done"
    /\ event' = (event \/ (kq = "armed" /\ s \in kevs))
    /\ IF s \in mask
       THEN pending' = pending \union {s} /\ UNCHANGED <<handled, interrupted>>
       ELSE /\ handled' = IF s \in Handlers /\ phase \in {"poll", "restore"}
                          THEN handled \union {s} ELSE handled
            /\ interrupted' = (interrupted \/ (s \in Handlers /\ phase = "poll"))
            /\ UNCHANGED pending
    /\ UNCHANGED <<phase, args, mask, origmask, kevs, kq, fds2, ready, ec, n>>

BecomeReady(f) ==
    /\ phase # "done" /\ f \notin ready
    /\ ready' = ready \union {f}
    /\ UNCHANGED <<phase, args, thread, origmask, queue, ec, n>>

--------------------------------------------------------------------------------
PpollStep ==
    \/ Call \/ Watch \/ Kqueue \/ Register \/ CheckPending \/ Allocate \/ SetMask
    \/ PollReady \/ PollTimesOut \/ PollInterrupted \/ RestoreMask

PpollNext == PpollStep \/ (\E s \in Signals : Send(s)) \/ (\E f \in Fds : BecomeReady(f))

PpollSpec == PpollInit /\ [][PpollNext]_ppollvars

\* The thread runs, and poll returns once it has something to return.
PpollFairSpec == PpollSpec /\ WF_ppollvars(PpollStep)

--------------------------------------------------------------------------------
(* What must hold.                                                         *)

\* However the call ends, the thread has its signal mask back (lines 135-144,
\* and the early ways out before them).
MaskRestored == phase = "done" => mask = origmask

\* A signal the call meant to wait for is never slept over: if its handler ran
\* after the mask was set and before poll began to wait, the kqueue has it
\* (lines 75-113, 135-139).
NoLostSignal ==
    phase = "poll" /\ handled \intersect kevs # {} => event /\ fds2

CountIsCallers == phase = "restore" /\ ec = "none" => n <= Cardinality(ready)

\* What ppoll says is so: the descriptors it counts are the caller's alone, each
\* once, without the kqueue among them (lines 139, 146-150), and an interruption
\* is reported only when a handler ran under the caller's mask.
ResultIsTrue ==
    /\ CountIsCallers
    /\ phase = "done" /\ ec = "EINTR" => handled # {}

\* poll never gives up before the time asked for, nor a millisecond late, and
\* only a timeout of zero is zero: that is when no signal is watched (lines
\* 27-36, 44).  A time beyond INT_MAX milliseconds is for ever.
TimeoutIsExact ==
    phase \notin {"call", "done"} /\ timeout # Forever /\ timeout_ms # -1 =>
        LET asked == (timeout.tv_sec * MsPerSec) * NsPerMs + timeout.tv_nsec
        IN  timeout_ms * NsPerMs \in asked..(asked + NsPerMs - 1)

\* A call whose signal has been handled returns, with no descriptor ready and
\* no timeout.
SignalWakes == (phase = "poll" /\ handled \intersect kevs # {}) ~> (phase = "done")
================================================================================
