--------------------------------- MODULE Streams ---------------------------------
(***************************************************************************)
(* What else opens and closes descriptors and streams beside popen, in the *)
(* same threads: accept4 (sys/socket/accept4.c), fopencookie               *)
(* (stdio/fopencookie.c) and fdclose (stdio/fclose.c).                     *)
(***************************************************************************)
EXTENDS Popen

CONSTANTS
    Thunks,         \* where malloc may put a struct fopencookie_thunk
    MaxOthers       \* how many calls of these three there are

ASSUME ThunkAssumption == Thunks \subseteq Nat \ {0} /\ MaxOthers \in Nat

VARIABLES
    at, hold,       \* of each thread: where it is in such a call, and what it got there
    sockets,        \* the connections callers have
    descriptors,    \* what fdclose has taken out of a stream
    thunks,         \* the thunks that are allocated
    cookies,        \* the thunks of the streams of cookies
    others          \* calls begun

stdio == <<at, hold, sockets, descriptors, thunks, cookies, others>>

StreamsTypeOK ==
    /\ at \in [Threads -> {"none", "setfl", "funopen"}]
    /\ hold \in [Threads -> Fds \union Thunks \union {0}]
    /\ sockets \subseteq Fds /\ descriptors \subseteq Fds
    /\ thunks \subseteq Thunks /\ cookies \subseteq Thunks
    /\ others \in 0..MaxOthers

StreamsInit ==
    /\ Init
    /\ at = [t \in Threads |-> "none"] /\ hold = [t \in Threads |-> 0]
    /\ sockets = {} /\ descriptors = {} /\ thunks = {} /\ cookies = {}
    /\ others = 0

--------------------------------------------------------------------------------
Enters(t, label, got) ==
    at' = [at EXCEPT ![t] = label] /\ hold' = [hold EXCEPT ![t] = got]

Begins(t) ==
    /\ pc[t] = "idle" /\ at[t] = "none" /\ others < MaxOthers
    /\ others' = others + 1

\* accept4 up to the return of accept, when that gives a descriptor; flags it
\* does not know change nothing.
Accept(t) ==
    /\ Begins(t)
    /\ \E f \in Free :
          /\ IsLowest(f, Free)
          /\ table' = [table EXCEPT ![f] = Socket]
          /\ Enters(t, "setfl", f)
    /\ UNCHANGED <<pc, type, call, pdes, earlier, actions, pidlist, pidlist_mutex, streams,
                   child, owes, calls, sockets, descriptors, thunks, cookies>>

\* Mutant of SetFlags: a failure of fcntl is returned at once.
SetFlagsOnly(t) ==
    /\ at[t] = "setfl"
    /\ \/ sockets' = sockets \union {hold[t]} /\ UNCHANGED table
       \/ UNCHANGED <<table, sockets>>
    /\ Enters(t, "none", 0)
    /\ UNCHANGED <<pc, type, call, pdes, earlier, actions, pidlist, pidlist_mutex, streams,
                   child, owes, calls, descriptors, thunks, cookies, others>>

\* The flags are set, O_CLOEXEC among those that F_SETFL ignores: a shell that
\* is spawned holds the socket.  A failure closes it.
SetFlags(t) ==
    /\ at[t] = "setfl"
    /\ \/ sockets' = sockets \union {hold[t]} /\ UNCHANGED table
       \/ table' = Closed({hold[t]}) /\ UNCHANGED sockets
    /\ Enters(t, "none", 0)
    /\ UNCHANGED <<pc, type, call, pdes, earlier, actions, pidlist, pidlist_mutex, streams,
                   child, owes, calls, descriptors, thunks, cookies, others>>

\* fopencookie: the thunk ...
AllocateThunk(t) ==
    /\ Begins(t)
    /\ \E k \in Thunks \ thunks :
          /\ thunks' = thunks \union {k}
          /\ Enters(t, "funopen", k)
    /\ UNCHANGED <<vars, sockets, descriptors, cookies>>

\* ... and the stream, or neither.
Funopen(t) ==
    /\ at[t] = "funopen"
    /\ \/ cookies' = cookies \union {hold[t]} /\ UNCHANGED thunks
       \/ thunks' = thunks \ {hold[t]} /\ UNCHANGED cookies
    /\ Enters(t, "none", 0)
    /\ UNCHANGED <<vars, sockets, descriptors, others>>

\* fdclose of a stream that has a descriptor: the caller gets it, open, also
\* when what was written could not be flushed.
Fdclose(s) ==
    /\ others < MaxOthers /\ others' = others + 1
    /\ streams' = streams \ {s}
    /\ descriptors' = descriptors \union {s.fd}
    /\ UNCHANGED <<pc, type, call, pdes, earlier, actions, table, pidlist, pidlist_mutex,
                   child, owes, calls, at, hold, sockets, thunks, cookies>>

\* fclose, or fdclose, of a stream of a cookie: the latter has no descriptor to
\* return and closes all the same.  _fopencookie_close frees the thunk.
CloseCookie(k) ==
    /\ cookies' = cookies \ {k}
    /\ thunks' = thunks \ {k}
    /\ UNCHANGED <<vars, at, hold, sockets, descriptors, others>>

\* The caller closes what it has (external).
CallerClosesFd(f) ==
    /\ table' = Closed({f})
    /\ sockets' = sockets \ {f} /\ descriptors' = descriptors \ {f}
    /\ UNCHANGED <<pc, type, call, pdes, earlier, actions, pidlist, pidlist_mutex, streams,
                   child, owes, calls, at, hold, thunks, cookies, others>>

PopenStep ==
    /\ \/ \E t \in Threads :
             /\ at[t] = "none"
             /\ \/ OpenPipe(t) \/ Fdopen(t) \/ Allocate(t) \/ ListActions(t) \/ Spawn(t)
                \/ CloseStream(t) \/ CloseLast(t) \/ CloseOther(t) \/ Link(t)
       \/ \E s \in streams : CallerCloses(s)
    /\ UNCHANGED stdio

StreamsNext ==
    \/ PopenStep
    \/ \E t \in Threads : Accept(t) \/ SetFlags(t) \/ AllocateThunk(t) \/ Funopen(t)
    \/ \E s \in streams : Fdclose(s)
    \/ \E k \in cookies : CloseCookie(k)
    \/ \E f \in sockets \union descriptors : CallerClosesFd(f)

StreamsSpec == StreamsInit /\ [][StreamsNext]_<<vars, stdio>>

--------------------------------------------------------------------------------
(* What must hold.                                                         *)

AcceptedBy(t) == IF at[t] = "setfl" THEN {hold[t]} ELSE {}
InCall(t) == Holding(t) \union AcceptedBy(t)
InStreams == {s.fd : s \in streams}
InFunopen == {t \in Threads : at[t] = "funopen"}

FdsHaveOneOwner ==
    /\ \A f \in Fds :
          table[f] # Unused <=> \/ \E t \in Threads : f \in InCall(t)
                               \/ f \in InStreams \union sockets \union descriptors
    /\ \A t, u \in Threads : t # u => InCall(t) \intersect InCall(u) = {}
    /\ \A t \in Threads :
          InCall(t) \intersect (InStreams \union sockets \union descriptors) = {}
    /\ \A r, s \in streams : r.fd = s.fd => r = s
    /\ InStreams \intersect (sockets \union descriptors) = {}
    /\ sockets \intersect descriptors = {}

ThunksHaveOneOwner ==
    /\ thunks = cookies \union {hold[t] : t \in InFunopen}
    /\ \A t \in InFunopen : hold[t] \notin cookies
    /\ \A t, u \in InFunopen : hold[t] = hold[u] => t = u

\* Whatever fails on the way, an open descriptor belongs to exactly one call in
\* progress, one stream, or the caller of accept4 or fdclose: no path forgets
\* one, and none closes a descriptor somebody else has got since (popen.c lines
\* 143-160 and 207-223, accept4.c lines 39-44, fclose.c lines 112-127).  The
\* thunk of a cookie lives as long as the one call or stream that has it
\* (fopencookie.c lines 70-90, 163-178).
DescriptorsHaveOneOwner == FdsHaveOneOwner /\ ThunksHaveOneOwner
================================================================================
