--------------------------------- MODULE Popen ---------------------------------
(***************************************************************************)
(* stdio/popen.c: threads that open pipes to shells, the list of what they *)
(* opened (pidlist) under its mutex, and what the shells inherit.          *)
(*                                                                         *)
(* table is the descriptor table of the process; a child starts from the   *)
(* table of the moment it is spawned and applies the file actions popen    *)
(* listed.  Nothing under src/ takes an entry off pidlist: the pclose of   *)
(* the system has a list of its own.  The caller can only close a stream.  *)
(***************************************************************************)
EXTENDS Integers, Sequences, SequencesExt

CONSTANTS
    Threads,
    NoThread,       \* who holds a free mutex
    Fds,            \* the descriptors above 2 the process may use
    MaxCalls        \* how many calls of popen there are in a behaviour

ASSUME FdAssumption ==
    Fds \subseteq Nat \ 0..2 /\ MaxCalls \in Nat /\ NoThread \notin Threads

Calls == 1..MaxCalls
Types == {"r", "w", "r+"}
End == [of : Calls, end : {0, 1}]       \* pdes[0] or pdes[1] of a call
Unused == [of |-> 0, end |-> 0]         \* a descriptor that is not open
Terminal == [of |-> 0, end |-> 1]       \* what 0, 1 and 2 are in the parent
Socket == [of |-> 0, end |-> 2]         \* a descriptor that is no pipe's
What == End \union {Unused, Terminal, Socket}
AllFds == {0, 1, 2} \union Fds

VARIABLES
    pc, type, call, pdes, earlier,      \* of each thread
    actions,        \* the closes each thread has listed for its shell
    table,          \* what each descriptor of the process is
    pidlist,        \* the descriptors linked, last first
    pidlist_mutex,  \* who holds it
    streams,        \* what callers hold: call and descriptor
    child,          \* the table of the shell of each call, once spawned
    owes,           \* the streams a shell must not hold: open before its popen
    calls           \* calls begun

vars == <<pc, type, call, pdes, earlier, actions, table, pidlist, pidlist_mutex,
          streams, child, owes, calls>>

NoChild == [f \in AllFds |-> Unused]

TypeOK ==
    /\ pc \in [Threads -> {"idle", "fdopen", "alloc", "lock", "spawn", "close", "link",
                       "failed", "other", "iop"}]
    /\ type \in [Threads -> Types]
    /\ call \in [Threads -> 0..MaxCalls]
    /\ pdes \in [Threads -> (Fds \union {0}) \X (Fds \union {0})]
    /\ earlier \in [Threads -> SUBSET Calls]
    /\ actions \in [Threads -> Seq(Fds)]
    /\ table \in [AllFds -> What]
    /\ pidlist \in Seq(Fds)
    /\ pidlist_mutex \in Threads \union {NoThread}
    /\ streams \subseteq [of : Calls, fd : Fds]
    /\ child \in [Calls -> [AllFds -> What]]
    /\ owes \in [Calls -> SUBSET Calls]
    /\ calls \in 0..MaxCalls

Init ==
    /\ pc = [t \in Threads |-> "idle"]
    /\ type = [t \in Threads |-> "r"]
    /\ call = [t \in Threads |-> 0]
    /\ pdes = [t \in Threads |-> <<0, 0>>]
    /\ earlier = [t \in Threads |-> {}]
    /\ actions = [t \in Threads |-> << >>]
    /\ table = [f \in AllFds |-> IF f \in Fds THEN Unused ELSE Terminal]
    /\ pidlist = << >> /\ pidlist_mutex = NoThread
    /\ streams = {}
    /\ child = [c \in Calls |-> NoChild]
    /\ owes = [c \in Calls |-> {}]
    /\ calls = 0

--------------------------------------------------------------------------------
Goto(t, label) == pc' = [pc EXCEPT ![t] = label]

Reads(t) == type[t] # "w"               \* *type == 'r'
Ours(t) == IF Reads(t) THEN pdes[t][1] ELSE pdes[t][2]      \* iop
Other(t) == IF Reads(t) THEN pdes[t][2] ELSE pdes[t][1]

Free == {f \in Fds : table[f] = Unused}
IsLowest(f, S) == f \in S /\ \A g \in S : f <= g
Closed(S) == [f \in AllFds |-> IF f \in S THEN Unused ELSE table[f]]

\* The locals of a call that is over mean nothing any more.
Leave(t) ==
    /\ Goto(t, "idle")
    /\ pdes' = [pdes EXCEPT ![t] = <<0, 0>>]
    /\ call' = [call EXCEPT ![t] = 0]
    /\ type' = [type EXCEPT ![t] = "r"]
    /\ earlier' = [earlier EXCEPT ![t] = {}]
    /\ actions' = [actions EXCEPT ![t] = << >>]

--------------------------------------------------------------------------------
\* socketpair or pipe; without two free descriptors there is nothing to do.
OpenPipe(t) ==
    /\ pc[t] = "idle" /\ calls < MaxCalls
    /\ calls' = calls + 1
    /\ call' = [call EXCEPT ![t] = calls']
    /\ \E r, w \in Free :
          /\ IsLowest(r, Free) /\ IsLowest(w, Free \ {r})
          /\ pdes' = [pdes EXCEPT ![t] = <<r, w>>]
          /\ table' = [table EXCEPT ![r] = [of |-> calls', end |-> 0],
                                    ![w] = [of |-> calls', end |-> 1]]
    /\ \E ty \in Types : type' = [type EXCEPT ![t] = ty]
    /\ earlier' = [earlier EXCEPT ![t] = {s.of : s \in streams}]
    /\ Goto(t, "fdopen")
    /\ UNCHANGED <<actions, pidlist, pidlist_mutex, streams, child, owes>>

\* A way out that failed closes one end, and then the other; here pdes[0] first.
Fdopen(t) ==
    /\ pc[t] = "fdopen"
    /\ \/ Goto(t, "alloc") /\ UNCHANGED <<table, pdes, call, type, earlier, actions>>
       \/ /\ table' = Closed({pdes[t][1]})
          /\ Goto(t, IF Reads(t) THEN "other" ELSE "iop")
          /\ UNCHANGED <<pdes, call, type, earlier, actions>>
    /\ UNCHANGED <<pidlist, pidlist_mutex, streams, child, owes, calls>>

\* malloc and posix_spawn_file_actions_init (lines 149-161).
Allocate(t) ==
    /\ pc[t] = "alloc"
    /\ Goto(t, "lock") \/ Goto(t, "failed")
    /\ UNCHANGED <<table, pdes, call, type, earlier, actions, pidlist, pidlist_mutex, streams,
                   child, owes, calls>>

\* Mutant of ListActions: the streams opened before are left to the child.
ListActionsOwn(t) ==
    /\ pc[t] = "lock" /\ pidlist_mutex = NoThread
    /\ pidlist_mutex' = t
    /\ UNCHANGED actions
    /\ Goto(t, "spawn")
    /\ UNCHANGED <<type, call, pdes, earlier, table, pidlist, streams, child, owes,
                   calls>>

\* The first critical section lists a close for all of pidlist ...
ListActions(t) ==
    /\ pc[t] = "lock" /\ pidlist_mutex = NoThread
    /\ pidlist_mutex' = t
    /\ actions' = [actions EXCEPT ![t] = pidlist]
    /\ Goto(t, "spawn")
    /\ UNCHANGED <<type, call, pdes, earlier, table, pidlist, streams, child, owes,
                   calls>>

\* What the dup2 and close listed for the pipe itself make of the table (lines
\* 162-185; the standard descriptors are open, so the pipe has others).
AfterOwn(ty, r, w) ==
    [f \in AllFds |->
        IF f \in {r, w} THEN Unused
        ELSE IF f = 0 /\ ty = "w" THEN table[r]
        ELSE IF (f = 1 /\ ty # "w") \/ (f = 0 /\ ty = "r+") THEN table[w]
        ELSE table[f]]

OwnTable(t) == AfterOwn(type[t], pdes[t][1], pdes[t][2])

\* An action on a descriptor the child does not have fails: EBADF.
Bad(t) ==
    \/ Unused \in {table[pdes[t][1]], table[pdes[t][2]]}
    \/ \E i \in DOMAIN actions[t] :
          \/ OwnTable(t)[actions[t][i]] = Unused
          \/ \E j \in 1..(i - 1) : actions[t][j] = actions[t][i]

ChildTable(t) ==
    [f \in AllFds |-> IF f \in ToSet(actions[t]) THEN Unused ELSE OwnTable(t)[f]]

\* ... and posix_spawn runs them on the table of that moment.  It starts the
\* shell, runs out of something (as if fork failed), or fails otherwise.
Spawn(t) ==
    /\ pc[t] = "spawn"
    /\ pidlist_mutex' = NoThread
    /\ \/ /\ ~Bad(t)
          /\ child' = [child EXCEPT ![call[t]] = ChildTable(t)]
          /\ owes' = [owes EXCEPT ![call[t]] = earlier[t] \intersect {s.of : s \in streams}]
          /\ Goto(t, "close")
       \/ /\ Goto(t, "failed") \/ Goto(t, "close")
          /\ UNCHANGED <<child, owes>>
    /\ UNCHANGED <<table, pdes, call, type, earlier, actions, pidlist, streams, calls>>

\* fclose(iop) ...
CloseStream(t) ==
    /\ pc[t] = "failed"
    /\ table' = Closed({Ours(t)})
    /\ Goto(t, "other")
    /\ UNCHANGED <<type, call, pdes, earlier, actions, pidlist, pidlist_mutex, streams, child,
                   owes, calls>>

\* ... and close(other), or what fdopen left open; others have run in between.
CloseLast(t) ==
    /\ pc[t] \in {"other", "iop"}
    /\ table' = Closed({IF pc[t] = "other" THEN Other(t) ELSE Ours(t)})
    /\ Leave(t)
    /\ UNCHANGED <<pidlist, pidlist_mutex, streams, child, owes, calls>>

CloseOther(t) ==
    /\ pc[t] = "close"
    /\ table' = Closed({Other(t)})
    /\ Goto(t, "link")
    /\ UNCHANGED <<type, call, pdes, earlier, actions, pidlist, pidlist_mutex,
                   streams, child, owes, calls>>

\* The second critical section, and the return.
Link(t) ==
    /\ pc[t] = "link" /\ pidlist_mutex = NoThread
    /\ pidlist' = <<Ours(t)>> \o pidlist
    /\ streams' = streams \union {[of |-> call[t], fd |-> Ours(t)]}
    /\ Leave(t)
    /\ UNCHANGED <<table, pidlist_mutex, child, owes, calls>>

\* The caller closes a stream it has (external).
CallerCloses(s) ==
    /\ s \in streams
    /\ streams' = streams \ {s}
    /\ table' = Closed({s.fd})
    /\ UNCHANGED <<pc, type, call, pdes, earlier, actions, pidlist, pidlist_mutex,
                   child, owes, calls>>

--------------------------------------------------------------------------------
Next ==
    \/ \E t \in Threads :
          \/ OpenPipe(t) \/ Fdopen(t) \/ Allocate(t) \/ ListActions(t) \/ Spawn(t)
          \/ CloseStream(t) \/ CloseLast(t) \/ CloseOther(t) \/ Link(t)
    \/ \E s \in streams : CallerCloses(s)

Spec == Init /\ [][Next]_vars

--------------------------------------------------------------------------------
(* What must hold.                                                         *)

\* The descriptors only a call in progress knows of.
Holding(t) == IF pc[t] = "idle" THEN {}
              ELSE IF pc[t] \in {"link", "iop"} THEN {Ours(t)}
              ELSE IF pc[t] = "other" THEN {Other(t)} ELSE {Ours(t), Other(t)}

Spawned == {c \in Calls : child[c] # NoChild}
Holds(c, e) == \E f \in AllFds : child[c][f] = e
ParentEnd(c) == IF child[c][1] = [of |-> c, end |-> 1]
                THEN [of |-> c, end |-> 0] ELSE [of |-> c, end |-> 1]

\* The shell of call c has no descriptor of a stream it must not hold, and its
\* own end of the pipe through 0 or 1 only.
Connected(c) ==
    /\ \A d \in owes[c], e \in {0, 1} : ~Holds(c, [of |-> d, end |-> e])
    /\ LET mine == {f \in AllFds : child[c][f].of = c} IN
          /\ mine # {} /\ mine \subseteq {0, 1}
          /\ ~Holds(c, ParentEnd(c))

\* The shell reads or writes its end of the pipe through 0 or 1 and has no
\* other descriptor for either end, nor any for a stream that its popen found
\* open and that is open still: the end of file reaches both sides of every pipe
\* when its caller closes it (lines 162-194).
ShellIsConnected == \A c \in Spawned : Connected(c)
================================================================================
