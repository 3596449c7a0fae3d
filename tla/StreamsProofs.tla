----------------------------- MODULE StreamsProofs -----------------------------
(***************************************************************************)
(* For any threads, descriptors, thunks and numbers of calls: no           *)
(* descriptor is leaked or closed for somebody else, and every shell is    *)
(* connected to its pipe alone and inherits no stream opened before.       *)
(***************************************************************************)
EXTENDS Streams, TLAPS

\* The standard descriptors are the parent's own, and an end of a pipe is one
\* descriptor.
Ends ==
    /\ \A f \in AllFds \ Fds : table[f] = Terminal
    /\ \A f \in AllFds : table[f].of <= calls
    /\ \A f, g \in AllFds : table[f] = table[g] /\ table[f].of # 0 => f = g

\* The descriptors of a call of popen hold its pipe, and, at the end, nothing
\* else does any more.
Piped(t) ==
    /\ pc[t] # "idle" =>
        /\ at[t] = "none" /\ call[t] \in Calls /\ call[t] <= calls
        /\ pdes[t] \in Fds \X Fds /\ pdes[t][1] # pdes[t][2]
    /\ pc[t] \notin {"idle", "link", "iop", "other"} =>
        /\ table[pdes[t][1]] = [of |-> call[t], end |-> 0]
        /\ table[pdes[t][2]] = [of |-> call[t], end |-> 1]
    /\ pc[t] = "link" =>
        /\ table[Ours(t)].of = call[t]
        /\ \A f \in AllFds : table[f].of = call[t] => f = Ours(t)
    /\ at[t] = "setfl" => hold[t] \in Fds
    /\ at[t] = "funopen" => hold[t] \in Thunks

\* A stream is the one descriptor of its pipe, and is on pidlist.
Streamed(s) ==
    /\ table[s.fd].of = s.of
    /\ \A f \in AllFds : table[f].of = s.of => f = s.fd
    /\ s.fd \in ToSet(pidlist)

\* Between the two critical sections of a spawn nobody changes pidlist.
Listed(t) == pc[t] = "spawn" => pidlist_mutex = t /\ actions[t] = pidlist

StreamsInv ==
    /\ TypeOK /\ StreamsTypeOK
    /\ DescriptorsHaveOneOwner
    /\ Ends
    /\ \A t \in Threads : Piped(t) /\ Listed(t)
    /\ \A s \in streams : Streamed(s)
    /\ ShellIsConnected

--------------------------------------------------------------------------------
(* Types.                                                                  *)

\* What a descriptor is.
LEMMA WhatIs ==
    /\ Unused \in What /\ Terminal \in What /\ Socket \in What
    /\ Unused.of = 0 /\ Terminal.of = 0 /\ Socket.of = 0
    /\ Terminal # Unused /\ Socket # Unused
    /\ \A x \in What : x.of \in Nat /\ x.of <= MaxCalls
    /\ \A x \in What : x.of # 0 => x \in End
    /\ \A c \in Calls, e \in {0, 1} : LET x == [of |-> c, end |-> e] IN
          x \in What /\ x.of = c /\ x.end = e /\ x # Unused /\ c # 0
    /\ \A x, y \in End : x.of = y.of /\ x.end = y.end => x = y
    /\ \A x \in End : x.end \in {0, 1} /\ x.of \in Calls
<1>1. MaxCalls \in Nat
  BY FdAssumption
<1>2. \A x \in End : x.of \in Calls /\ x.end \in {0, 1} /\ x = [of |-> x.of, end |-> x.end]
  BY DEF End
<1>3. \A x \in {Unused, Terminal, Socket} : x.of = 0
  BY DEF Unused, Terminal, Socket
<1>4. \A x \in What : x \in End \/ x \in {Unused, Terminal, Socket}
  BY DEF What
<1>5. \A x \in What : x.of \in Nat /\ x.of <= MaxCalls
  BY <1>1, <1>2, <1>3, <1>4 DEF Calls
<1>6. \A x \in What : x.of # 0 => x \in End
  BY <1>3, <1>4
<1>7. \A x, y \in End : x.of = y.of /\ x.end = y.end => x = y
  BY <1>2
<1>8. \A c \in Calls, e \in {0, 1} : LET x == [of |-> c, end |-> e] IN
          x \in What /\ x.of = c /\ x.end = e /\ x # Unused /\ c # 0
  BY <1>1 DEF Calls, What, End, Unused
<1>9. Terminal # Unused /\ Socket # Unused
  BY DEF Terminal, Unused, Socket
<1> QED
  BY <1>2, <1>3, <1>5, <1>6, <1>7, <1>8, <1>9 DEF What

\* The descriptors of the process, and those of a call.
LEMMA FdsAre == /\ Fds \subseteq AllFds /\ 0 \in AllFds \ Fds /\ 1 \in AllFds \ Fds
                /\ Fds \subseteq Nat
BY FdAssumption DEF AllFds

LEMMA CallFds ==
    ASSUME NEW t, pdes[t] \in Fds \X Fds, pdes[t][1] # pdes[t][2]
    PROVE  /\ Ours(t) \in Fds /\ Other(t) \in Fds /\ Ours(t) # Other(t)
           /\ {Ours(t), Other(t)} = {pdes[t][1], pdes[t][2]}
BY DEF Ours, Other

LEMMA ClosedType ==
    ASSUME table \in [AllFds -> What], NEW S
    PROVE  Closed(S) \in [AllFds -> What]
BY WhatIs DEF Closed

\* Where a thread is in popen.
Labels == {"idle", "fdopen", "alloc", "lock", "spawn", "close", "link",
           "failed", "other", "iop"}

LEMMA LeaveType ==
    ASSUME TypeOK, NEW t \in Threads, Leave(t)
    PROVE  /\ pc' = [pc EXCEPT ![t] = "idle"]
           /\ pc' \in [Threads -> Labels]
           /\ type' \in [Threads -> Types] /\ call' \in [Threads -> 0..MaxCalls]
           /\ pdes' \in [Threads -> (Fds \union {0}) \X (Fds \union {0})]
           /\ earlier' \in [Threads -> SUBSET Calls] /\ actions' \in [Threads -> Seq(Fds)]
<1>1. 0 \in 0..MaxCalls /\ "r" \in Types /\ << >> \in Seq(Fds)
  BY FdAssumption DEF Types
<1>2. actions' \in [Threads -> Seq(Fds)]
  BY <1>1 DEF Leave, TypeOK
<1> QED
  BY <1>1, <1>2 DEF Leave, Goto, TypeOK, Labels

LEMMA InitType == StreamsInit => TypeOK /\ StreamsTypeOK
<1> SUFFICES ASSUME StreamsInit PROVE TypeOK /\ StreamsTypeOK
  OBVIOUS
<1>1. << >> \in Seq(Fds) /\ 0 \in 0..MaxCalls /\ 0 \in 0..MaxOthers
  BY FdAssumption, ThunkAssumption
<1>2. actions \in [Threads -> Seq(Fds)] /\ pidlist \in Seq(Fds)
  BY <1>1 DEF StreamsInit, Init
<1>3. table \in [AllFds -> What] /\ child \in [Calls -> [AllFds -> What]]
  BY WhatIs DEF StreamsInit, Init, NoChild
<1>4. TypeOK
  BY <1>1, <1>2, <1>3 DEF StreamsInit, Init, TypeOK, Types
<1>5. StreamsTypeOK
  BY <1>1 DEF StreamsInit, StreamsTypeOK
<1> QED
  BY <1>4, <1>5

\* The tables that a spawn makes out of tables.
LEMMA ChildType ==
    ASSUME TypeOK, NEW t \in Threads, pdes[t] \in Fds \X Fds
    PROVE  ChildTable(t) \in [AllFds -> What]
<1>1. pdes[t][1] \in AllFds /\ pdes[t][2] \in AllFds
  BY FdsAre
<1>2. OwnTable(t) \in [AllFds -> What]
  BY <1>1, WhatIs DEF OwnTable, AfterOwn, TypeOK
<1> QED
  BY <1>2, WhatIs DEF ChildTable

LEMMA StepType ==
    ASSUME StreamsInv, [StreamsNext]_<<vars, stdio>>
    PROVE  TypeOK' /\ StreamsTypeOK'
<1>0. TypeOK /\ StreamsTypeOK /\ \A t \in Threads : Piped(t)
  BY DEF StreamsInv
<1>1. CASE UNCHANGED <<vars, stdio>>
  BY <1>0, <1>1 DEF vars, stdio, TypeOK, StreamsTypeOK
<1>2. ASSUME NEW t \in Threads, OpenPipe(t), UNCHANGED stdio PROVE TypeOK' /\ StreamsTypeOK'
  <2>1. calls + 1 \in Calls /\ calls' = calls + 1 /\ calls' \in 0..MaxCalls
    BY <1>0, <1>2, FdAssumption DEF OpenPipe, TypeOK, Calls
  <2>2. table' \in [AllFds -> What]
    <3>1. [of |-> calls + 1, end |-> 0] \in What /\ [of |-> calls + 1, end |-> 1] \in What
      BY <2>1, WhatIs
    <3>2. PICK r \in Free, w \in Free :
              table' = [table EXCEPT ![r] = [of |-> calls + 1, end |-> 0],
                                     ![w] = [of |-> calls + 1, end |-> 1]]
      BY <1>2, <2>1 DEF OpenPipe
    <3> QED
      BY <1>0, <3>1, <3>2 DEF TypeOK
  <2>3. pdes' \in [Threads -> (Fds \union {0}) \X (Fds \union {0})]
    BY <1>0, <1>2 DEF OpenPipe, TypeOK, Free
  <2>4. earlier' \in [Threads -> SUBSET Calls] /\ type' \in [Threads -> Types]
    BY <1>0, <1>2 DEF OpenPipe, TypeOK
  <2>5. call' \in [Threads -> 0..MaxCalls]
    BY <1>0, <1>2, <2>1 DEF OpenPipe, TypeOK
  <2> QED
    BY <1>0, <1>2, <2>1, <2>2, <2>3, <2>4, <2>5 DEF OpenPipe, Goto, TypeOK, StreamsTypeOK, stdio
<1>3. ASSUME NEW t \in Threads, Fdopen(t) \/ Allocate(t), UNCHANGED stdio
      PROVE  TypeOK' /\ StreamsTypeOK'
  <2>1. PICK l \in {"alloc", "lock", "failed", "other", "iop"} : Goto(t, l)
    BY <1>3 DEF Fdopen, Allocate
  <2>2. table' \in [AllFds -> What]
    <3>1. table' = table \/ \E S : table' = Closed(S)
      BY <1>3 DEF Fdopen, Allocate
    <3> QED
      BY <1>0, <3>1, ClosedType DEF TypeOK
  <2>3. UNCHANGED <<type, call, pdes, earlier, actions, pidlist, pidlist_mutex, streams, child,
                    owes, calls>>
    BY <1>3 DEF Fdopen, Allocate
  <2> QED
    BY <1>0, <1>3, <2>1, <2>2, <2>3 DEF Goto, TypeOK, StreamsTypeOK, stdio
<1>4. ASSUME NEW t \in Threads, ListActions(t), UNCHANGED stdio PROVE TypeOK' /\ StreamsTypeOK'
  BY <1>0, <1>4 DEF ListActions, Goto, TypeOK, StreamsTypeOK, stdio
<1>5. ASSUME NEW t \in Threads, Spawn(t), UNCHANGED stdio PROVE TypeOK' /\ StreamsTypeOK'
  <2>1. CASE /\ child' = [child EXCEPT ![call[t]] = ChildTable(t)]
             /\ owes' = [owes EXCEPT ![call[t]] = earlier[t] \intersect {s.of : s \in streams}]
             /\ Goto(t, "close")
    <3>1. ChildTable(t) \in [AllFds -> What]
      BY <1>0, <1>5, ChildType DEF Spawn, Piped
    <3>2. earlier[t] \intersect {s.of : s \in streams} \in SUBSET Calls
      BY <1>0 DEF TypeOK
    <3> QED
      BY <1>0, <1>5, <2>1, <3>1, <3>2 DEF Spawn, Goto, TypeOK, StreamsTypeOK, stdio
  <2>2. CASE (Goto(t, "close") \/ Goto(t, "failed")) /\ UNCHANGED <<child, owes>>
    BY <1>0, <1>5, <2>2 DEF Spawn, Goto, TypeOK, StreamsTypeOK, stdio
  <2> QED
    BY <1>5, <2>1, <2>2 DEF Spawn
<1>6. ASSUME NEW t \in Threads, CloseOther(t), UNCHANGED stdio PROVE TypeOK' /\ StreamsTypeOK'
  BY <1>0, <1>6, ClosedType DEF CloseOther, Goto, TypeOK, StreamsTypeOK, stdio
<1>7. ASSUME NEW t \in Threads, Link(t), UNCHANGED stdio PROVE TypeOK' /\ StreamsTypeOK'
  <2>1. Ours(t) \in Fds /\ call[t] \in Calls
    BY <1>0, <1>7, CallFds DEF Link, Piped
  <2>2. pidlist' \in Seq(Fds)
    BY <1>0, <1>7, <2>1 DEF Link, TypeOK
  <2>3. streams' \subseteq [of : Calls, fd : Fds]
    BY <1>0, <1>7, <2>1 DEF Link, TypeOK
  <2> QED
    BY <1>0, <1>7, <2>2, <2>3, LeaveType DEF Link, TypeOK, StreamsTypeOK, stdio, Labels
<1>8. ASSUME NEW s \in streams, CallerCloses(s), UNCHANGED stdio PROVE TypeOK' /\ StreamsTypeOK'
  BY <1>0, <1>8, ClosedType DEF CallerCloses, TypeOK, StreamsTypeOK, stdio
<1>9. ASSUME NEW t \in Threads, Accept(t) PROVE TypeOK' /\ StreamsTypeOK'
  <2>1. PICK f \in Free : table' = [table EXCEPT ![f] = Socket] /\ Enters(t, "setfl", f)
    BY <1>9 DEF Accept
  <2>2. f \in Fds /\ others' \in 0..MaxOthers
    BY <1>0, <1>9, ThunkAssumption DEF Accept, Begins, Free, StreamsTypeOK
  <2>3. table' \in [AllFds -> What]
    BY <1>0, <2>1, WhatIs DEF TypeOK
  <2> QED
    BY <1>0, <1>9, <2>1, <2>2, <2>3 DEF Accept, Enters, TypeOK, StreamsTypeOK
<1>10. ASSUME NEW t \in Threads, SetFlags(t) PROVE TypeOK' /\ StreamsTypeOK'
  <2>0. hold[t] \in Fds
    BY <1>0, <1>10 DEF SetFlags, Piped
  <2>1. hold[t] \in Fds /\ table' \in [AllFds -> What]
    <3>1. table' = table \/ table' = Closed({hold[t]})
      BY <1>10 DEF SetFlags
    <3> QED
      BY <1>0, <2>0, <3>1, ClosedType DEF TypeOK
  <2> QED
    BY <1>0, <1>10, <2>1 DEF SetFlags, Enters, TypeOK, StreamsTypeOK
<1>11. ASSUME NEW t \in Threads, AllocateThunk(t) PROVE TypeOK' /\ StreamsTypeOK'
  BY <1>0, <1>11, ThunkAssumption DEF AllocateThunk, Begins, Enters, vars, TypeOK, StreamsTypeOK
<1>12. ASSUME NEW t \in Threads, Funopen(t) PROVE TypeOK' /\ StreamsTypeOK'
  <2>1. hold[t] \in Thunks
    BY <1>0, <1>12 DEF Funopen, Piped
  <2>2. cookies' \subseteq Thunks /\ thunks' \subseteq Thunks
    BY <1>0, <1>12, <2>1 DEF Funopen, StreamsTypeOK
  <2>3. TypeOK'
    BY <1>0, <1>12 DEF Funopen, vars, TypeOK
  <2>4. /\ at' \in [Threads -> {"none", "setfl", "funopen"}]
        /\ hold' \in [Threads -> Fds \union Thunks \union {0}]
    BY <1>0, <1>12 DEF Funopen, Enters, StreamsTypeOK
  <2> QED
    BY <1>0, <1>12, <2>2, <2>3, <2>4 DEF Funopen, StreamsTypeOK
<1>13. ASSUME NEW s \in streams, Fdclose(s) PROVE TypeOK' /\ StreamsTypeOK'
  BY <1>0, <1>13, ThunkAssumption DEF Fdclose, TypeOK, StreamsTypeOK
<1>14. ASSUME NEW k \in cookies, CloseCookie(k) PROVE TypeOK' /\ StreamsTypeOK'
  BY <1>0, <1>14 DEF CloseCookie, vars, TypeOK, StreamsTypeOK
<1>15. ASSUME NEW f \in sockets \union descriptors, CallerClosesFd(f) PROVE TypeOK' /\ StreamsTypeOK'
  BY <1>0, <1>15, ClosedType DEF CallerClosesFd, TypeOK, StreamsTypeOK
<1>16. ASSUME NEW t \in Threads, CloseStream(t), UNCHANGED stdio PROVE TypeOK' /\ StreamsTypeOK'
  BY <1>0, <1>16, ClosedType DEF CloseStream, Goto, TypeOK, StreamsTypeOK, stdio
<1>17. ASSUME NEW t \in Threads, CloseLast(t), UNCHANGED stdio PROVE TypeOK' /\ StreamsTypeOK'
  <2>1. table' \in [AllFds -> What]
    BY <1>0, <1>17, ClosedType DEF CloseLast, TypeOK
  <2> QED
    BY <1>0, <1>17, <2>1, LeaveType DEF CloseLast, TypeOK, StreamsTypeOK, stdio, Labels
<1> QED
  BY <1>1, <1>2, <1>3, <1>4, <1>5, <1>6, <1>7, <1>8, <1>9, <1>10, <1>11, <1>12, <1>13, <1>14, <1>15,
     <1>16, <1>17 DEF StreamsNext, PopenStep

--------------------------------------------------------------------------------
(* The ends of the pipes.                                                  *)

\* What a step can do to the table of descriptors.
OpensPipe(t, r, w) ==
    /\ OpenPipe(t) /\ calls' = calls + 1 /\ r # w
    /\ pdes' = [pdes EXCEPT ![t] = <<r, w>>] /\ call' = [call EXCEPT ![t] = calls + 1]
    /\ table' = [table EXCEPT ![r] = [of |-> calls + 1, end |-> 0],
                              ![w] = [of |-> calls + 1, end |-> 1]]

LEMMA PipeOpened ==
    ASSUME NEW t \in Threads, OpenPipe(t)
    PROVE  \E r, w \in Free : OpensPipe(t, r, w)
<1>1. PICK r \in Free, w \in Free :
          /\ IsLowest(r, Free) /\ IsLowest(w, Free \ {r})
          /\ pdes' = [pdes EXCEPT ![t] = <<r, w>>]
          /\ table' = [table EXCEPT ![r] = [of |-> calls', end |-> 0],
                                    ![w] = [of |-> calls', end |-> 1]]
  BY DEF OpenPipe
<1>2. r # w
  BY <1>1 DEF IsLowest
<1>3. calls' = calls + 1 /\ call' = [call EXCEPT ![t] = calls']
  BY DEF OpenPipe
<1>4. OpensPipe(t, r, w)
  BY <1>1, <1>2, <1>3 DEF OpensPipe
<1> QED
  BY <1>4

LEMMA TableChange ==
    ASSUME StreamsInv, [StreamsNext]_<<vars, stdio>>
    PROVE  \/ UNCHANGED <<table, calls>>
           \/ calls' = calls /\ \E S \in SUBSET Fds : table' = Closed(S)
           \/ calls' = calls /\ \E f \in Free : table' = [table EXCEPT ![f] = Socket]
           \/ \E t \in Threads : \E r, w \in Free : OpensPipe(t, r, w)
<1>0. TypeOK /\ StreamsTypeOK /\ \A t \in Threads : Piped(t)
  BY DEF StreamsInv
<1> USE DEF Leave
<1>1. CASE UNCHANGED <<table, calls>>
  BY <1>1
<1>2. ASSUME NEW t \in Threads, OpenPipe(t)
      PROVE  \E r, w \in Free : OpensPipe(t, r, w)
  BY <1>2, PipeOpened
<1>3. ASSUME NEW t \in Threads,
             Fdopen(t) \/ Allocate(t) \/ Spawn(t) \/ CloseStream(t) \/ CloseLast(t) \/ CloseOther(t)
      PROVE  /\ calls' = calls
             /\ table' = table \/ \E S \in SUBSET Fds : table' = Closed(S)
  <2>1. \A f \in {Ours(t), Other(t), pdes[t][1]} : {f} \in SUBSET Fds
    <3>1. pc[t] # "idle"
      BY <1>3 DEF Fdopen, Allocate, Spawn, CloseStream, CloseLast, CloseOther
    <3>2. pdes[t] \in Fds \X Fds /\ pdes[t][1] # pdes[t][2]
      BY <1>0, <3>1 DEF Piped
    <3> QED
      BY <3>2, CallFds
  <2>2. /\ calls' = calls
        /\ table' = table \/ \E f \in {Ours(t), Other(t), pdes[t][1]} : table' = Closed({f})
    BY <1>3 DEF Fdopen, Allocate, Spawn, CloseStream, CloseLast, CloseOther
  <2> QED
    BY <2>1, <2>2
<1>4. ASSUME NEW s \in streams, CallerCloses(s)
      PROVE  calls' = calls /\ \E S \in SUBSET Fds : table' = Closed(S)
  BY <1>0, <1>4 DEF CallerCloses, TypeOK
<1>5. ASSUME NEW t \in Threads, SetFlags(t)
      PROVE  /\ calls' = calls
             /\ table' = table \/ \E S \in SUBSET Fds : table' = Closed(S)
  <2>1. {hold[t]} \in SUBSET Fds
    BY <1>0, <1>5 DEF SetFlags, Piped
  <2> QED
    BY <1>5, <2>1 DEF SetFlags
<1>6. ASSUME NEW f \in sockets \union descriptors, CallerClosesFd(f)
      PROVE  calls' = calls /\ \E S \in SUBSET Fds : table' = Closed(S)
  BY <1>0, <1>6 DEF CallerClosesFd, StreamsTypeOK
<1>7. ASSUME NEW t \in Threads, Accept(t)
      PROVE  calls' = calls /\ \E f \in Free : table' = [table EXCEPT ![f] = Socket]
  BY <1>7 DEF Accept
<1>8. ASSUME NEW t \in Threads, ListActions(t) \/ Link(t) \/ AllocateThunk(t) \/ Funopen(t)
      PROVE  UNCHANGED <<table, calls>>
  BY <1>8 DEF ListActions, Link, AllocateThunk, Funopen, vars
<1>9. ASSUME (\E s \in streams : Fdclose(s)) \/ (\E k \in cookies : CloseCookie(k))
      PROVE  UNCHANGED <<table, calls>>
  BY <1>9 DEF Fdclose, CloseCookie, vars
<1> QED
  BY <1>1, <1>2, <1>3, <1>4, <1>5, <1>6, <1>7, <1>8, <1>9
     DEF StreamsNext, PopenStep, vars

\* What closing, accepting and opening a pipe make of the table.
LEMMA ClosedIs ==
    ASSUME TypeOK, NEW S \in SUBSET Fds, table' = Closed(S)
    PROVE  \A f \in AllFds : table'[f] = IF f \in S THEN Unused ELSE table[f]
BY DEF Closed

LEMMA AcceptedIs ==
    ASSUME TypeOK, NEW f \in Free, table' = [table EXCEPT ![f] = Socket]
    PROVE  /\ f \in Fds /\ table[f] = Unused
           /\ \A g \in AllFds : table'[g] = IF g = f THEN Socket ELSE table[g]
BY FdsAre DEF Free, TypeOK

LEMMA OpenedIs ==
    ASSUME TypeOK, NEW t \in Threads, NEW r \in Free, NEW w \in Free, OpensPipe(t, r, w)
    PROVE  /\ r \in Fds /\ w \in Fds /\ r # w /\ table[r] = Unused /\ table[w] = Unused
           /\ calls + 1 \in Calls
           /\ table'[r] = [of |-> calls + 1, end |-> 0] /\ table'[r].of = calls + 1
           /\ table'[w] = [of |-> calls + 1, end |-> 1] /\ table'[w].of = calls + 1
           /\ table'[r] # table'[w] /\ table'[r] # Unused /\ table'[w] # Unused
           /\ \A g \in AllFds \ {r, w} : table'[g] = table[g]
<1>1. r \in Fds /\ w \in Fds /\ r # w /\ table[r] = Unused /\ table[w] = Unused
  BY DEF Free, OpensPipe
<1>2. calls + 1 \in Calls
  BY FdAssumption DEF OpensPipe, OpenPipe, TypeOK, Calls
<1>3. /\ table'[r] = [of |-> calls + 1, end |-> 0]
      /\ table'[w] = [of |-> calls + 1, end |-> 1]
      /\ \A g \in AllFds \ {r, w} : table'[g] = table[g]
  BY <1>1, FdsAre DEF OpensPipe, TypeOK
<1>4. table'[r] # Unused /\ table'[w] # Unused /\ table'[r].of = calls + 1 /\ table'[w].of = calls + 1
  BY <1>2, <1>3, WhatIs
<1>5. table'[r] # table'[w]
  BY <1>3
<1> QED
  BY <1>1, <1>2, <1>3, <1>4, <1>5

LEMMA StepEnds ==
    ASSUME StreamsInv, [StreamsNext]_<<vars, stdio>>
    PROVE  Ends'
<1>0. TypeOK /\ Ends /\ calls \in Nat /\ table \in [AllFds -> What]
  BY FdAssumption DEF StreamsInv, TypeOK
<1>1. CASE UNCHANGED <<table, calls>>
  BY <1>0, <1>1 DEF Ends
<1>2. ASSUME NEW S \in SUBSET Fds, table' = Closed(S), calls' = calls PROVE Ends'
  <2>1. \A f \in AllFds : table'[f] = IF f \in S THEN Unused ELSE table[f]
    BY <1>0, <1>2, ClosedIs
  <2> QED
    BY <1>0, <1>2, <2>1, WhatIs DEF Ends
<1>3. ASSUME NEW f \in Free, table' = [table EXCEPT ![f] = Socket], calls' = calls PROVE Ends'
  <2>1. f \in Fds /\ \A g \in AllFds : table'[g] = IF g = f THEN Socket ELSE table[g]
    BY <1>0, <1>3, AcceptedIs
  <2> QED
    BY <1>0, <1>3, <2>1, WhatIs DEF Ends
<1>4. ASSUME NEW t \in Threads, NEW r \in Free, NEW w \in Free, OpensPipe(t, r, w) PROVE Ends'
  <2>1. /\ r \in Fds /\ w \in Fds /\ r # w
        /\ table'[r].of = calls + 1 /\ table'[w].of = calls + 1 /\ table'[r] # table'[w]
        /\ \A g \in AllFds \ {r, w} : table'[g] = table[g]
    BY <1>0, <1>4, OpenedIs
  <2>2. calls' = calls + 1
    BY <1>4 DEF OpensPipe
  <2>3. \A f \in AllFds : table[f].of \in Nat /\ table[f].of # calls + 1 /\ table[f].of <= calls + 1
    BY <1>0, WhatIs DEF Ends
  <2>4. \A f \in AllFds \ {r, w} : table'[f].of # calls + 1
    BY <2>1, <2>3
  <2>5. \A f \in AllFds \ Fds : table'[f] = Terminal
    BY <1>0, <2>1 DEF Ends
  <2>6. \A f \in AllFds : table'[f].of <= calls'
    BY <1>0, <2>1, <2>2, <2>3
  <2>7. ASSUME NEW f \in AllFds, NEW g \in AllFds, table'[f] = table'[g], table'[f].of # 0
        PROVE  f = g
    <3>1. CASE f \in {r, w} \/ g \in {r, w}
      BY <2>1, <2>4, <2>7, <3>1
    <3>2. CASE f \notin {r, w} /\ g \notin {r, w}
      BY <1>0, <2>1, <2>7, <3>2 DEF Ends
    <3> QED
      BY <3>1, <3>2
  <2> QED
    BY <2>5, <2>6, <2>7 DEF Ends
<1> QED
  BY <1>1, <1>2, <1>3, <1>4, TableChange

--------------------------------------------------------------------------------
(* Who acts, and what the others keep.                                     *)

PopenActs(t) ==
    /\ at[t] = "none" /\ UNCHANGED stdio
    /\ \/ OpenPipe(t) \/ Fdopen(t) \/ Allocate(t) \/ ListActions(t) \/ Spawn(t)
       \/ CloseStream(t) \/ CloseLast(t) \/ CloseOther(t) \/ Link(t)

Acts(t) == PopenActs(t) \/ Accept(t) \/ SetFlags(t) \/ AllocateThunk(t) \/ Funopen(t)

CallerActs ==
    \/ \E s \in streams : (CallerCloses(s) /\ UNCHANGED stdio) \/ Fdclose(s)
    \/ \E k \in cookies : CloseCookie(k)
    \/ \E f \in sockets \union descriptors : CallerClosesFd(f)

Locals(t) == <<pc[t], type[t], call[t], pdes[t], actions[t], at[t], hold[t]>>

LEMMA Actors ==
    ASSUME [StreamsNext]_<<vars, stdio>>
    PROVE  UNCHANGED <<vars, stdio>> \/ CallerActs \/ \E t \in Threads : Acts(t)
BY DEF StreamsNext, PopenStep, PopenActs, Acts, CallerActs

LEMMA OwnLocals ==
    ASSUME TypeOK, StreamsTypeOK, NEW t \in Threads,
           \/ UNCHANGED <<vars, stdio>>
           \/ CallerActs
           \/ \E u \in Threads \ {t} : Acts(u)
    PROVE  UNCHANGED Locals(t)
<1>0. /\ DOMAIN pc = Threads /\ DOMAIN type = Threads /\ DOMAIN call = Threads
      /\ DOMAIN pdes = Threads /\ DOMAIN actions = Threads /\ DOMAIN at = Threads
      /\ DOMAIN hold = Threads
  BY DEF TypeOK, StreamsTypeOK
<1>1. CASE UNCHANGED <<vars, stdio>>
  BY <1>1 DEF vars, stdio, Locals
<1>2. CASE CallerActs
  BY <1>2 DEF CallerActs, CallerCloses, Fdclose, CloseCookie, CallerClosesFd, vars, stdio, Locals
<1>3. ASSUME NEW u \in Threads \ {t}, Acts(u) PROVE UNCHANGED Locals(t)
  <2>1. CASE PopenActs(u)
    <3>1. CASE OpenPipe(u)
      BY <1>0, <2>1, <3>1 DEF PopenActs, OpenPipe, Goto, stdio, Locals
    <3>2. CASE Fdopen(u) \/ Allocate(u) \/ Spawn(u) \/ Link(u) \/ CloseLast(u)
      BY <1>0, <2>1, <3>2
         DEF PopenActs, Fdopen, Allocate, Spawn, Link, CloseLast, Leave, Goto, stdio, Locals
    <3>3. CASE ListActions(u) \/ CloseStream(u) \/ CloseOther(u)
      BY <1>0, <2>1, <3>3 DEF PopenActs, ListActions, CloseStream, CloseOther, Goto, stdio, Locals
    <3> QED
      BY <2>1, <3>1, <3>2, <3>3 DEF PopenActs
  <2>2. CASE Accept(u) \/ SetFlags(u) \/ AllocateThunk(u) \/ Funopen(u)
    BY <1>0, <2>2 DEF Accept, SetFlags, AllocateThunk, Funopen, Enters, vars, Locals
  <2> QED
    BY <1>3, <2>1, <2>2 DEF Acts
<1> QED
  BY <1>1, <1>2, <1>3

LEMMA OwnDescriptors ==
    ASSUME NEW t \in Threads, UNCHANGED Locals(t)
    PROVE  InCall(t)' = InCall(t) /\ Holding(t)' = Holding(t) /\ AcceptedBy(t)' = AcceptedBy(t)
           /\ Ours(t)' = Ours(t) /\ Other(t)' = Other(t)
BY DEF Locals, InCall, Holding, AcceptedBy, Ours, Other, Reads

\* What a call of popen holds is what Holding says, by where it is.
LEMMA HoldingIs ==
    ASSUME NEW t \in Threads, Piped(t)
    PROVE  /\ pc[t] = "idle" => Holding(t) = {}
           /\ pc[t] \in {"link", "iop"} => Holding(t) = {Ours(t)}
           /\ pc[t] = "other" => Holding(t) = {Other(t)}
           /\ pc[t] \notin {"idle", "link", "iop", "other"} =>
                 /\ Holding(t) = {Ours(t), Other(t)}
                 /\ Holding(t) = {pdes[t][1], pdes[t][2]}
           /\ pc[t] # "idle" => AcceptedBy(t) = {} /\ InCall(t) = Holding(t)
           /\ at[t] = "setfl" => InCall(t) = {hold[t]} /\ pc[t] = "idle"
           /\ pc[t] = "idle" /\ at[t] # "setfl" => InCall(t) = {}
           /\ Holding(t) \subseteq Fds /\ InCall(t) \subseteq Fds
<1>1. pc[t] # "idle" => /\ Ours(t) \in Fds /\ Other(t) \in Fds
                        /\ {Ours(t), Other(t)} = {pdes[t][1], pdes[t][2]}
  BY CallFds DEF Piped
<1> QED
  BY <1>1 DEF Piped, Holding, AcceptedBy, InCall

\* Nobody closes or overwrites a descriptor but the one who has it.
LEMMA OnlyOwnerCloses ==
    ASSUME StreamsInv, [StreamsNext]_<<vars, stdio>>, NEW f \in AllFds,
           table[f] # Unused, table'[f] # table[f]
    PROVE  \/ \E t \in Threads : Acts(t) /\ f \in InCall(t)
           \/ \E s \in streams : CallerCloses(s) /\ UNCHANGED stdio /\ f = s.fd
           \/ f \in sockets \union descriptors /\ CallerClosesFd(f)
<1>0. TypeOK /\ StreamsTypeOK /\ \A t \in Threads : Piped(t)
  BY DEF StreamsInv
<1>1. CASE UNCHANGED <<vars, stdio>>
  BY <1>1 DEF vars
<1>2. CASE CallerActs
  <2>1. ASSUME NEW s \in streams, CallerCloses(s), UNCHANGED stdio PROVE f = s.fd
    BY <1>0, <2>1 DEF CallerCloses, Closed
  <2>2. ASSUME NEW g \in sockets \union descriptors, CallerClosesFd(g) PROVE f = g
    BY <1>0, <2>2 DEF CallerClosesFd, Closed
  <2>3. ~(\E s \in streams : Fdclose(s)) /\ ~(\E k \in cookies : CloseCookie(k))
    BY DEF Fdclose, CloseCookie, vars
  <2> QED
    BY <1>2, <2>1, <2>2, <2>3 DEF CallerActs
<1>3. ASSUME NEW t \in Threads, Acts(t) PROVE f \in InCall(t)
  <2>0. Piped(t)
    BY <1>0
  <2>1. CASE PopenActs(t)
    <3>1. CASE OpenPipe(t)
      <4>1. PICK r \in Free, w \in Free : OpensPipe(t, r, w)
        BY <3>1, PipeOpened
      <4> QED
        BY <1>0, <4>1, OpenedIs
    <3>2. CASE Fdopen(t) \/ CloseStream(t) \/ CloseOther(t)
      <4>1. pc[t] \notin {"idle", "link", "iop", "other"}
        BY <3>2 DEF Fdopen, CloseStream, CloseOther
      <4>2. table' = table \/ \E g \in {Ours(t), Other(t), pdes[t][1]} : table' = Closed({g})
        BY <3>2 DEF Fdopen, CloseStream, CloseOther
      <4>3. f \in {Ours(t), Other(t), pdes[t][1]}
        BY <1>0, <4>2 DEF Closed
      <4> QED
        BY <2>0, <4>1, <4>3, HoldingIs
    <3>3. CASE Allocate(t) \/ ListActions(t) \/ Spawn(t) \/ Link(t)
      BY <3>3 DEF Allocate, ListActions, Spawn, Link
    <3>4. CASE CloseLast(t)
      <4>1. pc[t] \in {"other", "iop"} /\ f = IF pc[t] = "other" THEN Other(t) ELSE Ours(t)
        BY <1>0, <3>4 DEF CloseLast, Closed
      <4> QED
        BY <2>0, <4>1, HoldingIs
    <3> QED
      BY <2>1, <3>1, <3>2, <3>3, <3>4 DEF PopenActs
  <2>2. CASE Accept(t)
    <3>1. PICK g \in Free : table' = [table EXCEPT ![g] = Socket]
      BY <2>2 DEF Accept
    <3> QED
      BY <1>0, <3>1, AcceptedIs
  <2>3. CASE SetFlags(t)
    <3>1. at[t] = "setfl" /\ f = hold[t]
      BY <1>0, <2>3 DEF SetFlags, Closed
    <3> QED
      BY <2>0, <3>1, HoldingIs
  <2>4. CASE AllocateThunk(t) \/ Funopen(t)
    BY <2>4 DEF AllocateThunk, Funopen, vars
  <2> QED
    BY <1>3, <2>1, <2>2, <2>3, <2>4 DEF Acts
<1> QED
  BY <1>1, <1>2, <1>3, Actors

\* A thread that does not act keeps its place, and its descriptors.
LEMMA Bystander ==
    ASSUME StreamsInv, [StreamsNext]_<<vars, stdio>>, NEW t \in Threads, ~Acts(t)
    PROVE  /\ UNCHANGED Locals(t)
           /\ InCall(t)' = InCall(t) /\ Ours(t)' = Ours(t)
           /\ \A f \in InCall(t) : table'[f] = table[f] /\ table[f] # Unused
<1>0. TypeOK /\ StreamsTypeOK /\ FdsHaveOneOwner /\ \A u \in Threads : Piped(u)
  BY DEF StreamsInv, DescriptorsHaveOneOwner
<1>1. UNCHANGED Locals(t)
  <2>1. \/ UNCHANGED <<vars, stdio>>
        \/ CallerActs
        \/ \E u \in Threads \ {t} : Acts(u)
    BY Actors
  <2> QED
    BY <1>0, <2>1, OwnLocals
<1>2. ASSUME NEW f \in InCall(t) PROVE table'[f] = table[f] /\ table[f] # Unused
  <2>1. f \in Fds /\ f \in AllFds
    BY <1>0, HoldingIs, FdsAre
  <2>2. table[f] # Unused
    BY <1>0, <2>1 DEF FdsHaveOneOwner
  <2>3. \A u \in Threads : f \in InCall(u) => u = t
    BY <1>0 DEF FdsHaveOneOwner
  <2>4. f \notin InStreams \union sockets \union descriptors
    BY <1>0 DEF FdsHaveOneOwner
  <2>5. \A s \in streams : f # s.fd
    BY <2>4 DEF InStreams
  <2> QED
    BY <2>1, <2>2, <2>3, <2>4, <2>5, OnlyOwnerCloses
<1> QED
  BY <1>1, <1>2, OwnDescriptors

\* So do the stream that is not closed ...
LEMMA KeptStream ==
    ASSUME StreamsInv, [StreamsNext]_<<vars, stdio>>, NEW s \in streams, s \in streams'
    PROVE  table'[s.fd] = table[s.fd]
<1>0. TypeOK /\ FdsHaveOneOwner
  BY DEF StreamsInv, DescriptorsHaveOneOwner
<1>1. s.fd \in Fds /\ s.fd \in AllFds /\ s.fd \in InStreams
  BY <1>0, FdsAre DEF TypeOK, InStreams
<1>2. table[s.fd] # Unused
  BY <1>0, <1>1 DEF FdsHaveOneOwner
<1>3. \A t \in Threads : s.fd \notin InCall(t)
  BY <1>0, <1>1 DEF FdsHaveOneOwner
<1>4. s.fd \notin sockets \union descriptors
  BY <1>0, <1>1 DEF FdsHaveOneOwner
<1>5. \A r \in streams : CallerCloses(r) => s.fd # r.fd
  BY <1>0 DEF FdsHaveOneOwner, CallerCloses
<1> QED
  BY <1>1, <1>2, <1>3, <1>4, <1>5, OnlyOwnerCloses

\* What has the ends of a pipe of one call goes on having them, and nothing
\* else gets them.
LEMMA SamePipe ==
    ASSUME StreamsInv, [StreamsNext]_<<vars, stdio>>, NEW c \in Calls, c <= calls
    PROVE  /\ c <= calls'
           /\ \A f \in AllFds : table'[f].of = c => table[f].of = c
<1>0. TypeOK /\ Ends /\ calls \in Nat /\ c \in Nat /\ c # 0 /\ c # calls + 1
  BY FdAssumption DEF StreamsInv, TypeOK, Calls
<1>1. CASE UNCHANGED <<table, calls>>
  BY <1>1
<1>2. ASSUME NEW S \in SUBSET Fds, table' = Closed(S), calls' = calls
      PROVE  \A f \in AllFds : table'[f].of = c => table[f].of = c
  BY <1>0, <1>2, ClosedIs, WhatIs
<1>3. ASSUME NEW f \in Free, table' = [table EXCEPT ![f] = Socket], calls' = calls
      PROVE  \A g \in AllFds : table'[g].of = c => table[g].of = c
  BY <1>0, <1>3, AcceptedIs, WhatIs
<1>4. ASSUME NEW t \in Threads, NEW r \in Free, NEW w \in Free, OpensPipe(t, r, w)
      PROVE  /\ calls' = calls + 1
             /\ \A g \in AllFds : table'[g].of = c => table[g].of = c
  <2>1. /\ table'[r].of = calls + 1 /\ table'[w].of = calls + 1
        /\ \A g \in AllFds \ {r, w} : table'[g] = table[g]
    BY <1>0, <1>4, OpenedIs
  <2>2. calls' = calls + 1
    BY <1>4 DEF OpensPipe
  <2> QED
    BY <1>0, <2>1, <2>2
<1>5. c <= calls + 1
  BY <1>0
<1> QED
  BY <1>1, <1>2, <1>3, <1>4, <1>5, TableChange

--------------------------------------------------------------------------------
(* The pipes, the list and the streams.                                    *)

\* Every step keeps what is known of the pipe of a call.
LEMMA StepPiped ==
    ASSUME StreamsInv, [StreamsNext]_<<vars, stdio>>, NEW t \in Threads
    PROVE  Piped(t)'
<1>0. TypeOK /\ StreamsTypeOK /\ Ends /\ Piped(t) /\ calls \in Nat
  BY FdAssumption DEF StreamsInv, TypeOK
<1>d. /\ DOMAIN pc = Threads /\ DOMAIN type = Threads /\ DOMAIN call = Threads
      /\ DOMAIN pdes = Threads /\ DOMAIN actions = Threads /\ DOMAIN at = Threads
      /\ DOMAIN hold = Threads
  BY <1>0 DEF TypeOK, StreamsTypeOK
<1>1. CASE ~Acts(t)
  <2>1. /\ UNCHANGED Locals(t) /\ Ours(t)' = Ours(t)
        /\ \A f \in InCall(t) : table'[f] = table[f]
    BY <1>1, Bystander
  <2>2. CASE pc[t] = "idle"
    BY <1>0, <2>1, <2>2 DEF Piped, Locals
  <2>3. CASE pc[t] # "idle"
    <3>1. call[t] \in Calls /\ call[t] <= calls'
          /\ \A f \in AllFds : table'[f].of = call[t] => table[f].of = call[t]
      BY <1>0, <2>3, SamePipe DEF Piped
    <3>2. CASE pc[t] = "link"
      <4>1. table'[Ours(t)] = table[Ours(t)]
        BY <1>0, <2>1, <3>2, HoldingIs
      <4> QED
        BY <1>0, <2>1, <3>1, <3>2, <4>1 DEF Piped, Locals
    <3>3. CASE pc[t] \notin {"idle", "link", "iop", "other"}
      <4>1. table'[pdes[t][1]] = table[pdes[t][1]] /\ table'[pdes[t][2]] = table[pdes[t][2]]
        BY <1>0, <2>1, <2>3, <3>3, HoldingIs
      <4> QED
        BY <1>0, <2>1, <2>3, <3>1, <3>3, <4>1 DEF Piped, Locals
    <3>4. CASE pc[t] \in {"iop", "other"}
      BY <1>0, <2>1, <2>3, <3>1, <3>4 DEF Piped, Locals
    <3> QED
      BY <2>3, <3>2, <3>3, <3>4
  <2> QED
    BY <2>2, <2>3
<1>2. CASE PopenActs(t)
  <2>0. at[t] = "none" /\ at'[t] = "none"
    BY <1>2 DEF PopenActs, stdio
  <2>1. CASE OpenPipe(t)
    <3>1. PICK r \in Free, w \in Free : OpensPipe(t, r, w)
      BY <2>1, PipeOpened
    <3>2. /\ r \in Fds /\ w \in Fds /\ r # w /\ calls + 1 \in Calls /\ calls' = calls + 1
          /\ table'[r] = [of |-> calls + 1, end |-> 0]
          /\ table'[w] = [of |-> calls + 1, end |-> 1]
      BY <1>0, <3>1, OpenedIs DEF OpensPipe
    <3>3. pc'[t] = "fdopen" /\ call'[t] = calls + 1 /\ pdes'[t] = <<r, w>>
      BY <1>d, <2>1, <3>1 DEF OpensPipe, OpenPipe, Goto
    <3>4. calls + 1 <= calls'
      BY <1>0, <3>2
    <3> QED
      BY <2>0, <3>2, <3>3, <3>4 DEF Piped
  <2>2. CASE pc'[t] = "idle"
    BY <2>0, <2>2 DEF Piped
  <2>3. CASE /\ pc[t] \notin {"idle", "link", "iop", "other"} /\ pc'[t] \notin {"idle", "link", "iop", "other"}
             /\ UNCHANGED <<table, pdes, call, calls>>
    BY <1>0, <2>0, <2>3 DEF Piped
  <2>4. CASE CloseOther(t)
    <3>0. /\ pc[t] = "close" /\ pc'[t] = "link" /\ UNCHANGED <<pdes, call, type, calls>>
          /\ table' = Closed({Other(t)}) /\ Ours(t)' = Ours(t)
      BY <1>d, <2>4 DEF CloseOther, Goto, Ours, Reads
    <3>1. /\ Ours(t) \in Fds /\ Other(t) \in Fds /\ Ours(t) # Other(t) /\ call[t] \in Calls
          /\ Ours(t) \in AllFds /\ Other(t) \in AllFds
      BY <1>0, <3>0, CallFds, FdsAre DEF Piped
    <3>2. \A f \in AllFds : table'[f] = IF f = Other(t) THEN Unused ELSE table[f]
      BY <1>0, <3>0, <3>1, ClosedIs
    <3>3. \A e \in {0, 1} : \E g \in {Ours(t), Other(t)} : table[g] = [of |-> call[t], end |-> e]
      BY <1>0, <3>0 DEF Piped, Ours, Other
    <3>4. table[Ours(t)].of = call[t] /\ call[t] # 0
      <4>1. table[pdes[t][1]].of = call[t] /\ table[pdes[t][2]].of = call[t] /\ call[t] # 0
        BY <1>0, <3>0, <3>1, WhatIs DEF Piped
      <4> QED
        BY <4>1 DEF Ours
    <3>5. ASSUME NEW f \in AllFds, table'[f].of = call[t] PROVE f = Ours(t)
      <4>1. f # Other(t) /\ table[f].of = call[t]
        BY <3>2, <3>4, <3>5, WhatIs
      <4>2. table[f] \in End /\ table[f] = [of |-> call[t], end |-> table[f].end]
            /\ table[f].end \in {0, 1}
        BY <1>0, <3>4, <4>1, WhatIs DEF TypeOK, End
      <4>3. PICK g \in {Ours(t), Other(t)} : table[g] = table[f]
        BY <3>3, <4>2
      <4>4. f = g
        BY <1>0, <3>1, <3>4, <4>1, <4>3 DEF Ends
      <4> QED
        BY <4>1, <4>3, <4>4
    <3>6. table'[Ours(t)].of = call[t]
      BY <3>1, <3>2, <3>4
    <3> QED
      BY <1>0, <2>0, <3>0, <3>5, <3>6 DEF Piped
  <2>5. CASE Fdopen(t) \/ Allocate(t) \/ Spawn(t) \/ CloseStream(t)
    <3>1. CASE /\ UNCHANGED <<pdes, call, calls>>
               /\ \E l \in {"other", "iop"} : Goto(t, l)
      <4>1. pc'[t] \in {"other", "iop"} /\ pc[t] # "idle"
        BY <1>d, <2>5, <3>1 DEF Goto, Fdopen, Allocate, Spawn, CloseStream
      <4> QED
        BY <1>0, <2>0, <3>1, <4>1 DEF Piped
    <3>2. CASE /\ UNCHANGED <<table, pdes, call, calls>>
               /\ \E l \in {"alloc", "lock", "close", "failed"} : Goto(t, l)
      <4>1. pc[t] \notin {"idle", "link", "iop", "other"} /\ pc'[t] \notin {"idle", "link", "iop", "other"}
        BY <1>d, <2>5, <3>2 DEF Fdopen, Allocate, Spawn, CloseStream, Goto
      <4> QED
        BY <2>3, <3>2, <4>1
    <3>3. UNCHANGED <<pdes, call, calls>>
      BY <2>5 DEF Fdopen, Allocate, Spawn, CloseStream
    <3> QED
      BY <2>5, <3>1, <3>2, <3>3 DEF Fdopen, Allocate, Spawn, CloseStream
  <2>6. CASE ListActions(t)
    BY <1>d, <2>3, <2>6 DEF ListActions, Goto
  <2>7. CASE Link(t)
    BY <1>d, <2>2, <2>7 DEF Link, Leave, Goto
  <2>8. CASE CloseLast(t)
    BY <1>d, <2>2, <2>8 DEF CloseLast, Leave, Goto
  <2> QED
    BY <1>2, <2>1, <2>4, <2>5, <2>6, <2>7, <2>8 DEF PopenActs
<1>3. CASE Accept(t)
  <2>1. PICK f \in Free : Enters(t, "setfl", f)
    BY <1>3 DEF Accept
  <2> QED
    BY <1>d, <1>3, <2>1 DEF Accept, Begins, Enters, Piped, Free
<1>4. CASE AllocateThunk(t)
  BY <1>d, <1>4 DEF AllocateThunk, Begins, Enters, Piped, vars
<1>5. CASE SetFlags(t) \/ Funopen(t)
  <2>1. pc[t] = "idle" /\ pc'[t] = "idle" /\ at'[t] = "none"
    BY <1>0, <1>d, <1>5 DEF SetFlags, Funopen, Enters, Piped, vars
  <2> QED
    BY <2>1 DEF Piped
<1> QED
  BY <1>1, <1>2, <1>3, <1>4, <1>5 DEF Acts

\* Between ListActions and Spawn of a thread no other passes the mutex.
LEMMA StepListed ==
    ASSUME StreamsInv, [StreamsNext]_<<vars, stdio>>, NEW t \in Threads
    PROVE  Listed(t)'
<1>0. TypeOK /\ StreamsTypeOK /\ (\A u \in Threads : Listed(u)) /\ t # NoThread
  BY FdAssumption DEF StreamsInv
<1>1. CASE ~Acts(t)
  <2> SUFFICES ASSUME pc'[t] = "spawn" PROVE pidlist_mutex' = t /\ actions'[t] = pidlist'
    BY DEF Listed
  <2>1. pc[t] = "spawn" /\ actions'[t] = actions[t] /\ pidlist_mutex = t /\ actions[t] = pidlist
    <3>1. UNCHANGED Locals(t)
      BY <1>1, Bystander
    <3> QED
      BY <1>0, <3>1 DEF Locals, Listed
  <2>2. ASSUME NEW u \in Threads, Acts(u), u # t PROVE UNCHANGED <<pidlist, pidlist_mutex>>
    <3>1. ~ListActions(u) /\ ~Link(u) /\ ~Spawn(u)
      BY <1>0, <2>1, <2>2 DEF ListActions, Link, Spawn, Listed
    <3> QED
      BY <2>2, <3>1 DEF Acts, PopenActs, OpenPipe, Fdopen, Allocate, CloseStream, CloseLast, CloseOther,
                        Accept, SetFlags, AllocateThunk, Funopen, vars
  <2>3. CASE CallerActs
    BY <2>1, <2>3 DEF CallerActs, CallerCloses, Fdclose, CloseCookie, CallerClosesFd, vars
  <2>4. CASE UNCHANGED <<vars, stdio>>
    BY <2>1, <2>4 DEF vars
  <2> QED
    BY <1>1, <2>1, <2>2, <2>3, <2>4, Actors
<1>2. CASE Acts(t)
  <2>1. CASE ListActions(t)
    BY <1>0, <2>1 DEF ListActions, TypeOK, Listed
  <2>2. CASE Accept(t) \/ SetFlags(t) \/ AllocateThunk(t) \/ Funopen(t)
    BY <1>0, <2>2 DEF Accept, SetFlags, AllocateThunk, Funopen, vars, Listed
  <2>3. CASE \/ OpenPipe(t) \/ Fdopen(t) \/ Allocate(t) \/ Spawn(t) \/ CloseStream(t)
             \/ CloseLast(t) \/ CloseOther(t) \/ Link(t)
    <3>1. pc'[t] # "spawn"
      BY <1>0, <2>3 DEF OpenPipe, Fdopen, Allocate, Spawn, CloseStream, CloseLast, CloseOther, Link,
                        Leave, Goto, TypeOK
    <3> QED
      BY <3>1 DEF Listed
  <2> QED
    BY <1>2, <2>1, <2>2, <2>3 DEF Acts, PopenActs
<1> QED
  BY <1>1, <1>2

\* Streams come from a Link, which puts them on pidlist, and nothing leaves it.
LEMMA StreamsGrow ==
    ASSUME StreamsInv, [StreamsNext]_<<vars, stdio>>
    PROVE  \/ \E t \in Threads :
                 /\ pc[t] = "link" /\ at[t] = "none" /\ Link(t)
                 /\ UNCHANGED <<stdio, table>>
           \/ UNCHANGED pidlist /\ streams' \subseteq streams
<1>1. CASE UNCHANGED <<vars, stdio>>
  BY <1>1 DEF vars
<1>2. CASE CallerActs
  BY <1>2 DEF CallerActs, CallerCloses, Fdclose, CloseCookie, CallerClosesFd, vars
<1>3. ASSUME NEW t \in Threads, Acts(t), ~Link(t) PROVE UNCHANGED <<pidlist, streams>>
  BY <1>3 DEF Acts, PopenActs, OpenPipe, Fdopen, Allocate, ListActions, Spawn, CloseStream,
              CloseLast, CloseOther, Accept, SetFlags, AllocateThunk, Funopen, vars
<1>4. ASSUME NEW t \in Threads, Acts(t), Link(t)
      PROVE  pc[t] = "link" /\ at[t] = "none" /\ UNCHANGED <<stdio, table>>
  <2>1. pc[t] = "link" /\ table' = table /\ Piped(t) /\ pc'[t] = "idle"
    BY <1>4 DEF Link, Leave, Goto, StreamsInv, TypeOK
  <2>2. ~Accept(t) /\ ~SetFlags(t) /\ ~AllocateThunk(t) /\ ~Funopen(t)
    BY <2>1 DEF Piped, Accept, SetFlags, AllocateThunk, Funopen, Begins, vars
  <2> QED
    BY <1>4, <2>1, <2>2 DEF Acts, PopenActs
<1> QED
  BY <1>1, <1>2, <1>3, <1>4, Actors

LEMMA StepStreamed ==
    ASSUME StreamsInv, [StreamsNext]_<<vars, stdio>>, NEW s \in streams'
    PROVE  Streamed(s)'
<1>0. TypeOK /\ StreamsTypeOK /\ Ends /\ pidlist \in Seq(Fds)
  BY DEF StreamsInv, TypeOK
<1>1. CASE s \in streams
  <2>1. Streamed(s) /\ s.of \in Calls /\ s.fd \in Fds /\ s.fd \in AllFds
    BY <1>0, <1>1, FdsAre DEF StreamsInv, TypeOK
  <2>2. s.of <= calls
    BY <1>0, <2>1 DEF Streamed, Ends
  <2>3. table'[s.fd] = table[s.fd]
    BY <1>1, KeptStream
  <2>4. \A f \in AllFds : table'[f].of = s.of => table[f].of = s.of
    BY <2>1, <2>2, SamePipe
  <2>5. s.fd \in ToSet(pidlist')
    <3>1. ASSUME NEW t \in Threads, Link(t) PROVE s.fd \in ToSet(pidlist')
      <4>1. pidlist' = <<Ours(t)>> \o pidlist
        BY <3>1 DEF Link
      <4>2. PICK i \in 1..Len(pidlist) : pidlist[i] = s.fd
        BY <1>0, <2>1 DEF Streamed, ToSet
      <4>3. Len(pidlist') = Len(pidlist) + 1 /\ pidlist'[i + 1] = s.fd
        BY <1>0, <4>1, <4>2
      <4>4. i + 1 \in DOMAIN pidlist'
        BY <1>0, <4>1, <4>2, <4>3
      <4> QED
        BY <4>3, <4>4 DEF ToSet
    <3> QED
      BY <2>1, <3>1, StreamsGrow DEF Streamed
  <2> QED
    BY <2>1, <2>3, <2>4, <2>5 DEF Streamed
<1>2. CASE s \notin streams
  <2>1. PICK t \in Threads : pc[t] = "link" /\ Link(t) /\ UNCHANGED table
    BY <1>2, StreamsGrow
  <2>2. s = [of |-> call[t], fd |-> Ours(t)] /\ pidlist' = <<Ours(t)>> \o pidlist
    BY <1>2, <2>1 DEF Link
  <2>3. /\ table[Ours(t)].of = call[t]
        /\ \A f \in AllFds : table[f].of = call[t] => f = Ours(t)
    BY <2>1 DEF StreamsInv, Piped
  <2>4. Ours(t) \in ToSet(pidlist')
    <3>1. 1 \in DOMAIN pidlist' /\ pidlist'[1] = Ours(t)
      BY <1>0, <2>2
    <3> QED
      BY <3>1 DEF ToSet
  <2> QED
    BY <2>1, <2>2, <2>3, <2>4 DEF Streamed
<1> QED
  BY <1>1, <1>2

--------------------------------------------------------------------------------
(* The owners of the descriptors.                                          *)

\* A thread gives some of its descriptors up, or takes free ones.
LEMMA ThreadChanges ==
    ASSUME TypeOK, FdsHaveOneOwner, NEW t \in Threads,
           \A u \in Threads : InCall(u) \subseteq Fds,
           \A u \in Threads \ {t} : InCall(u)' = InCall(u),
           UNCHANGED <<streams, sockets, descriptors>>,
           InCall(t)' \subseteq InCall(t) \union Free,
           \A f \in Fds : table'[f] # Unused <=>
              f \in InCall(t)' \/ (table[f] # Unused /\ f \notin InCall(t))
    PROVE  FdsHaveOneOwner'
<1>1. /\ InStreams' = InStreams /\ sockets' = sockets /\ descriptors' = descriptors
      /\ streams' = streams
  BY DEF InStreams
<1> DEFINE C == InStreams \union sockets \union descriptors
<1>2. \A f \in Free : f \notin C /\ \A u \in Threads : f \notin InCall(u)
  BY DEF FdsHaveOneOwner, Free
<1>3. InCall(t)' \intersect C = {} /\ \A u \in Threads \ {t} : InCall(t)' \intersect InCall(u) = {}
  BY <1>2 DEF FdsHaveOneOwner
<1>4. \A f \in Fds : table'[f] # Unused <=> f \in C \/ \E u \in Threads : f \in InCall(u)'
  <2> SUFFICES ASSUME NEW f \in Fds
               PROVE  table'[f] # Unused <=> f \in C \/ \E u \in Threads : f \in InCall(u)'
    OBVIOUS
  <2>1. table[f] # Unused <=> f \in C \/ \E u \in Threads : f \in InCall(u)
    BY DEF FdsHaveOneOwner
  <2>2. f \in InCall(t) => f \notin C /\ \A u \in Threads \ {t} : f \notin InCall(u)
    BY DEF FdsHaveOneOwner
  <2> QED
    BY <2>1, <2>2
<1>5. \A u, v \in Threads : u # v => InCall(u)' \intersect InCall(v)' = {}
  <2> SUFFICES ASSUME NEW u \in Threads, NEW v \in Threads, u # v
               PROVE  InCall(u)' \intersect InCall(v)' = {}
    OBVIOUS
  <2>1. CASE u = t
    BY <1>3, <2>1
  <2>2. CASE v = t
    BY <1>3, <2>2
  <2>3. CASE u # t /\ v # t
    BY <2>3 DEF FdsHaveOneOwner
  <2> QED
    BY <2>1, <2>2, <2>3
<1>6. \A u \in Threads : InCall(u)' \intersect C = {}
  <2> SUFFICES ASSUME NEW u \in Threads PROVE InCall(u)' \intersect C = {}
    OBVIOUS
  <2>1. CASE u = t
    BY <1>3, <2>1
  <2>2. CASE u # t
    BY <2>2 DEF FdsHaveOneOwner
  <2> QED
    BY <2>1, <2>2
<1>7. /\ \A r, s \in streams : r.fd = s.fd => r = s
      /\ InStreams \intersect (sockets \union descriptors) = {}
      /\ sockets \intersect descriptors = {}
  BY DEF FdsHaveOneOwner
<1> QED
  BY <1>1, <1>4, <1>5, <1>6, <1>7 DEF FdsHaveOneOwner

\* A thread hands its one descriptor to its caller.
LEMMA ThreadReturns ==
    ASSUME FdsHaveOneOwner, NEW t \in Threads, NEW o, InCall(t) = {o}, InCall(t)' = {},
           \A u \in Threads \ {t} : InCall(u)' = InCall(u), UNCHANGED <<table, descriptors>>,
           \/ /\ \E c : streams' = streams \union {[of |-> c, fd |-> o]}
              /\ sockets' = sockets
           \/ (sockets' = sockets \union {o} /\ streams' = streams)
    PROVE  FdsHaveOneOwner'
<1>1. \/ (InStreams' = InStreams \union {o} /\ sockets' = sockets)
      \/ (sockets' = sockets \union {o} /\ InStreams' = InStreams)
  <2>1. ASSUME NEW c, streams' = streams \union {[of |-> c, fd |-> o]}
        PROVE  InStreams' = InStreams \union {o}
    <3>1. [of |-> c, fd |-> o].fd = o
      OBVIOUS
    <3> QED
      BY <2>1, <3>1 DEF InStreams
  <2> QED
    BY <2>1 DEF InStreams
<1>2. o \notin InStreams /\ o \notin sockets /\ o \notin descriptors
      /\ \A u \in Threads \ {t} : o \notin InCall(u)
  BY DEF FdsHaveOneOwner
<1>3. \A u \in Threads : InCall(u)' \subseteq InCall(u) /\ InCall(u)' \intersect {o} = {}
  BY <1>2
<1>4. /\ \A f \in Fds :
          table'[f] # Unused <=> \/ \E u \in Threads : f \in InCall(u)'
                                \/ f \in InStreams' \union sockets' \union descriptors'
  <2> SUFFICES ASSUME NEW f \in Fds
               PROVE  table[f] # Unused <=> \/ \E u \in Threads : f \in InCall(u)'
                                         \/ f \in InStreams' \union sockets' \union descriptors'
    OBVIOUS
  <2>1. table[f] # Unused <=> \/ \E u \in Threads : f \in InCall(u)
                              \/ f \in InStreams \union sockets \union descriptors
    BY DEF FdsHaveOneOwner
  <2>2. (\E u \in Threads : f \in InCall(u)) <=> f = o \/ \E u \in Threads : f \in InCall(u)'
    OBVIOUS
  <2>3. f \in InStreams' \union sockets' \union descriptors'
        <=> f = o \/ f \in InStreams \union sockets \union descriptors
    BY <1>1
  <2> QED
    BY <2>1, <2>2, <2>3
<1>5. \A u, v \in Threads : u # v => InCall(u)' \intersect InCall(v)' = {}
  BY <1>3 DEF FdsHaveOneOwner
<1>6. \A u \in Threads :
          InCall(u)' \intersect (InStreams' \union sockets' \union descriptors') = {}
  BY <1>1, <1>3 DEF FdsHaveOneOwner
<1>7. \A r, s \in streams' : r.fd = s.fd => r = s
  <2>1. \A r \in streams : r.fd # o
    BY <1>2 DEF InStreams
  <2> QED
    BY <2>1 DEF FdsHaveOneOwner
<1>8. /\ InStreams' \intersect (sockets' \union descriptors') = {}
      /\ sockets' \intersect descriptors' = {}
  BY <1>1, <1>2 DEF FdsHaveOneOwner
<1> QED
  BY <1>4, <1>5, <1>6, <1>7, <1>8 DEF FdsHaveOneOwner

\* A caller closes a descriptor it has, or takes it out of its stream.
LEMMA CallerChanges ==
    ASSUME TypeOK, FdsHaveOneOwner, NEW f \in Fds, f \in InStreams \union sockets \union descriptors,
           \A u \in Threads : InCall(u)' = InCall(u),
           streams' = {s \in streams : s.fd # f}, sockets' = sockets \ {f},
           \/ (descriptors' = descriptors \ {f} /\ table' = Closed({f}))
           \/ (descriptors' = descriptors \union {f} /\ table' = table)
    PROVE  FdsHaveOneOwner'
<1>1. InStreams' = InStreams \ {f}
  BY DEF InStreams
<1>2. f \in AllFds /\ table[f] # Unused /\ \A u \in Threads : f \notin InCall(u)
  BY FdsAre DEF FdsHaveOneOwner
<1>3. \/ (descriptors' = descriptors \ {f} /\ table'[f] = Unused)
      \/ (descriptors' = descriptors \union {f} /\ table'[f] # Unused)
  BY <1>2 DEF Closed
<1>4. \A g \in Fds : g # f => table'[g] = table[g]
  BY FdsAre DEF Closed
<1>5. \A g \in Fds :
          table'[g] # Unused <=> \/ \E u \in Threads : g \in InCall(u)'
                                \/ g \in InStreams' \union sockets' \union descriptors'
  <2> SUFFICES ASSUME NEW g \in Fds
               PROVE  table'[g] # Unused <=> \/ \E u \in Threads : g \in InCall(u)'
                                         \/ g \in InStreams' \union sockets' \union descriptors'
    OBVIOUS
  <2>1. table[g] # Unused <=> \/ \E u \in Threads : g \in InCall(u)
                              \/ g \in InStreams \union sockets \union descriptors
    BY DEF FdsHaveOneOwner
  <2>2. CASE g = f
    BY <1>1, <1>2, <1>3, <2>2
  <2>3. CASE g # f
    BY <1>1, <1>3, <1>4, <2>1, <2>3
  <2> QED
    BY <2>2, <2>3
<1>6. \A u, v \in Threads : u # v => InCall(u)' \intersect InCall(v)' = {}
  BY DEF FdsHaveOneOwner
<1>7. \A u \in Threads :
          InCall(u)' \intersect (InStreams' \union sockets' \union descriptors') = {}
  BY <1>1, <1>2, <1>3 DEF FdsHaveOneOwner
<1>8. /\ \A r, s \in streams' : r.fd = s.fd => r = s
      /\ InStreams' \intersect (sockets' \union descriptors') = {}
      /\ sockets' \intersect descriptors' = {}
  BY <1>1, <1>3 DEF FdsHaveOneOwner
<1> QED
  BY <1>5, <1>6, <1>7, <1>8 DEF FdsHaveOneOwner

LEMMA StepFds ==
    ASSUME StreamsInv, [StreamsNext]_<<vars, stdio>>
    PROVE  FdsHaveOneOwner'
<1>0. /\ TypeOK /\ StreamsTypeOK /\ FdsHaveOneOwner
      /\ \A u \in Threads : Piped(u) /\ InCall(u) \subseteq Fds
  BY HoldingIs DEF StreamsInv, DescriptorsHaveOneOwner
<1>d. /\ DOMAIN pc = Threads /\ DOMAIN type = Threads /\ DOMAIN call = Threads
      /\ DOMAIN pdes = Threads /\ DOMAIN at = Threads /\ DOMAIN hold = Threads
      /\ DOMAIN table = AllFds
  BY <1>0 DEF TypeOK, StreamsTypeOK
<1>1. CASE UNCHANGED <<vars, stdio>>
  <2>1. \A t \in Threads : InCall(t)' = InCall(t)
    BY <1>0, <1>1, OwnLocals, OwnDescriptors
  <2>2. UNCHANGED <<table, streams, sockets, descriptors>> /\ InStreams' = InStreams
    BY <1>1 DEF vars, stdio, InStreams
  <2> QED
    BY <1>0, <2>1, <2>2 DEF FdsHaveOneOwner
<1>2. ASSUME CallerActs, \A t \in Threads : ~Acts(t) PROVE FdsHaveOneOwner'
  <2>1. \A t \in Threads : InCall(t)' = InCall(t)
    BY <1>2, Bystander
  <2>2. ASSUME NEW s \in streams, (CallerCloses(s) /\ UNCHANGED stdio) \/ Fdclose(s)
        PROVE FdsHaveOneOwner'
    <3>1. s.fd \in Fds /\ s.fd \in InStreams /\ s.fd \notin sockets /\ s.fd \notin descriptors
      BY <1>0 DEF TypeOK, FdsHaveOneOwner, InStreams
    <3>2. streams' = {r \in streams : r.fd # s.fd} /\ sockets' = sockets \ {s.fd}
      BY <1>0, <2>2, <3>1 DEF CallerCloses, Fdclose, FdsHaveOneOwner, stdio
    <3>3. \/ (descriptors' = descriptors \ {s.fd} /\ table' = Closed({s.fd}))
          \/ (descriptors' = descriptors \union {s.fd} /\ table' = table)
      BY <2>2, <3>1 DEF CallerCloses, Fdclose, stdio
    <3> QED
      BY <1>0, <2>1, <3>1, <3>2, <3>3, CallerChanges
  <2>3. ASSUME NEW k \in cookies, CloseCookie(k) PROVE FdsHaveOneOwner'
    <3>1. /\ UNCHANGED <<table, streams, sockets, descriptors>> /\ InStreams' = InStreams
      BY <2>3 DEF CloseCookie, vars, InStreams
    <3> QED
      BY <1>0, <2>1, <3>1 DEF FdsHaveOneOwner
  <2>4. ASSUME NEW f \in sockets \union descriptors, CallerClosesFd(f) PROVE FdsHaveOneOwner'
    <3>1. f \in Fds /\ f \notin InStreams
      BY <1>0 DEF StreamsTypeOK, FdsHaveOneOwner
    <3>2. streams' = {r \in streams : r.fd # f}
      BY <2>4, <3>1 DEF CallerClosesFd, InStreams
    <3> QED
      BY <1>0, <2>1, <2>4, <3>1, <3>2, CallerChanges DEF CallerClosesFd
  <2> QED
    BY <1>2, <2>2, <2>3, <2>4 DEF CallerActs
<1>3. ASSUME NEW t \in Threads, Acts(t) PROVE FdsHaveOneOwner'
  <2>0. \A u \in Threads \ {t} : InCall(u)' = InCall(u)
    BY <1>0, <1>3, OwnLocals, OwnDescriptors
  <2>p. Piped(t) /\ Piped(t)' /\ (TypeOK /\ StreamsTypeOK)'
    BY <1>0, StepPiped, StepType
  <2>1. CASE PopenActs(t) /\ Link(t)
    <3>1. pc[t] = "link" /\ pc'[t] = "idle" /\ at[t] = "none" /\ at' = at
          /\ UNCHANGED <<table, sockets, descriptors>>
          /\ streams' = streams \union {[of |-> call[t], fd |-> Ours(t)]}
      BY <1>d, <2>1 DEF Link, PopenActs, Leave, Goto, stdio
    <3>2. InCall(t) = {Ours(t)} /\ InCall(t)' = {}
      BY <2>p, <3>1 DEF InCall, Holding, AcceptedBy
    <3> QED
      BY <1>0, <2>0, <3>1, <3>2, ThreadReturns
  <2>2. CASE SetFlags(t) /\ sockets' = sockets \union {hold[t]} /\ UNCHANGED table
    <3>1. /\ pc[t] = "idle" /\ pc'[t] = "idle" /\ at[t] = "setfl" /\ at'[t] = "none"
          /\ UNCHANGED <<descriptors, streams>>
      BY <1>d, <2>2, <2>p DEF SetFlags, Enters, Piped
    <3>2. InCall(t) = {hold[t]} /\ InCall(t)' = {}
      BY <3>1 DEF InCall, Holding, AcceptedBy
    <3> QED
      BY <1>0, <2>0, <2>2, <3>1, <3>2, ThreadReturns
  <2>3. ASSUME UNCHANGED <<streams, sockets, descriptors>>,
               InCall(t)' \subseteq InCall(t) \union Free,
               \A f \in Fds : table'[f] # Unused <=>
                  f \in InCall(t)' \/ (table[f] # Unused /\ f \notin InCall(t))
        PROVE  FdsHaveOneOwner'
    BY <1>0, <2>0, <2>3, ThreadChanges
  <2>4. CASE PopenActs(t) /\ OpenPipe(t)
    <3>1. PICK r \in Free, w \in Free : OpensPipe(t, r, w)
      BY <2>4, PipeOpened
    <3>2. /\ r \in Fds /\ w \in Fds /\ table'[r] # Unused /\ table'[w] # Unused
          /\ table[r] = Unused /\ table[w] = Unused
          /\ \A g \in AllFds \ {r, w} : table'[g] = table[g]
      BY <1>0, <3>1, OpenedIs
    <3>3. pc[t] = "idle" /\ pc'[t] = "fdopen" /\ at[t] = "none" /\ at'[t] = "none"
          /\ pdes'[t] = <<r, w>> /\ UNCHANGED <<streams, sockets, descriptors>>
      BY <1>d, <2>4, <3>1 DEF OpensPipe, OpenPipe, PopenActs, Goto, stdio
    <3>4. InCall(t) = {}
      BY <3>3 DEF InCall, Holding, AcceptedBy
    <3>5. InCall(t)' = {r, w}
      BY <3>3 DEF InCall, Holding, AcceptedBy, Ours, Other
    <3> QED
      BY <2>3, <3>2, <3>3, <3>4, <3>5, FdsAre
  <2>5. CASE Accept(t)
    <3>1. PICK f \in Free : table' = [table EXCEPT ![f] = Socket] /\ Enters(t, "setfl", f)
      BY <2>5 DEF Accept
    <3>2. f \in Fds /\ \A g \in AllFds : table'[g] = IF g = f THEN Socket ELSE table[g]
      BY <1>0, <3>1, AcceptedIs
    <3>3. pc[t] = "idle" /\ pc'[t] = "idle" /\ at[t] = "none" /\ at'[t] = "setfl"
          /\ hold'[t] = f /\ UNCHANGED <<streams, sockets, descriptors>>
      BY <1>d, <2>5, <3>1 DEF Accept, Begins, Enters
    <3>4. InCall(t) = {} /\ InCall(t)' = {f}
      BY <3>3 DEF InCall, Holding, AcceptedBy
    <3> QED
      BY <2>3, <3>1, <3>2, <3>3, <3>4, FdsAre, WhatIs
  <2>6. CASE /\ table' = table /\ InCall(t)' = InCall(t)
             /\ UNCHANGED <<streams, sockets, descriptors>>
    <3>1. \A f \in Fds : f \in InCall(t) => table[f] # Unused
      BY <1>0 DEF FdsHaveOneOwner
    <3> QED
      BY <2>3, <2>6, <3>1
  <2>7. ASSUME NEW S \in SUBSET Fds, table' = Closed(S), InCall(t)' \subseteq InCall(t),
               S = InCall(t) \ InCall(t)', UNCHANGED <<streams, sockets, descriptors>>
        PROVE  FdsHaveOneOwner'
    <3>1. \A f \in AllFds : table'[f] = IF f \in S THEN Unused ELSE table[f]
      BY <1>0, <2>7, ClosedIs
    <3>2. \A f \in Fds : f \in InCall(t) => table[f] # Unused
      BY <1>0 DEF FdsHaveOneOwner
    <3>3. \A f \in Fds : table'[f] # Unused <=>
                  f \in InCall(t)' \/ (table[f] # Unused /\ f \notin InCall(t))
      BY <2>7, <3>1, <3>2, FdsAre
    <3> QED
      BY <2>3, <2>7, <3>3
  <2>8. CASE PopenActs(t) /\ (Fdopen(t) \/ Allocate(t) \/ Spawn(t) \/ ListActions(t) \/ CloseStream(t))
    <3>0. pc[t] \notin {"idle", "link", "iop", "other"} /\ at[t] = "none" /\ at' = at
          /\ UNCHANGED <<pdes, type, streams, sockets, descriptors>>
      BY <2>8 DEF PopenActs, Fdopen, Allocate, Spawn, ListActions, CloseStream, stdio
    <3>1. /\ InCall(t) = {Ours(t), Other(t)} /\ Ours(t) # Other(t)
          /\ InCall(t) = {pdes[t][1], pdes[t][2]} /\ InCall(t) \subseteq Fds
      BY <2>p, <3>0, HoldingIs, CallFds DEF Piped
    <3>s. Ours(t)' = Ours(t) /\ Other(t)' = Other(t)
      BY <3>0 DEF Ours, Other, Reads
    <3>2. CASE /\ Goto(t, "other") /\ table' = Closed({Ours(t)})
      <4>1. InCall(t)' = {Other(t)}
        BY <1>d, <3>0, <3>s, <3>2 DEF Goto, InCall, Holding, AcceptedBy
      <4> QED
        BY <2>7, <3>0, <3>1, <3>2, <4>1
    <3>4. CASE /\ Goto(t, "iop") /\ table' = Closed({Other(t)})
      <4>1. InCall(t)' = {Ours(t)}
        BY <1>d, <3>0, <3>s, <3>4 DEF Goto, InCall, Holding, AcceptedBy
      <4> QED
        BY <2>7, <3>0, <3>1, <3>4, <4>1
    <3>3. CASE /\ UNCHANGED <<table, pdes, type>>
               /\ \E l \in {"alloc", "lock", "close", "spawn", "failed"} : Goto(t, l)
      <4>1. pc'[t] \notin {"idle", "link", "iop", "other"}
        BY <1>d, <3>3 DEF Goto
      <4>2. InCall(t)' = InCall(t)
        BY <3>0, <3>3, <4>1 DEF InCall, Holding, AcceptedBy, Ours, Other, Reads
      <4> QED
        BY <2>6, <3>0, <3>3, <4>2
    <3>5. pdes[t][1] = IF Reads(t) THEN Ours(t) ELSE Other(t)
      BY DEF Ours, Other
    <3> QED
      BY <2>8, <3>2, <3>3, <3>4, <3>5 DEF Fdopen, Allocate, Spawn, ListActions, CloseStream
  <2>12. CASE PopenActs(t) /\ CloseLast(t)
    <3>0. /\ pc[t] \in {"other", "iop"} /\ pc'[t] = "idle" /\ at[t] = "none" /\ at'[t] = "none"
          /\ table' = Closed({IF pc[t] = "other" THEN Other(t) ELSE Ours(t)})
          /\ UNCHANGED <<streams, sockets, descriptors>>
      BY <1>d, <2>12 DEF PopenActs, CloseLast, Leave, Goto, stdio
    <3>1. /\ InCall(t) = {IF pc[t] = "other" THEN Other(t) ELSE Ours(t)} /\ InCall(t) \subseteq Fds
          /\ InCall(t)' = {}
      BY <2>p, <3>0, HoldingIs DEF Piped, InCall, Holding, AcceptedBy
    <3> QED
      BY <2>7, <3>0, <3>1
  <2>9. CASE PopenActs(t) /\ CloseOther(t)
    <3>0. /\ pc[t] = "close" /\ pc'[t] = "link" /\ at[t] = "none" /\ at'[t] = "none"
          /\ table' = Closed({Other(t)}) /\ Ours(t)' = Ours(t)
          /\ UNCHANGED <<streams, sockets, descriptors>>
      BY <1>d, <2>9 DEF PopenActs, CloseOther, Goto, stdio, Ours, Reads
    <3>1. /\ InCall(t) = {Ours(t), Other(t)} /\ InCall(t)' = {Ours(t)}
          /\ Ours(t) # Other(t) /\ Other(t) \in Fds
      BY <2>p, <3>0, HoldingIs, CallFds DEF Piped, InCall, Holding, AcceptedBy
    <3> QED
      BY <2>7, <3>0, <3>1
  <2>10. CASE SetFlags(t) /\ table' = Closed({hold[t]}) /\ UNCHANGED sockets
    <3>0. /\ pc[t] = "idle" /\ pc'[t] = "idle" /\ at[t] = "setfl" /\ at'[t] = "none"
          /\ UNCHANGED <<streams, sockets, descriptors>>
      BY <1>d, <2>10, <2>p DEF SetFlags, Enters, Piped
    <3>1. InCall(t) = {hold[t]} /\ InCall(t)' = {} /\ hold[t] \in Fds
      BY <2>p, <3>0 DEF InCall, Holding, AcceptedBy, Piped
    <3> QED
      BY <2>7, <2>10, <3>0, <3>1
  <2>11. CASE AllocateThunk(t) \/ Funopen(t)
    <3>0. /\ pc[t] = "idle" /\ pc'[t] = "idle" /\ at[t] # "setfl" /\ at'[t] # "setfl"
          /\ UNCHANGED <<table, streams, sockets, descriptors>>
      BY <1>d, <2>11, <2>p DEF AllocateThunk, Funopen, Begins, Enters, Piped, vars
    <3>1. InCall(t) = {} /\ InCall(t)' = {}
      BY <3>0 DEF InCall, Holding, AcceptedBy
    <3> QED
      BY <2>6, <3>0, <3>1
  <2> QED
    BY <1>3, <2>1, <2>2, <2>4, <2>5, <2>8, <2>9, <2>10, <2>11, <2>12 DEF Acts, PopenActs, SetFlags
<1> QED
  BY <1>1, <1>2, <1>3, Actors

\* The thunk a call of fopencookie has is that of one stream, or of none.
LEMMA StepThunks ==
    ASSUME StreamsInv, [StreamsNext]_<<vars, stdio>>
    PROVE  ThunksHaveOneOwner'
<1>0. TypeOK /\ StreamsTypeOK /\ ThunksHaveOneOwner /\ \A t \in Threads : Piped(t)
  BY DEF StreamsInv, DescriptorsHaveOneOwner
<1>d. DOMAIN at = Threads /\ DOMAIN hold = Threads
  BY <1>0 DEF StreamsTypeOK
<1> DEFINE Held == {hold[t] : t \in InFunopen}
<1>1. CASE UNCHANGED <<at, hold, thunks, cookies>>
  BY <1>0, <1>1 DEF ThunksHaveOneOwner, InFunopen
<1>2. CASE UNCHANGED <<at, hold>> /\ \E k \in cookies : CloseCookie(k)
  <2>1. PICK k \in cookies : cookies' = cookies \ {k} /\ thunks' = thunks \ {k}
    BY <1>2 DEF CloseCookie
  <2>2. InFunopen' = InFunopen /\ hold' = hold
    BY <1>2 DEF InFunopen
  <2> QED
    BY <1>0, <2>1, <2>2 DEF ThunksHaveOneOwner
<1>3. ASSUME NEW t \in Threads, Accept(t) \/ SetFlags(t) PROVE ThunksHaveOneOwner'
  <2>1. /\ at[t] # "funopen" /\ at'[t] # "funopen" /\ UNCHANGED <<thunks, cookies>>
        /\ \A u \in Threads \ {t} : at'[u] = at[u] /\ hold'[u] = hold[u]
    BY <1>d, <1>3 DEF Accept, SetFlags, Begins, Enters
  <2>2. InFunopen' = InFunopen /\ \A u \in InFunopen : hold'[u] = hold[u]
    BY <2>1 DEF InFunopen
  <2>3. {hold'[u] : u \in InFunopen'} = {hold[u] : u \in InFunopen}
    BY <2>2
  <2> QED
    BY <1>0, <2>1, <2>2, <2>3 DEF ThunksHaveOneOwner
<1>4. ASSUME NEW t \in Threads, AllocateThunk(t) PROVE ThunksHaveOneOwner'
  <2>1. PICK k \in Thunks \ thunks : thunks' = thunks \union {k} /\ Enters(t, "funopen", k)
    BY <1>4 DEF AllocateThunk
  <2>2. /\ at[t] # "funopen" /\ at'[t] = "funopen" /\ hold'[t] = k /\ cookies' = cookies
        /\ \A u \in Threads \ {t} : at'[u] = at[u] /\ hold'[u] = hold[u]
    BY <1>d, <1>4, <2>1 DEF AllocateThunk, Begins, Enters
  <2>3. InFunopen' = InFunopen \union {t} /\ t \notin InFunopen
        /\ \A u \in InFunopen : hold'[u] = hold[u]
    BY <2>2 DEF InFunopen
  <2>4. {hold'[u] : u \in InFunopen'} = {hold[u] : u \in InFunopen} \union {k}
    BY <2>2, <2>3
  <2>5. k \notin cookies /\ \A u \in InFunopen : hold[u] # k
    BY <1>0, <2>1 DEF ThunksHaveOneOwner
  <2> QED
    BY <1>0, <2>1, <2>2, <2>3, <2>4, <2>5 DEF ThunksHaveOneOwner
<1>5. ASSUME NEW t \in Threads, Funopen(t) PROVE ThunksHaveOneOwner'
  <2>1. /\ at[t] = "funopen" /\ at'[t] = "none"
        /\ \A u \in Threads \ {t} : at'[u] = at[u] /\ hold'[u] = hold[u]
        /\ \/ (cookies' = cookies \union {hold[t]} /\ thunks' = thunks)
           \/ (thunks' = thunks \ {hold[t]} /\ cookies' = cookies)
    BY <1>d, <1>5 DEF Funopen, Enters
  <2>2. InFunopen' = InFunopen \ {t} /\ t \in InFunopen
        /\ \A u \in InFunopen' : hold'[u] = hold[u]
    BY <2>1 DEF InFunopen
  <2>3. \A u \in InFunopen' : hold[u] # hold[t]
    BY <1>0, <2>2 DEF ThunksHaveOneOwner
  <2>4. {hold'[u] : u \in InFunopen'} = {hold[u] : u \in InFunopen} \ {hold[t]}
    BY <2>2, <2>3
  <2> QED
    BY <1>0, <2>1, <2>2, <2>3, <2>4 DEF ThunksHaveOneOwner
<1>6. CASE UNCHANGED <<vars, stdio>>
  BY <1>1, <1>6 DEF stdio
<1>7. ASSUME NEW t \in Threads, PopenActs(t) PROVE UNCHANGED <<at, hold, thunks, cookies>>
  BY <1>7 DEF PopenActs, stdio
<1>8. ASSUME CallerActs PROVE ThunksHaveOneOwner'
  <2>1. \/ UNCHANGED <<at, hold, thunks, cookies>>
        \/ (UNCHANGED <<at, hold>> /\ \E k \in cookies : CloseCookie(k))
    BY <1>8 DEF CallerActs, Fdclose, CloseCookie, CallerClosesFd, stdio
  <2> QED
    BY <1>1, <1>2, <2>1
<1> QED
  BY <1>1, <1>3, <1>4, <1>5, <1>6, <1>7, <1>8, Actors DEF Acts

--------------------------------------------------------------------------------
(* What a shell inherits.                                                  *)

\* The table posix_spawn makes: the shell's end of its pipe is at 0 or at 1 (at
\* both when type is "r+"), and neither pdes[0] nor pdes[1] is left.
LEMMA ChildIs ==
    ASSUME StreamsInv, NEW t \in Threads, pc[t] = "spawn"
    PROVE  \E e \in {0, 1}, At \in SUBSET {0, 1} :
              /\ At # {} /\ (e = 1 <=> 1 \in At)
              /\ \A f \in AllFds :
                    /\ f \in At => ChildTable(t)[f] = [of |-> call[t], end |-> e]
                    /\ f \notin At => /\ ChildTable(t)[f].of # call[t]
                                      /\ ChildTable(t)[f] \in {Unused, table[f]}
                                      /\ f \in ToSet(actions[t]) => ChildTable(t)[f] = Unused
<1>0. TypeOK /\ Ends /\ Piped(t)
  BY DEF StreamsInv
<1> DEFINE r == pdes[t][1]
           w == pdes[t][2]
           c == call[t]
           At == IF type[t] = "w" THEN {0} ELSE IF type[t] = "r+" THEN {0, 1} ELSE {1}
           e == IF type[t] = "w" THEN 0 ELSE 1
<1>1. /\ r \in Fds /\ w \in Fds /\ r # w /\ c \in Calls /\ c # 0
      /\ table[r] = [of |-> c, end |-> 0] /\ table[w] = [of |-> c, end |-> 1]
      /\ r \in AllFds /\ w \in AllFds
  BY <1>0, FdsAre, WhatIs DEF Piped
<1>2. /\ r \notin {0, 1} /\ w \notin {0, 1} /\ 0 \in AllFds /\ 1 \in AllFds
      /\ ToSet(actions[t]) \subseteq Fds
  BY <1>0, <1>1, FdsAre DEF TypeOK, ToSet
<1>3. type[t] \in {"r", "w", "r+"}
  BY <1>0 DEF TypeOK, Types
<1>4. \A f \in AllFds : table[f].of = c => f \in {r, w}
  <2> SUFFICES ASSUME NEW f \in AllFds, table[f].of = c PROVE f \in {r, w}
    OBVIOUS
  <2>1. table[f] \in End /\ table[f].end \in {0, 1}
    BY <1>0, <1>1, WhatIs DEF TypeOK
  <2>2. table[r].of = c /\ table[r].end = 0 /\ table[w].of = c /\ table[w].end = 1
        /\ table[r] \in End /\ table[w] \in End
    BY <1>0, <1>1, WhatIs DEF TypeOK
  <2>3. table[f] = table[r] \/ table[f] = table[w]
    BY <2>1, <2>2, WhatIs
  <2> QED
    BY <1>0, <1>1, <2>3 DEF Ends
<1>5. \A f \in AllFds : OwnTable(t)[f] =
          IF f \in {r, w} THEN Unused
          ELSE IF f = 0 /\ type[t] = "w" THEN table[r]
          ELSE IF (f = 1 /\ type[t] # "w") \/ (f = 0 /\ type[t] = "r+") THEN table[w]
          ELSE table[f]
  BY DEF OwnTable, AfterOwn
<1>6. \A f \in AllFds : ChildTable(t)[f] =
          IF f \in ToSet(actions[t]) THEN Unused ELSE OwnTable(t)[f]
  BY DEF ChildTable
<1>7. At \in SUBSET {0, 1} /\ At # {} /\ e \in {0, 1} /\ (e = 1 <=> 1 \in At)
  BY <1>3
<1>8. ASSUME NEW f \in AllFds, f \in At PROVE ChildTable(t)[f] = [of |-> c, end |-> e]
  <2>1. f \in {0, 1} /\ f \notin ToSet(actions[t]) /\ f \notin {r, w}
    BY <1>2, <1>7, <1>8, FdsAre
  <2> QED
    BY <1>1, <1>3, <1>5, <1>6, <1>8, <2>1
<1>9. ASSUME NEW f \in AllFds, f \notin At
      PROVE  /\ ChildTable(t)[f].of # c /\ ChildTable(t)[f] \in {Unused, table[f]}
             /\ f \in ToSet(actions[t]) => ChildTable(t)[f] = Unused
  <2>1. OwnTable(t)[f] = IF f \in {r, w} THEN Unused ELSE table[f]
    BY <1>3, <1>5, <1>9
  <2> QED
    BY <1>1, <1>4, <1>6, <2>1, WhatIs
<1> HIDE DEF At, e, c
<1>10. \A f \in AllFds :
                    /\ f \in At => ChildTable(t)[f] = [of |-> c, end |-> e]
                    /\ f \notin At => /\ ChildTable(t)[f].of # c
                                      /\ ChildTable(t)[f] \in {Unused, table[f]}
                                      /\ f \in ToSet(actions[t]) => ChildTable(t)[f] = Unused
  BY <1>8, <1>9
<1> QED
  BY <1>7, <1>10 DEF c

\* A shell that is spawned is connected.
LEMMA SpawnConnects ==
    ASSUME StreamsInv, NEW t \in Threads, pc[t] = "spawn",
           child' = [child EXCEPT ![call[t]] = ChildTable(t)],
           owes' = [owes EXCEPT ![call[t]] = earlier[t] \intersect {s.of : s \in streams}],
           NEW c, c = call[t]
    PROVE  Connected(c)'
<1>0. TypeOK /\ Piped(t) /\ Listed(t) /\ \A s \in streams : Streamed(s)
  BY DEF StreamsInv
<1>1. c \in Calls /\ c # 0 /\ pdes[t] \in Fds \X Fds /\ pdes[t][1] # pdes[t][2]
      /\ table[pdes[t][1]].of = c /\ table[pdes[t][2]].of = c
      /\ pdes[t][1] \in AllFds /\ pdes[t][2] \in AllFds
  BY <1>0, WhatIs, FdsAre, SMTT(20), ZenonT(20) DEF Piped
<1>2. PICK e \in {0, 1}, At \in SUBSET {0, 1} :
              /\ At # {} /\ (e = 1 <=> 1 \in At)
              /\ \A f \in AllFds :
                    /\ f \in At => ChildTable(t)[f] = [of |-> c, end |-> e]
                    /\ f \notin At => /\ ChildTable(t)[f].of # c
                                      /\ ChildTable(t)[f] \in {Unused, table[f]}
                                      /\ f \in ToSet(actions[t]) => ChildTable(t)[f] = Unused
  BY ChildIs
<1>3. child'[c] = ChildTable(t) /\ owes'[c] = earlier[t] \intersect {s.of : s \in streams}
  BY <1>0, <1>1 DEF TypeOK
<1>4. 0 \in AllFds /\ 1 \in AllFds /\ At \subseteq AllFds
  BY FdsAre
<1>5. \A f \in At : child'[c][f] = [of |-> c, end |-> e] /\ child'[c][f].of = c
  BY <1>2, <1>3, <1>4
<1>6. \A f \in AllFds \ At : child'[c][f].of # c
  BY <1>2, <1>3
<1>7. ASSUME NEW d \in owes'[c], NEW x \in {0, 1}, NEW f \in AllFds,
             child'[c][f] = [of |-> d, end |-> x]
      PROVE  FALSE
  <2>1. PICK s \in streams : s.of = d
    BY <1>3, <1>7
  <2>2. s.of \in Calls /\ s.of # 0
    BY <1>0, <2>1, WhatIs DEF TypeOK
  <2>3. d # c
    BY <1>0, <1>1, <2>1 DEF Streamed
  <2>4. child'[c][f].of = d
    BY <1>7
  <2>5. f \notin At
    BY <1>5, <2>3, <2>4
  <2>6. ChildTable(t)[f] = table[f] /\ table[f].of = d
    BY <1>2, <1>3, <2>1, <2>2, <2>4, <2>5, WhatIs
  <2>7. f = s.fd /\ f \in ToSet(actions[t])
    BY <1>0, <2>1, <2>6 DEF Streamed, Listed
  <2>8. table[f] = Unused
    BY <1>2, <2>5, <2>6, <2>7
  <2> QED
    BY <2>1, <2>2, <2>6, <2>8, WhatIs
<1>8. {f \in AllFds : child'[c][f].of = c} = At
  BY <1>4, <1>5, <1>6
<1>9. ASSUME e = 1 PROVE ~Holds(c, ParentEnd(c))'
  <2>1. child'[c][1] = [of |-> c, end |-> 1]
    BY <1>2, <1>5, <1>9
  <2>2. ParentEnd(c)' = [of |-> c, end |-> 0]
    BY <2>1 DEF ParentEnd
  <2>3. [of |-> c, end |-> 0].of = c /\ [of |-> c, end |-> 0] # [of |-> c, end |-> e]
    BY <1>9
  <2>4. ~Holds(c, [of |-> c, end |-> 0])'
    BY <1>5, <1>6, <2>3 DEF Holds
  <2>5. ~Holds(c, ParentEnd(c))'
    BY <2>2, <2>4 DEF Holds
  <2> QED
    BY <2>5
<1>10. ASSUME e = 0 PROVE ~Holds(c, ParentEnd(c))'
  <2>1. child'[c][1] # [of |-> c, end |-> 1]
    <3>1. 1 \notin At /\ [of |-> c, end |-> 1].of = c
      BY <1>2, <1>10
    <3> QED
      BY <1>4, <1>6, <3>1
  <2>2. ParentEnd(c)' = [of |-> c, end |-> 1]
    BY <2>1 DEF ParentEnd
  <2>3. [of |-> c, end |-> 1].of = c /\ [of |-> c, end |-> 1] # [of |-> c, end |-> e]
    BY <1>10
  <2>4. ~Holds(c, [of |-> c, end |-> 1])'
    BY <1>5, <1>6, <2>3 DEF Holds
  <2>5. ~Holds(c, ParentEnd(c))'
    BY <2>2, <2>4 DEF Holds
  <2> QED
    BY <2>5
<1>11. \A d \in owes'[c], x \in {0, 1} : ~(\E f \in AllFds : child'[c][f] = [of |-> d, end |-> x])
  BY <1>7
<1>12. ~(\E f \in AllFds : child'[c][f] = ParentEnd(c)')
  BY <1>2, <1>9, <1>10 DEF Holds
<1> QED
  BY <1>2, <1>8, <1>11, <1>12 DEF Connected, Holds

LEMMA StepConnected ==
    ASSUME StreamsInv, [StreamsNext]_<<vars, stdio>>
    PROVE  ShellIsConnected'
<1>0. TypeOK /\ ShellIsConnected
  BY DEF StreamsInv
<1>1. CASE UNCHANGED <<child, owes>>
  BY <1>0, <1>1 DEF ShellIsConnected, Spawned, Connected, Holds, ParentEnd
<1>2. ASSUME NEW t \in Threads, pc[t] = "spawn", call[t] \in Calls,
             child' = [child EXCEPT ![call[t]] = ChildTable(t)],
             owes' = [owes EXCEPT ![call[t]] = earlier[t] \intersect {s.of : s \in streams}]
      PROVE  ShellIsConnected'
  <2> SUFFICES ASSUME NEW c \in Calls, child'[c] # NoChild PROVE Connected(c)'
    BY DEF ShellIsConnected, Spawned
  <2>1. CASE c = call[t]
    BY <1>2, <2>1, SpawnConnects
  <2>2. CASE c # call[t]
    <3>1. child'[c] = child[c] /\ owes'[c] = owes[c]
      BY <1>0, <1>2, <2>2 DEF TypeOK
    <3>2. Connected(c)
      BY <1>0, <3>1 DEF ShellIsConnected, Spawned
    <3> QED
      BY <3>1, <3>2 DEF Connected, Holds, ParentEnd
  <2> QED
    BY <2>1, <2>2
<1>3. ASSUME NEW t \in Threads, Spawn(t) PROVE ShellIsConnected'
  <2>1. pc[t] = "spawn" /\ call[t] \in Calls
    BY <1>3 DEF Spawn, StreamsInv, Piped
  <2> QED
    BY <1>1, <1>2, <1>3, <2>1 DEF Spawn
<1>4. ASSUME NEW t \in Threads, Acts(t), ~Spawn(t) PROVE UNCHANGED <<child, owes>>
  BY <1>4 DEF Acts, PopenActs, OpenPipe, Fdopen, Allocate, ListActions, CloseStream, CloseLast,
              CloseOther, Link, Accept, SetFlags, AllocateThunk, Funopen, vars
<1>5. ASSUME CallerActs PROVE UNCHANGED <<child, owes>>
  BY <1>5 DEF CallerActs, CallerCloses, Fdclose, CloseCookie, CallerClosesFd, vars
<1>6. ASSUME UNCHANGED <<vars, stdio>> PROVE UNCHANGED <<child, owes>>
  BY <1>6 DEF vars
<1> QED
  BY <1>1, <1>3, <1>4, <1>5, <1>6, Actors

--------------------------------------------------------------------------------
(* The theorems.                                                           *)

LEMMA InitHolds == StreamsInit => StreamsInv
<1> SUFFICES ASSUME StreamsInit PROVE StreamsInv
  OBVIOUS
<1>1. TypeOK /\ StreamsTypeOK
  BY InitType
<1>2. /\ pc = [t \in Threads |-> "idle"] /\ at = [t \in Threads |-> "none"]
      /\ table = [f \in AllFds |-> IF f \in Fds THEN Unused ELSE Terminal]
      /\ streams = {} /\ sockets = {} /\ descriptors = {} /\ thunks = {} /\ cookies = {}
      /\ child = [c \in Calls |-> NoChild] /\ calls = 0
  BY DEF StreamsInit, Init
<1>3. \A t \in Threads : Piped(t) /\ Listed(t) /\ InCall(t) = {}
  BY <1>2 DEF Piped, Listed, InCall, Holding, AcceptedBy
<1>4. Ends
  BY <1>2, WhatIs, FdsAre DEF Ends
<1>5. InStreams = {} /\ InFunopen = {} /\ \A f \in Fds : table[f] = Unused
  BY <1>2, FdsAre DEF InStreams, InFunopen
<1>6. FdsHaveOneOwner
  BY <1>2, <1>3, <1>5 DEF FdsHaveOneOwner
<1>7. ThunksHaveOneOwner
  BY <1>2, <1>5 DEF ThunksHaveOneOwner
<1>8. ShellIsConnected
  BY <1>2 DEF ShellIsConnected, Spawned
<1> QED
  BY <1>1, <1>2, <1>3, <1>4, <1>6, <1>7, <1>8 DEF StreamsInv, DescriptorsHaveOneOwner

LEMMA StepHolds == StreamsInv /\ [StreamsNext]_<<vars, stdio>> => StreamsInv'
<1> SUFFICES ASSUME StreamsInv, [StreamsNext]_<<vars, stdio>> PROVE StreamsInv'
  OBVIOUS
<1>1. TypeOK' /\ StreamsTypeOK' /\ Ends' /\ ShellIsConnected'
  BY StepType, StepEnds, StepConnected
<1>2. DescriptorsHaveOneOwner'
  BY StepFds, StepThunks DEF DescriptorsHaveOneOwner
<1>3. \A t \in Threads : Piped(t)' /\ Listed(t)'
  BY StepPiped, StepListed
<1>4. \A s \in streams' : Streamed(s)'
  BY StepStreamed
<1> QED
  BY <1>1, <1>2, <1>3, <1>4 DEF StreamsInv

\* The calls of popen, accept4, fopencookie and fdclose keep every variable in
\* its type: in particular the descriptors they return are descriptors.
THEOREM TypeCorrect == StreamsSpec => [](TypeOK /\ StreamsTypeOK)
<1>1. StreamsInv => TypeOK /\ StreamsTypeOK
  BY DEF StreamsInv
<1> QED
  BY <1>1, InitHolds, StepHolds, PTL DEF StreamsSpec

\* On every path of popen, accept4, fopencookie and fdclose, whatever fails and
\* however the threads interleave, what is open has exactly one owner.
THEOREM OwnersCorrect == StreamsSpec => []DescriptorsHaveOneOwner
<1>1. StreamsInv => DescriptorsHaveOneOwner
  BY DEF StreamsInv
<1> QED
  BY <1>1, InitHolds, StepHolds, PTL DEF StreamsSpec

\* Every shell that popen spawns is on its own pipe, and on no other that was
\* open when its popen began.
THEOREM ShellCorrect == StreamsSpec => []ShellIsConnected
<1>1. StreamsInv => ShellIsConnected
  BY DEF StreamsInv
<1> QED
  BY <1>1, InitHolds, StepHolds, PTL DEF StreamsSpec
================================================================================
