---------------------------- MODULE NetconfigProofs ----------------------------
(***************************************************************************)
(* Proofs about Netconfig, for any number of threads and handles, any file *)
(* contents and any first capacity.                                        *)
(***************************************************************************)
EXTENDS Netconfig, FiniteSetTheorems, SequenceTheorems, TLAPS

(* An empty table and an empty file are tables and files.                  *)
LEMMA NothingYet == << >> \in Seq(Entry) /\ << >> \in Seq(Line)
  OBVIOUS

(* The state variables are what their comments say.                        *)
LEMMA InitTypeOK == Init => TypeOK
<1> SUFFICES ASSUME Init PROVE TypeOK
  OBVIOUS
<1>1. given \in [Handles -> Seq(Entry)] /\ todo \in [Threads -> Seq(Line)]
  BY NothingYet, Zenon DEF Init
<1>2. g_entries \in Seq(Entry)
  BY NothingYet DEF Init
<1> QED
  BY <1>1, <1>2 DEF Init, TypeOK, Pcs, Ops, Errors

(* The built-in table is a file that parses (loaded when /etc/netconfig is *)
(* missing or holds no entry).                                             *)
LEMMA DefaultLinesType ==
  ASSUME NEW v4 \in BOOLEAN, NEW v6 \in BOOLEAN
  PROVE  /\ DefaultLines(v4, v6) \in Seq(Line)
         /\ DefaultLines(v4, v6) # << >>
         /\ \A i \in DOMAIN DefaultLines(v4, v6) : DefaultLines(v4, v6)[i].kind = "entry"
  BY DEF DefaultLines, Line, Entry, Netids, DefaultNetids

(* Taking a line keeps the table and the remaining lines well typed.       *)
LEMMA TakeLineType ==
  ASSUME TypeOK, NEW t \in Threads, todo[t] # << >>, TakeLine(t)
  PROVE  /\ g_entries' \in Seq(Entry)
         /\ g_entry_cap' \in Nat
         /\ nc_error' \in [Threads -> Errors]
         /\ pc' \in [Threads -> Pcs]
         /\ todo' \in [Threads -> Seq(Line)]
<1> DEFINE line == Head(todo[t])
<1>1. line \in Line /\ Tail(todo[t]) \in Seq(Line)
  BY DEF TypeOK
<1>2. line.entry \in Entry
  BY <1>1 DEF Line
<1>3. todo' \in [Threads -> Seq(Line)]
  BY <1>1 DEF TakeLine, TypeOK
<1>4. CASE AppendEntry(line.entry) /\ UNCHANGED <<pc, nc_error>>
  BY <1>2, <1>3, <1>4, CapAssumption DEF AppendEntry, TypeOK
<1>5. CASE UNCHANGED <<g_entries, g_entry_cap>> /\ Goto(t, "failed")
           /\ \E e \in {"NOMEM", "BADFILE"} : SetError(t, e)
  BY <1>3, <1>5 DEF TypeOK, Goto, SetError, Pcs, Errors
<1> QED
  BY <1>4, <1>5 DEF TakeLine

(* Every step keeps the types.                                             *)
LEMMA NextTypeOK == TypeOK /\ [Next]_vars => TypeOK'
<1> SUFFICES ASSUME TypeOK, [Next]_vars PROVE TypeOK'
  OBVIOUS
<1> USE DEF globals, heap, loader, Goto, SetError, Enter, Return, InCall,
            Pcs, Ops, Errors
<1>1. CASE UNCHANGED vars
  BY <1>1 DEF TypeOK, vars
<1>2. ASSUME NEW t \in Threads, Call(t) PROVE TypeOK'
  <2>1. CASE SetFails(t)    BY <2>1 DEF SetFails, TypeOK
  <2>2. CASE SetCall(t)     BY <2>2 DEF SetCall, TypeOK
  <2>3. CASE NotAHandle(t)  BY <2>3 DEF NotAHandle, TypeOK
  <2>4. CASE GetCall(t)     BY <2>4 DEF GetCall, TypeOK
  <2>5. CASE EndCall(t)     BY <2>5 DEF EndCall, TypeOK
  <2>6. CASE EntCall(t)
    <3>1. CASE \E n \in Netids : Enter(t, "ent", NullHandle, n)
      BY <2>6, <3>1 DEF EntCall, TypeOK
    <3>2. CASE ret' = [ret EXCEPT ![t] = "null"] /\ UNCHANGED <<pc, op, arg, netid>>
      BY <2>6, <3>2 DEF EntCall, TypeOK
    <3> QED BY <2>6, <3>1, <3>2 DEF EntCall
  <2> QED BY <1>2, <2>1, <2>2, <2>3, <2>4, <2>5, <2>6 DEF Call
<1>3. ASSUME NEW t \in Threads, Step(t) PROVE TypeOK'
  <2>1. CASE Lock(t)                     BY <2>1 DEF Lock, TypeOK
  <2>2. CASE EnsureLoaded(t)             BY <2>2, FileAssumption, SMTT(20), ZenonT(20) DEF EnsureLoaded, TypeOK
  <2>3. CASE ReadLine(t)
    <3>1. Tail(todo[t]) \in Seq(Line)
      BY <2>3 DEF ReadLine, TypeOK
    <3> QED BY <2>3, <3>1, TakeLineType DEF ReadLine, TypeOK
  <2>4. CASE EndOfFile(t)                BY <2>4, NothingYet DEF EndOfFile, TypeOK
  <2>5. CASE ProbeSystemConfiguration(t)
    BY <2>5, DefaultLinesType, SMTT(20), ZenonT(20) DEF ProbeSystemConfiguration, TypeOK
  <2>6. CASE LoadDefault(t)              BY <2>6, TakeLineType DEF LoadDefault, TypeOK
  <2>7. CASE DefaultsLoaded(t)           BY <2>7 DEF DefaultsLoaded, TypeOK
  <2>8. CASE LoadFails(t)                BY <2>8, NothingYet DEF LoadFails, ClearGlobalEntries, TypeOK
  <2>9. CASE Undo(t)                     BY <2>9 DEF Undo, TypeOK
  <2>10. CASE SetCounts(t)               BY <2>10 DEF SetCounts, TypeOK
  <2>11. CASE SetReturns(t)              BY <2>11 DEF SetReturns, TypeOK
  <2>12. CASE GetEntry(t)
    <3>1. CASE UNCHANGED <<index, given>>
      BY <2>12, <3>1, SMTT(20), ZenonT(20) DEF GetEntry, TypeOK
    <3>2. CASE g_loaded /\ index[arg[t]] < Len(g_entries)
      <4> DEFINE h == arg[t]
                 e == g_entries[index[h] + 1]
      <4>1. /\ index' = [index EXCEPT ![h] = @ + 1]
            /\ given' = [given EXCEPT ![h] = Append(@, e)]
            /\ Return(t, "value") /\ UNCHANGED nc_error
        BY <2>12, <3>2 DEF GetEntry
      <4>2. index' \in [Handles -> Nat]
        <5>1. index \in [Handles -> Nat] /\ index' = [index EXCEPT ![h] = index[h] + 1]
          BY <4>1 DEF TypeOK
        <5>2. h \in Handles => index[h] + 1 \in Nat
          BY <5>1
        <5> QED BY <5>1, <5>2, Zenon
      <4>3. h \in Handles => e \in Entry
        BY <3>2 DEF TypeOK
      <4>4. h \in Handles => Append(given[h], e) \in Seq(Entry)
        BY <4>3 DEF TypeOK
      <4>5. given' \in [Handles -> Seq(Entry)]
        BY <4>1, <4>4 DEF TypeOK
      <4>6. UNCHANGED <<globals, sc_runtime, allocated, magic, loader>> /\ g_lock' = NoThread
        BY <2>12 DEF GetEntry
      <4> QED BY <4>1, <4>2, <4>5, <4>6 DEF TypeOK
    <3> QED BY <2>12, <3>1, <3>2 DEF GetEntry
  <2>13. CASE EndDrops(t)
    <3>1. g_refcount' \in Nat /\ g_lock' = NoThread
      BY <2>13 DEF EndDrops, TypeOK
    <3>2. g_entries' \in Seq(Entry) /\ g_entry_cap' \in Nat /\ g_loaded' \in BOOLEAN
      <4>1. CASE g_refcount' = 0
        <5>1. g_entries' = << >> /\ g_entry_cap' = 0 /\ g_loaded' = FALSE
          BY <2>13, <4>1 DEF EndDrops, ClearGlobalEntries
        <5> QED BY <5>1, NothingYet
      <4>2. CASE g_refcount' # 0
        BY <2>13, <4>2 DEF EndDrops, TypeOK
      <4> QED BY <4>1, <4>2
    <3>3. /\ pc' \in [Threads -> Pcs]
          /\ UNCHANGED <<nc_error, sc_runtime, heap, loader, op, arg, netid, ret>>
      BY <2>13 DEF EndDrops, TypeOK
    <3> QED BY <3>1, <3>2, <3>3 DEF TypeOK
  <2>14. CASE EndReturns(t)
    <3>1. given' \in [Handles -> Seq(Entry)]
      BY <2>14, NothingYet, Zenon DEF EndReturns, TypeOK
    <3>2. allocated' \subseteq Handles /\ index' \in [Handles -> Nat]
      BY <2>14 DEF EndReturns, TypeOK
    <3>3. /\ pc' \in [Threads -> Pcs] /\ op' \in [Threads -> Ops]
          /\ arg' \in [Threads -> Handles \union {NullHandle}]
          /\ netid' \in [Threads -> Netids \union {NoNetid}]
          /\ ret' \in [Threads -> {"none", "null", "value"}]
      BY <2>14 DEF EndReturns, TypeOK
    <3>4. UNCHANGED <<g_lock, globals, nc_error, sc_runtime, magic, loader>>
      BY <2>14 DEF EndReturns
    <3> QED BY <3>1, <3>2, <3>3, <3>4 DEF TypeOK
  <2>15. CASE EntSearch(t)               BY <2>15, SMTT(20), ZenonT(20) DEF EntSearch, TypeOK
  <2> QED
    BY <1>3, <2>1, <2>2, <2>3, <2>4, <2>5, <2>6, <2>7, <2>8, <2>9, <2>10, <2>11,
       <2>12, <2>13, <2>14, <2>15 DEF Step
<1> QED BY <1>1, <1>2, <1>3 DEF Next

(* The state variables of getnetconfig.c always are what their comments say.*)
THEOREM TypeCorrect == Spec => []TypeOK
  BY InitTypeOK, NextTypeOK, PTL DEF Spec

(* What the two calls that return in several ways do to the control state. *)
LEMMA GetEntryControl ==
  ASSUME NEW t \in Threads, GetEntry(t)
  PROVE  /\ pc[t] = "get" /\ g_lock' = NoThread
         /\ pc' = [pc EXCEPT ![t] = "idle"]
         /\ op' = [op EXCEPT ![t] = "none"]
         /\ arg' = [arg EXCEPT ![t] = NullHandle]
         /\ UNCHANGED <<globals, allocated, magic, loader>>
  BY DEF GetEntry, Return, Goto, globals, loader

(* What the search of getnetconfigent does to the control state.           *)
LEMMA EntSearchControl ==
  ASSUME NEW t \in Threads, EntSearch(t)
  PROVE  /\ pc[t] = "loaded" /\ op[t] = "ent" /\ g_lock' = NoThread
         /\ pc' = [pc EXCEPT ![t] = "idle"]
         /\ op' = [op EXCEPT ![t] = "none"]
         /\ arg' = [arg EXCEPT ![t] = NullHandle]
         /\ UNCHANGED <<globals, heap, loader>>
  BY DEF EntSearch, Return, Goto, globals, loader, heap

(* What entering getnetconfigent does to the control state.                *)
LEMMA EntCallControl ==
  ASSUME NEW t \in Threads, EntCall(t)
  PROVE  /\ pc[t] = "idle"
         /\ UNCHANGED <<g_lock, globals, heap, loader>>
         /\ \/ UNCHANGED <<pc, op, arg>>
            \/ /\ pc' = [pc EXCEPT ![t] = "lock"]
               /\ op' = [op EXCEPT ![t] = "ent"]
               /\ arg' = [arg EXCEPT ![t] = NullHandle]
  BY DEF EntCall, Enter, Goto, globals, loader, heap

(* Every step keeps g_lock with the thread between lock and unlock.        *)
LEMMA MutexStep ==
  ASSUME TypeOK, Mutex, Control, [Next]_vars
  PROVE  Mutex'
<1> USE ThreadAssumption DEF globals, heap, loader, Goto, Enter, Return, InCall, InLock, Loading
<1>1. CASE UNCHANGED vars
  BY <1>1 DEF vars, TypeOK, Mutex, Control
<1>2. ASSUME NEW t \in Threads, Call(t) PROVE Mutex'
  <2>1. CASE SetFails(t)
    BY <2>1 DEF SetFails, TypeOK, Mutex, Control
  <2>2. CASE SetCall(t)
    BY <2>2 DEF SetCall, TypeOK, Mutex, Control
  <2>3. CASE NotAHandle(t)
    BY <2>3 DEF NotAHandle, TypeOK, Mutex, Control
  <2>4. CASE GetCall(t)
    BY <2>4 DEF GetCall, TypeOK, Mutex, Control
  <2>5. CASE EndCall(t)
    BY <2>5 DEF EndCall, TypeOK, Mutex, Control
  <2>6. CASE EntCall(t)
    <3>1. /\ pc[t] = "idle"
          /\ UNCHANGED <<g_lock, globals, heap, loader>>
          /\ \/ UNCHANGED <<pc, op, arg>>
             \/ /\ pc' = [pc EXCEPT ![t] = "lock"]
                /\ op' = [op EXCEPT ![t] = "ent"]
                /\ arg' = [arg EXCEPT ![t] = NullHandle]
      BY <2>6, EntCallControl
    <3> QED BY <3>1 DEF TypeOK, Mutex, Control
  <2> QED BY <1>2, <2>1, <2>2, <2>3, <2>4, <2>5, <2>6 DEF Call
<1>3. ASSUME NEW t \in Threads, Step(t) PROVE Mutex'
  <2>1. CASE Lock(t)
    BY <2>1 DEF Lock, TypeOK, Mutex, Control
  <2>2. CASE EnsureLoaded(t)
    BY <2>2 DEF EnsureLoaded, TypeOK, Mutex, Control
  <2>3. CASE ReadLine(t)
    BY <2>3 DEF ReadLine, TakeLine, TypeOK, Mutex, Control
  <2>4. CASE EndOfFile(t)
    BY <2>4 DEF EndOfFile, TypeOK, Mutex, Control
  <2>5. CASE ProbeSystemConfiguration(t)
    BY <2>5 DEF ProbeSystemConfiguration, TypeOK, Mutex, Control
  <2>6. CASE LoadDefault(t)
    BY <2>6 DEF LoadDefault, TakeLine, TypeOK, Mutex, Control
  <2>7. CASE DefaultsLoaded(t)
    BY <2>7 DEF DefaultsLoaded, TypeOK, Mutex, Control
  <2>8. CASE LoadFails(t)
    BY <2>8 DEF LoadFails, TypeOK, Mutex, Control
  <2>9. CASE Undo(t)
    BY <2>9 DEF Undo, TypeOK, Mutex, Control
  <2>10. CASE SetCounts(t)
    BY <2>10 DEF SetCounts, TypeOK, Mutex, Control
  <2>11. CASE SetReturns(t)
    BY <2>11 DEF SetReturns, TypeOK, Mutex, Control
  <2>12. CASE GetEntry(t)
    <3>1. /\ pc[t] = "get" /\ g_lock' = NoThread
          /\ pc' = [pc EXCEPT ![t] = "idle"]
          /\ op' = [op EXCEPT ![t] = "none"]
          /\ arg' = [arg EXCEPT ![t] = NullHandle]
          /\ UNCHANGED <<globals, allocated, magic, loader>>
      BY <2>12, GetEntryControl
    <3> QED BY <3>1 DEF TypeOK, Mutex, Control
  <2>13. CASE EndDrops(t)
    BY <2>13 DEF EndDrops, TypeOK, Mutex, Control
  <2>14. CASE EndReturns(t)
    BY <2>14 DEF EndReturns, TypeOK, Mutex, Control
  <2>15. CASE EntSearch(t)
    <3>1. /\ pc[t] = "loaded" /\ op[t] = "ent" /\ g_lock' = NoThread
          /\ pc' = [pc EXCEPT ![t] = "idle"]
          /\ op' = [op EXCEPT ![t] = "none"]
          /\ arg' = [arg EXCEPT ![t] = NullHandle]
          /\ UNCHANGED <<globals, heap, loader>>
      BY <2>15, EntSearchControl
    <3> QED BY <3>1 DEF TypeOK, Mutex, Control
  <2> QED
    BY <1>3, <2>1, <2>2, <2>3, <2>4, <2>5, <2>6, <2>7, <2>8,
       <2>9, <2>10, <2>11, <2>12, <2>13, <2>14, <2>15 DEF Step
<1> QED BY <1>1, <1>2, <1>3 DEF Next

(* Every step keeps the program counter of a thread inside its call.       *)
LEMMA ControlStep ==
  ASSUME TypeOK, Control, [Next]_vars
  PROVE  Control'
<1> USE HandleAssumption DEF globals, heap, loader, Goto, Enter, Return, InCall, Loading
<1>1. CASE UNCHANGED vars
  BY <1>1 DEF vars, TypeOK, Control
<1>2. ASSUME NEW t \in Threads, Call(t) PROVE Control'
  <2>1. CASE SetFails(t)
    BY <2>1 DEF SetFails, TypeOK, Control
  <2>2. CASE SetCall(t)
    BY <2>2 DEF SetCall, TypeOK, Control
  <2>3. CASE NotAHandle(t)
    BY <2>3 DEF NotAHandle, TypeOK, Control
  <2>4. CASE GetCall(t)
    BY <2>4 DEF GetCall, TypeOK, Control
  <2>5. CASE EndCall(t)
    BY <2>5 DEF EndCall, TypeOK, Control
  <2>6. CASE EntCall(t)
    <3>1. /\ pc[t] = "idle"
          /\ UNCHANGED <<g_lock, globals, heap, loader>>
          /\ \/ UNCHANGED <<pc, op, arg>>
             \/ /\ pc' = [pc EXCEPT ![t] = "lock"]
                /\ op' = [op EXCEPT ![t] = "ent"]
                /\ arg' = [arg EXCEPT ![t] = NullHandle]
      BY <2>6, EntCallControl
    <3> QED BY <3>1 DEF TypeOK, Control
  <2> QED BY <1>2, <2>1, <2>2, <2>3, <2>4, <2>5, <2>6 DEF Call
<1>3. ASSUME NEW t \in Threads, Step(t) PROVE Control'
  <2>1. CASE Lock(t)
    <3>1. CASE op[t] \in {"get", "end"}
      BY <2>1, <3>1 DEF Lock, TypeOK, Control
    <3>2. CASE op[t] \notin {"get", "end"}
      <4>1. op[t] \in {"set", "ent"}
        BY <2>1, <3>2 DEF Lock, TypeOK, Control, Ops
      <4> QED BY <2>1, <3>2, <4>1 DEF Lock, TypeOK, Control
    <3> QED BY <3>1, <3>2
  <2>2. CASE EnsureLoaded(t)
    BY <2>2 DEF EnsureLoaded, TypeOK, Control
  <2>3. CASE ReadLine(t)
    BY <2>3 DEF ReadLine, TakeLine, TypeOK, Control
  <2>4. CASE EndOfFile(t)
    BY <2>4 DEF EndOfFile, TypeOK, Control
  <2>5. CASE ProbeSystemConfiguration(t)
    BY <2>5 DEF ProbeSystemConfiguration, TypeOK, Control
  <2>6. CASE LoadDefault(t)
    BY <2>6 DEF LoadDefault, TakeLine, TypeOK, Control
  <2>7. CASE DefaultsLoaded(t)
    BY <2>7 DEF DefaultsLoaded, TypeOK, Control
  <2>8. CASE LoadFails(t)
    BY <2>8 DEF LoadFails, TypeOK, Control
  <2>9. CASE Undo(t)
    BY <2>9 DEF Undo, TypeOK, Control
  <2>10. CASE SetCounts(t)
    BY <2>10 DEF SetCounts, TypeOK, Control
  <2>11. CASE SetReturns(t)
    BY <2>11 DEF SetReturns, TypeOK, Control
  <2>12. CASE GetEntry(t)
    <3>1. /\ pc[t] = "get" /\ g_lock' = NoThread
          /\ pc' = [pc EXCEPT ![t] = "idle"]
          /\ op' = [op EXCEPT ![t] = "none"]
          /\ arg' = [arg EXCEPT ![t] = NullHandle]
          /\ UNCHANGED <<globals, allocated, magic, loader>>
      BY <2>12, GetEntryControl
    <3> QED BY <3>1 DEF TypeOK, Control
  <2>13. CASE EndDrops(t)
    BY <2>13 DEF EndDrops, TypeOK, Control
  <2>14. CASE EndReturns(t)
    BY <2>14 DEF EndReturns, TypeOK, Control
  <2>15. CASE EntSearch(t)
    <3>1. /\ pc[t] = "loaded" /\ op[t] = "ent" /\ g_lock' = NoThread
          /\ pc' = [pc EXCEPT ![t] = "idle"]
          /\ op' = [op EXCEPT ![t] = "none"]
          /\ arg' = [arg EXCEPT ![t] = NullHandle]
          /\ UNCHANGED <<globals, heap, loader>>
      BY <2>15, EntSearchControl
    <3> QED BY <3>1 DEF TypeOK, Control
  <2> QED
    BY <1>3, <2>1, <2>2, <2>3, <2>4, <2>5, <2>6, <2>7, <2>8,
       <2>9, <2>10, <2>11, <2>12, <2>13, <2>14, <2>15 DEF Step
<1> QED BY <1>1, <1>2, <1>3 DEF Next

(* Every step keeps a handle being opened or ended with one thread alone.  *)
LEMMA OwnershipStep ==
  ASSUME TypeOK, Control, Ownership, [Next]_vars
  PROVE  Ownership'
<1> USE HandleAssumption DEF globals, heap, loader, Goto, Enter, Return, InCall, Loading
<1>1. CASE UNCHANGED vars
  BY <1>1 DEF vars, TypeOK, Control, Ownership
<1>2. ASSUME NEW t \in Threads, Call(t) PROVE Ownership'
  <2>1. CASE SetFails(t)
    BY <2>1 DEF SetFails, TypeOK, Control, Ownership
  <2>2. CASE SetCall(t)
    BY <2>2 DEF SetCall, TypeOK, Control, Ownership
  <2>3. CASE NotAHandle(t)
    BY <2>3 DEF NotAHandle, TypeOK, Control, Ownership
  <2>4. CASE GetCall(t)
    BY <2>4 DEF GetCall, TypeOK, Control, Ownership
  <2>5. CASE EndCall(t)
    BY <2>5 DEF EndCall, TypeOK, Control, Ownership
  <2>6. CASE EntCall(t)
    <3>1. /\ pc[t] = "idle"
          /\ UNCHANGED <<g_lock, globals, heap, loader>>
          /\ \/ UNCHANGED <<pc, op, arg>>
             \/ /\ pc' = [pc EXCEPT ![t] = "lock"]
                /\ op' = [op EXCEPT ![t] = "ent"]
                /\ arg' = [arg EXCEPT ![t] = NullHandle]
      BY <2>6, EntCallControl
    <3>2. CASE UNCHANGED <<pc, op, arg>>
      BY <3>1, <3>2 DEF Ownership
    <3>3. CASE op' = [op EXCEPT ![t] = "ent"] /\ arg' = [arg EXCEPT ![t] = NullHandle]
      BY <3>1, <3>3 DEF TypeOK, Ownership
    <3> QED BY <3>1, <3>2, <3>3
  <2> QED BY <1>2, <2>1, <2>2, <2>3, <2>4, <2>5, <2>6 DEF Call
<1>3. ASSUME NEW t \in Threads, Step(t) PROVE Ownership'
  <2>1. CASE Lock(t)
    BY <2>1 DEF Lock, TypeOK, Control, Ownership
  <2>2. CASE EnsureLoaded(t)
    BY <2>2 DEF EnsureLoaded, TypeOK, Control, Ownership
  <2>3. CASE ReadLine(t)
    BY <2>3 DEF ReadLine, TakeLine, TypeOK, Control, Ownership
  <2>4. CASE EndOfFile(t)
    BY <2>4 DEF EndOfFile, TypeOK, Control, Ownership
  <2>5. CASE ProbeSystemConfiguration(t)
    BY <2>5 DEF ProbeSystemConfiguration, TypeOK, Control, Ownership
  <2>6. CASE LoadDefault(t)
    BY <2>6 DEF LoadDefault, TakeLine, TypeOK, Control, Ownership
  <2>7. CASE DefaultsLoaded(t)
    BY <2>7 DEF DefaultsLoaded, TypeOK, Control, Ownership
  <2>8. CASE LoadFails(t)
    BY <2>8 DEF LoadFails, TypeOK, Control, Ownership
  <2>9. CASE Undo(t)
    BY <2>9 DEF Undo, TypeOK, Control, Ownership
  <2>10. CASE SetCounts(t)
    BY <2>10 DEF SetCounts, TypeOK, Control, Ownership
  <2>11. CASE SetReturns(t)
    BY <2>11 DEF SetReturns, TypeOK, Control, Ownership
  <2>12. CASE GetEntry(t)
    <3>1. /\ pc[t] = "get" /\ g_lock' = NoThread
          /\ pc' = [pc EXCEPT ![t] = "idle"]
          /\ op' = [op EXCEPT ![t] = "none"]
          /\ arg' = [arg EXCEPT ![t] = NullHandle]
          /\ UNCHANGED <<globals, allocated, magic, loader>>
      BY <2>12, GetEntryControl
    <3> QED BY <3>1 DEF TypeOK, Control, Ownership
  <2>13. CASE EndDrops(t)
    BY <2>13 DEF EndDrops, TypeOK, Control, Ownership
  <2>14. CASE EndReturns(t)
    BY <2>14 DEF EndReturns, TypeOK, Control, Ownership
  <2>15. CASE EntSearch(t)
    <3>1. /\ pc[t] = "loaded" /\ op[t] = "ent" /\ g_lock' = NoThread
          /\ pc' = [pc EXCEPT ![t] = "idle"]
          /\ op' = [op EXCEPT ![t] = "none"]
          /\ arg' = [arg EXCEPT ![t] = NullHandle]
          /\ UNCHANGED <<globals, heap, loader>>
      BY <2>15, EntSearchControl
    <3> QED BY <3>1 DEF TypeOK, Control, Ownership
  <2> QED
    BY <1>3, <2>1, <2>2, <2>3, <2>4, <2>5, <2>6, <2>7, <2>8,
       <2>9, <2>10, <2>11, <2>12, <2>13, <2>14, <2>15 DEF Step
<1> QED BY <1>1, <1>2, <1>3 DEF Next

(* Only the increment in setnetconfig and the decrement in endnetconfig     *)
(* change which handles are counted, one handle at a time.                 *)
CountedChange ==
    \/ Counted' = Counted /\ g_refcount' = g_refcount
    \/ \E u \in Threads : SetCounts(u) /\ arg[u] \in Handles \ Counted
                           /\ Counted' = Counted \union {arg[u]}
    \/ \E u \in Threads : EndDrops(u) /\ arg[u] \in Counted
                           /\ Counted' = Counted \ {arg[u]}

(* A step counts at most one handle in or out, and g_refcount with it.     *)
LEMMA CountedStep ==
  ASSUME TypeOK, Control, Ownership, [Next]_vars
  PROVE  CountedChange
<1> USE HandleAssumption DEF CountedChange, globals, heap, loader, Goto, Enter, Return, InCall
<1>1. CASE UNCHANGED vars
  BY <1>1 DEF vars, TypeOK, Control, Ownership, Counted
<1>2. ASSUME NEW t \in Threads, Call(t)
      PROVE  CountedChange
  <2>1. CASE SetFails(t)
    BY <2>1 DEF SetFails, TypeOK, Control, Ownership, Counted
  <2>2. CASE SetCall(t)
    BY <2>2 DEF SetCall, TypeOK, Control, Ownership, Counted
  <2>3. CASE NotAHandle(t)
    BY <2>3 DEF NotAHandle, TypeOK, Control, Ownership, Counted
  <2>4. CASE GetCall(t)
    BY <2>4 DEF GetCall, TypeOK, Control, Ownership, Counted
  <2>5. CASE EndCall(t)
    BY <2>5 DEF EndCall, TypeOK, Control, Ownership, Counted
  <2>6. CASE EntCall(t)
    <3>1. /\ pc[t] = "idle"
          /\ UNCHANGED <<g_lock, globals, heap, loader>>
          /\ \/ UNCHANGED <<pc, op, arg>>
             \/ /\ pc' = [pc EXCEPT ![t] = "lock"]
                /\ op' = [op EXCEPT ![t] = "ent"]
                /\ arg' = [arg EXCEPT ![t] = NullHandle]
      BY <2>6, EntCallControl
    <3>2. CASE UNCHANGED <<pc, op, arg>>
      BY <3>1, <3>2 DEF Counted
    <3>3. CASE /\ pc' = [pc EXCEPT ![t] = "lock"]
               /\ op' = [op EXCEPT ![t] = "ent"]
               /\ arg' = [arg EXCEPT ![t] = NullHandle]
      BY <3>1, <3>3 DEF TypeOK, Control, Ownership, Counted
    <3> QED BY <3>1, <3>2, <3>3
  <2> QED BY <1>2, <2>1, <2>2, <2>3, <2>4, <2>5, <2>6 DEF Call
<1>3. ASSUME NEW t \in Threads, Step(t)
      PROVE  CountedChange
  <2>1. CASE Lock(t)
    BY <2>1 DEF Lock, TypeOK, Control, Ownership, Counted
  <2>2. CASE EnsureLoaded(t)
    BY <2>2 DEF EnsureLoaded, TypeOK, Control, Ownership, Counted
  <2>3. CASE ReadLine(t)
    BY <2>3 DEF ReadLine, TakeLine, TypeOK, Control, Ownership, Counted
  <2>4. CASE EndOfFile(t)
    BY <2>4 DEF EndOfFile, TypeOK, Control, Ownership, Counted
  <2>5. CASE ProbeSystemConfiguration(t)
    BY <2>5 DEF ProbeSystemConfiguration, TypeOK, Control, Ownership, Counted
  <2>6. CASE LoadDefault(t)
    BY <2>6 DEF LoadDefault, TakeLine, TypeOK, Control, Ownership, Counted
  <2>7. CASE DefaultsLoaded(t)
    BY <2>7 DEF DefaultsLoaded, TypeOK, Control, Ownership, Counted
  <2>8. CASE LoadFails(t)
    BY <2>8 DEF LoadFails, TypeOK, Control, Ownership, Counted
  <2>9. CASE Undo(t)
    BY <2>9 DEF Undo, TypeOK, Control, Ownership, Counted
  <2>10. CASE SetCounts(t)
    <3>1. arg[t] \in Handles \ Counted
      BY <2>10 DEF SetCounts, TypeOK, Control, Ownership, Counted
    <3>2. Counted' = Counted \union {arg[t]}
      BY <2>10, <3>1 DEF SetCounts, TypeOK, Control, Ownership, Counted
    <3> QED BY <2>10, <3>1, <3>2
  <2>11. CASE SetReturns(t)
    BY <2>11 DEF SetReturns, TypeOK, Control, Ownership, Counted
  <2>12. CASE GetEntry(t)
    <3>1. /\ pc[t] = "get" /\ g_lock' = NoThread
          /\ pc' = [pc EXCEPT ![t] = "idle"]
          /\ op' = [op EXCEPT ![t] = "none"]
          /\ arg' = [arg EXCEPT ![t] = NullHandle]
          /\ UNCHANGED <<globals, allocated, magic, loader>>
      BY <2>12, GetEntryControl
    <3> QED BY <3>1 DEF TypeOK, Control, Ownership, Counted
  <2>13. CASE EndDrops(t)
    <3>1. arg[t] \in Counted
      BY <2>13 DEF EndDrops, TypeOK, Control, Ownership, Counted
    <3>2. Counted' = Counted \ {arg[t]}
      BY <2>13, <3>1 DEF EndDrops, TypeOK, Control, Ownership, Counted
    <3> QED BY <2>13, <3>1, <3>2
  <2>14. CASE EndReturns(t)
    BY <2>14 DEF EndReturns, TypeOK, Control, Ownership, Counted
  <2>15. CASE EntSearch(t)
    <3>1. /\ pc[t] = "loaded" /\ op[t] = "ent" /\ g_lock' = NoThread
          /\ pc' = [pc EXCEPT ![t] = "idle"]
          /\ op' = [op EXCEPT ![t] = "none"]
          /\ arg' = [arg EXCEPT ![t] = NullHandle]
          /\ UNCHANGED <<globals, heap, loader>>
      BY <2>15, EntSearchControl
    <3> QED BY <3>1 DEF TypeOK, Control, Ownership, Counted
  <2> QED
    BY <1>3, <2>1, <2>2, <2>3, <2>4, <2>5, <2>6, <2>7, <2>8,
       <2>9, <2>10, <2>11, <2>12, <2>13, <2>14, <2>15 DEF Step
<1> QED BY <1>1, <1>2, <1>3 DEF Next

(* g_refcount follows the counted handles.                                 *)
LEMMA CountedFinite == IsFiniteSet(Counted) /\ IsFiniteSet(Counted')
<1>1. Counted \subseteq Handles /\ Counted' \subseteq Handles
  BY DEF Counted
<1> QED BY <1>1, HandleAssumption, FS_Subset

(* Every step keeps g_refcount equal to the number of counted handles.     *)
LEMMA RefcountStep ==
  ASSUME TypeOK, Control, Ownership, RefcountIsExact, [Next]_vars
  PROVE  RefcountIsExact'
<1>1. CASE Counted' = Counted /\ g_refcount' = g_refcount
  BY <1>1 DEF RefcountIsExact
<1>2. ASSUME NEW u \in Threads, SetCounts(u), arg[u] \in Handles \ Counted,
             Counted' = Counted \union {arg[u]}
      PROVE  RefcountIsExact'
  <2>1. g_refcount' = g_refcount + 1
    BY <1>2 DEF SetCounts
  <2>2. Cardinality(Counted \union {arg[u]}) = Cardinality(Counted) + 1
    BY <1>2, CountedFinite, FS_AddElement
  <2> QED BY <1>2, <2>1, <2>2 DEF RefcountIsExact
<1>3. ASSUME NEW u \in Threads, EndDrops(u), arg[u] \in Counted,
             Counted' = Counted \ {arg[u]}
      PROVE  RefcountIsExact'
  <2>1. /\ Cardinality(Counted \ {arg[u]}) = Cardinality(Counted) - 1
        /\ Cardinality(Counted) \in Nat /\ Cardinality(Counted) # 0
    BY <1>3, CountedFinite, FS_RemoveElement, FS_CardinalityType, FS_EmptySet
  <2>2. g_refcount' = g_refcount - 1
    BY <1>3, <2>1 DEF EndDrops, RefcountIsExact
  <2> QED BY <1>3, <2>1, <2>2 DEF RefcountIsExact
<1> QED BY <1>1, <1>2, <1>3, CountedStep DEF CountedChange

(* What a step can do to the table.                                        *)
LEMMA TakeLineTable ==
  ASSUME TypeOK, NEW t \in Threads, todo[t] # << >>, TakeLine(t)
  PROVE  \/ UNCHANGED <<g_entries, g_entry_cap>>
         \/ \E e \in Entry : AppendEntry(e)
<1>1. Head(todo[t]) \in Line
  BY DEF TypeOK
<1>2. Head(todo[t]).entry \in Entry
  BY <1>1 DEF Line
<1> QED BY <1>2 DEF TakeLine

TableChange ==
    \/ UNCHANGED <<g_entries, g_entry_cap, g_loaded>>
    \/ /\ \E u \in Threads : pc[u] \in {"file", "defaults"}
       /\ g_loaded' = g_loaded
       /\ \E e \in Entry : AppendEntry(e)
    \/ UNCHANGED <<g_entries, g_entry_cap>> /\ g_loaded' = TRUE
    \/ \E u \in Threads : pc[u] = "failed" /\ ClearGlobalEntries
    \/ \E u \in Threads : EndDrops(u) /\ ClearGlobalEntries /\ g_refcount' = 0

(* A step changes the table only by loading a line of it, or by clearing it*)
(* in the last endnetconfig.                                               *)
LEMMA TableStep ==
  ASSUME TypeOK, [Next]_vars
  PROVE  TableChange
<1> USE DEF TableChange, globals, heap, loader, Goto, Enter, Return, InCall
<1>1. CASE UNCHANGED vars
  BY <1>1 DEF vars, TypeOK
<1>2. ASSUME NEW t \in Threads, Call(t)
      PROVE  TableChange
  <2>1. CASE SetFails(t)
    BY <2>1 DEF SetFails, TypeOK
  <2>2. CASE SetCall(t)
    BY <2>2 DEF SetCall, TypeOK
  <2>3. CASE NotAHandle(t)
    BY <2>3 DEF NotAHandle, TypeOK
  <2>4. CASE GetCall(t)
    BY <2>4 DEF GetCall, TypeOK
  <2>5. CASE EndCall(t)
    BY <2>5 DEF EndCall, TypeOK
  <2>6. CASE EntCall(t)
    BY <2>6 DEF EntCall
  <2> QED BY <1>2, <2>1, <2>2, <2>3, <2>4, <2>5, <2>6 DEF Call
<1>3. ASSUME NEW t \in Threads, Step(t)
      PROVE  TableChange
  <2>1. CASE Lock(t)
    BY <2>1 DEF Lock, TypeOK
  <2>2. CASE EnsureLoaded(t)
    BY <2>2 DEF EnsureLoaded, TypeOK
  <2>3. CASE ReadLine(t)
    <3>1. CASE UNCHANGED <<g_entries, g_entry_cap>>
      BY <2>3, <3>1 DEF ReadLine
    <3>2. CASE TakeLine(t)
      BY <2>3, <3>2, TakeLineTable DEF ReadLine
    <3> QED BY <2>3, <3>1, <3>2 DEF ReadLine
  <2>4. CASE EndOfFile(t)
    BY <2>4 DEF EndOfFile, TypeOK
  <2>5. CASE ProbeSystemConfiguration(t)
    BY <2>5 DEF ProbeSystemConfiguration, TypeOK
  <2>6. CASE LoadDefault(t)
    BY <2>6, TakeLineTable DEF LoadDefault
  <2>7. CASE DefaultsLoaded(t)
    BY <2>7 DEF DefaultsLoaded, TypeOK
  <2>8. CASE LoadFails(t)
    BY <2>8 DEF LoadFails, TypeOK
  <2>9. CASE Undo(t)
    BY <2>9 DEF Undo, TypeOK
  <2>10. CASE SetCounts(t)
    BY <2>10 DEF SetCounts, TypeOK
  <2>11. CASE SetReturns(t)
    BY <2>11 DEF SetReturns, TypeOK
  <2>12. CASE GetEntry(t)
    BY <2>12 DEF GetEntry
  <2>13. CASE EndDrops(t)
    <3>1. CASE g_refcount' = 0
      BY <2>13, <3>1 DEF EndDrops
    <3>2. CASE g_refcount' # 0
      BY <2>13, <3>2 DEF EndDrops
    <3> QED BY <3>1, <3>2
  <2>14. CASE EndReturns(t)
    BY <2>14 DEF EndReturns, TypeOK
  <2>15. CASE EntSearch(t)
    BY <2>15 DEF EntSearch
  <2> QED
    BY <1>3, <2>1, <2>2, <2>3, <2>4, <2>5, <2>6, <2>7, <2>8,
       <2>9, <2>10, <2>11, <2>12, <2>13, <2>14, <2>15 DEF Step
<1> QED BY <1>1, <1>2, <1>3 DEF Next

(* A counted handle implies a loaded table.                                *)
LEMMA CountedIsLoadedStep ==
  ASSUME TypeOK, Control, Ownership, RefcountIsExact, LoadProgress, CountedIsLoaded,
         [Next]_vars
  PROVE  CountedIsLoaded'
<1>1. Counted' # {} => g_loaded
  <2>1. ASSUME NEW u \in Threads, SetCounts(u) PROVE g_loaded
    BY <2>1 DEF SetCounts, LoadProgress
  <2>2. ASSUME NEW u \in Threads, EndDrops(u), arg[u] \in Counted PROVE g_loaded
    BY <2>2 DEF CountedIsLoaded
  <2> QED BY <2>1, <2>2, CountedStep DEF CountedChange, CountedIsLoaded
<1>2. ASSUME g_loaded' # g_loaded, g_loaded PROVE Counted' = {}
  <2>1. ~ \E u \in Threads : pc[u] = "failed"
    BY <1>2 DEF LoadProgress
  <2>2. g_refcount' = 0
    BY <1>2, <2>1, TableStep DEF TableChange, TypeOK
  <2> QED BY <2>2, RefcountStep, CountedFinite, FS_EmptySet DEF RefcountIsExact
<1> QED BY <1>1, <1>2 DEF CountedIsLoaded

(* The table never outgrows its allocation.                                *)
LEMMA WithinCapacityStep ==
  ASSUME TypeOK, WithinCapacity, [Next]_vars
  PROVE  WithinCapacity'
<1>1. CASE UNCHANGED <<g_entries, g_entry_cap>>
  BY <1>1 DEF WithinCapacity
<1>2. ASSUME NEW e \in Entry, AppendEntry(e) PROVE WithinCapacity'
  <2>1. Len(g_entries') = Len(g_entries) + 1 /\ Len(g_entries) \in Nat
    BY <1>2 DEF AppendEntry, TypeOK
  <2> QED BY <1>2, <2>1, CapAssumption DEF AppendEntry, WithinCapacity, TypeOK
<1>3. CASE ClearGlobalEntries
  BY <1>3 DEF ClearGlobalEntries, WithinCapacity
<1> QED BY <1>1, <1>2, <1>3, TableStep DEF TableChange

(* Handles not yet published stay without a trace of use.                  *)
LEMMA UnusedStep ==
  ASSUME TypeOK, Control, Ownership, Unused, [Next]_vars
  PROVE  Unused'
<1> USE HandleAssumption DEF globals, heap, loader, Goto, Enter, Return, InCall
<1>1. CASE UNCHANGED vars
  BY <1>1 DEF vars, TypeOK, Control, Ownership, Unused
<1>2. ASSUME NEW t \in Threads, Call(t)
      PROVE  Unused'
  <2>1. CASE SetFails(t)
    BY <2>1 DEF SetFails, TypeOK, Control, Ownership, Unused
  <2>2. CASE SetCall(t)
    BY <2>2 DEF SetCall, TypeOK, Control, Ownership, Unused
  <2>3. CASE NotAHandle(t)
    BY <2>3 DEF NotAHandle, TypeOK, Control, Ownership, Unused
  <2>4. CASE GetCall(t)
    BY <2>4 DEF GetCall, TypeOK, Control, Ownership, Unused
  <2>5. CASE EndCall(t)
    BY <2>5 DEF EndCall, TypeOK, Control, Ownership, Unused
  <2>6. CASE EntCall(t)
    <3>1. /\ pc[t] = "idle"
          /\ UNCHANGED <<g_lock, globals, heap, loader>>
          /\ \/ UNCHANGED <<pc, op, arg>>
             \/ /\ pc' = [pc EXCEPT ![t] = "lock"]
                /\ op' = [op EXCEPT ![t] = "ent"]
                /\ arg' = [arg EXCEPT ![t] = NullHandle]
      BY <2>6, EntCallControl
    <3>2. \A u \in Threads : op'[u] = "set" => op[u] = "set" /\ arg'[u] = arg[u]
      BY <3>1 DEF TypeOK
    <3> QED BY <3>1, <3>2 DEF Unused
  <2> QED BY <1>2, <2>1, <2>2, <2>3, <2>4, <2>5, <2>6 DEF Call
<1>3. ASSUME NEW t \in Threads, Step(t)
      PROVE  Unused'
  <2>1. CASE Lock(t)
    BY <2>1 DEF Lock, TypeOK, Control, Ownership, Unused
  <2>2. CASE EnsureLoaded(t)
    BY <2>2 DEF EnsureLoaded, TypeOK, Control, Ownership, Unused
  <2>3. CASE ReadLine(t)
    BY <2>3 DEF ReadLine, TakeLine, TypeOK, Control, Ownership, Unused
  <2>4. CASE EndOfFile(t)
    BY <2>4 DEF EndOfFile, TypeOK, Control, Ownership, Unused
  <2>5. CASE ProbeSystemConfiguration(t)
    BY <2>5 DEF ProbeSystemConfiguration, TypeOK, Control, Ownership, Unused
  <2>6. CASE LoadDefault(t)
    BY <2>6 DEF LoadDefault, TakeLine, TypeOK, Control, Ownership, Unused
  <2>7. CASE DefaultsLoaded(t)
    BY <2>7 DEF DefaultsLoaded, TypeOK, Control, Ownership, Unused
  <2>8. CASE LoadFails(t)
    BY <2>8 DEF LoadFails, TypeOK, Control, Ownership, Unused
  <2>9. CASE Undo(t)
    <3>1. given' = given /\ index' = index /\ op[t] \in {"set", "ent"}
      <4>1. given' = given /\ index' = index /\ pc[t] = "undo"
        BY <2>9 DEF Undo
      <4>2. op[t] \in {"set", "ent"}
        BY <4>1 DEF Control, Loading
      <4> QED BY <4>1, <4>2
    <3>2. \A h \in Handles \ allocated' : h \notin allocated \/ (h = arg[t] /\ op[t] = "set")
      BY <2>9, <3>1 DEF Undo, Control
    <3>3. \A u \in Threads : op'[u] = "set" => op[u] = "set" /\ arg'[u] = arg[u]
      BY <2>9 DEF Undo, TypeOK
    <3> QED BY <3>1, <3>2, <3>3 DEF Unused
  <2>10. CASE SetCounts(t)
    BY <2>10 DEF SetCounts, TypeOK, Control, Ownership, Unused
  <2>11. CASE SetReturns(t)
    BY <2>11 DEF SetReturns, TypeOK, Control, Ownership, Unused
  <2>12. CASE GetEntry(t)
    <3>1. /\ pc[t] = "get" /\ g_lock' = NoThread
          /\ pc' = [pc EXCEPT ![t] = "idle"]
          /\ op' = [op EXCEPT ![t] = "none"]
          /\ arg' = [arg EXCEPT ![t] = NullHandle]
          /\ UNCHANGED <<globals, allocated, magic, loader>>
      BY <2>12, GetEntryControl
    <3>2. op[t] = "get" /\ arg[t] \in Handles /\ arg[t] \in allocated
      BY <3>1 DEF Control, Ownership
    <3>3. \A h \in Handles \ {arg[t]} : given'[h] = given[h] /\ index'[h] = index[h]
      BY <2>12 DEF GetEntry, TypeOK
    <3>4. \A u \in Threads : op[u] = "set" => arg[u] # arg[t] /\ arg[u] \in Handles
      BY <3>1, <3>2 DEF Control, Ownership
    <3> QED BY <3>1, <3>2, <3>3, <3>4 DEF Unused, TypeOK
  <2>13. CASE EndDrops(t)
    BY <2>13 DEF EndDrops, TypeOK, Control, Ownership, Unused
  <2>14. CASE EndReturns(t)
    BY <2>14 DEF EndReturns, TypeOK, Control, Ownership, Unused
  <2>15. CASE EntSearch(t)
    <3>1. /\ pc[t] = "loaded" /\ op[t] = "ent" /\ g_lock' = NoThread
          /\ pc' = [pc EXCEPT ![t] = "idle"]
          /\ op' = [op EXCEPT ![t] = "none"]
          /\ arg' = [arg EXCEPT ![t] = NullHandle]
          /\ UNCHANGED <<globals, heap, loader>>
      BY <2>15, EntSearchControl
    <3> QED BY <3>1 DEF TypeOK, Control, Ownership, Unused
  <2> QED
    BY <1>3, <2>1, <2>2, <2>3, <2>4, <2>5, <2>6, <2>7, <2>8,
       <2>9, <2>10, <2>11, <2>12, <2>13, <2>14, <2>15 DEF Step
<1> QED BY <1>1, <1>2, <1>3 DEF Next

(* The loader's progress.  Only the owner of g_lock is in the loader, so   *)
(* what the table holds changes under nobody else's feet.                  *)
LEMMA LoadProgressStep ==
  ASSUME TypeOK, Mutex, Control, LoadProgress, [Next]_vars
  PROVE  LoadProgress'
<1> USE ThreadAssumption DEF SetError, InLock, Loading, globals, heap, loader, Goto, Enter, Return, InCall
<1>1. CASE UNCHANGED vars
  BY <1>1 DEF vars, TypeOK, Mutex, Control, LoadProgress
<1>2. ASSUME NEW t \in Threads, Call(t)
      PROVE  LoadProgress'
  <2>1. CASE SetFails(t)
    BY <2>1 DEF SetFails, TypeOK, Mutex, Control, LoadProgress
  <2>2. CASE SetCall(t)
    BY <2>2 DEF SetCall, TypeOK, Mutex, Control, LoadProgress
  <2>3. CASE NotAHandle(t)
    BY <2>3 DEF NotAHandle, TypeOK, Mutex, Control, LoadProgress
  <2>4. CASE GetCall(t)
    BY <2>4 DEF GetCall, TypeOK, Mutex, Control, LoadProgress
  <2>5. CASE EndCall(t)
    BY <2>5 DEF EndCall, TypeOK, Mutex, Control, LoadProgress
  <2>6. CASE EntCall(t)
    <3>1. /\ pc[t] = "idle"
          /\ UNCHANGED <<g_lock, globals, heap, loader>>
          /\ \/ UNCHANGED <<pc, op, arg>>
             \/ /\ pc' = [pc EXCEPT ![t] = "lock"]
                /\ op' = [op EXCEPT ![t] = "ent"]
                /\ arg' = [arg EXCEPT ![t] = NullHandle]
      BY <2>6, EntCallControl
    <3>2. \A u \in Threads : pc'[u] \in InLock \/ pc[u] \in InLock => u # t /\ pc'[u] = pc[u]
      BY <3>1 DEF TypeOK
    <3>3. \A u \in Threads \ {t} : nc_error'[u] = nc_error[u]
      BY <2>6 DEF EntCall, TypeOK
    <3> QED BY <3>1, <3>2, <3>3 DEF LoadProgress, TypeOK
  <2> QED BY <1>2, <2>1, <2>2, <2>3, <2>4, <2>5, <2>6 DEF Call
<1>3. ASSUME NEW t \in Threads, Step(t)
      PROVE  LoadProgress'
  <2>1. CASE Lock(t)
    BY <2>1 DEF Lock, TypeOK, Mutex, Control, LoadProgress
  <2>2. CASE EnsureLoaded(t)
    BY <2>2 DEF EnsureLoaded, TypeOK, Mutex, Control, LoadProgress
  <2>3. CASE ReadLine(t)
    <3>1. \A u \in Threads \ {t} : pc[u] \notin InLock
      BY <2>3, ThreadAssumption DEF ReadLine, Mutex
    <3>2. /\ ~g_loaded /\ ~g_loaded' /\ pc[t] = "file" /\ t \in Threads
          /\ g_entries \in Seq(Entry) /\ pc \in [Threads -> Pcs]
          /\ nc_error \in [Threads -> Errors] /\ saw_data \in [Threads -> BOOLEAN]
      BY <2>3 DEF ReadLine, LoadProgress, TypeOK
    <3>3. CASE UNCHANGED <<g_entries, g_entry_cap, saw_data, pc, nc_error>>
      BY <3>1, <3>2, <3>3 DEF LoadProgress
    <3>4. CASE g_entries' # << >> /\ UNCHANGED <<pc, nc_error>>
      BY <3>1, <3>2, <3>4 DEF LoadProgress
    <3>5. CASE \E e \in {"NOMEM", "BADFILE"} :
                 SetError(t, e) /\ pc' = [pc EXCEPT ![t] = "failed"]
      BY <3>1, <3>2, <3>5 DEF LoadProgress
    <3>6. TakeLine(t) => \/ g_entries' # << >> /\ UNCHANGED <<pc, nc_error>>
                         \/ \E e \in {"NOMEM", "BADFILE"} :
                              SetError(t, e) /\ pc' = [pc EXCEPT ![t] = "failed"]
      BY <3>2 DEF TakeLine, AppendEntry
    <3> QED BY <2>3, <3>3, <3>4, <3>5, <3>6 DEF ReadLine
  <2>4. CASE EndOfFile(t)
    BY <2>4 DEF EndOfFile, TypeOK, Mutex, Control, LoadProgress
  <2>5. CASE ProbeSystemConfiguration(t)
    <3>1. \A u \in Threads \ {t} : pc[u] \notin InLock
      BY <2>5, ThreadAssumption DEF ProbeSystemConfiguration, Mutex
    <3>2. todo'[t] # << >>
      BY <2>5, DefaultLinesType DEF ProbeSystemConfiguration, TypeOK
    <3>3. /\ pc' = [pc EXCEPT ![t] = "defaults"] /\ pc[t] = "probe"
          /\ UNCHANGED <<g_entries, g_entry_cap, g_loaded, nc_error, saw_data>>
      BY <2>5 DEF ProbeSystemConfiguration
    <3> QED BY <3>1, <3>2, <3>3 DEF LoadProgress, TypeOK
  <2>6. CASE LoadDefault(t)
    <3>1. \A u \in Threads \ {t} : pc[u] \notin InLock
      BY <2>6, ThreadAssumption DEF LoadDefault, Mutex
    <3>2. /\ ~g_loaded /\ ~g_loaded' /\ pc[t] = "defaults" /\ t \in Threads
          /\ g_entries \in Seq(Entry) /\ pc \in [Threads -> Pcs]
          /\ nc_error \in [Threads -> Errors] /\ saw_data' = saw_data
      BY <2>6 DEF LoadDefault, LoadProgress, TypeOK
    <3>4. CASE g_entries' # << >> /\ UNCHANGED <<pc, nc_error>>
      BY <3>1, <3>2, <3>4 DEF LoadProgress
    <3>5. CASE \E e \in {"NOMEM", "BADFILE"} :
                 SetError(t, e) /\ pc' = [pc EXCEPT ![t] = "failed"]
      BY <3>1, <3>2, <3>5 DEF LoadProgress
    <3>6. TakeLine(t) => \/ g_entries' # << >> /\ UNCHANGED <<pc, nc_error>>
                         \/ \E e \in {"NOMEM", "BADFILE"} :
                              SetError(t, e) /\ pc' = [pc EXCEPT ![t] = "failed"]
      BY <3>2 DEF TakeLine, AppendEntry
    <3> QED BY <2>6, <3>4, <3>5, <3>6 DEF LoadDefault
  <2>7. CASE DefaultsLoaded(t)
    BY <2>7 DEF DefaultsLoaded, TypeOK, Mutex, Control, LoadProgress
  <2>8. CASE LoadFails(t)
    <3>1. \A u \in Threads \ {t} : pc[u] \notin InLock
      BY <2>8, ThreadAssumption DEF LoadFails, Mutex
    <3>2. /\ g_entries' = << >> /\ g_entry_cap' = 0 /\ ~g_loaded'
          /\ pc' = [pc EXCEPT ![t] = "undo"] /\ pc[t] = "failed"
      BY <2>8 DEF LoadFails, ClearGlobalEntries
    <3>3. nc_error'[t] \in {"NOMEM", "BADFILE"}
      BY <2>8, <3>2 DEF LoadFails, LoadProgress, TypeOK
    <3> QED BY <3>1, <3>2, <3>3 DEF LoadProgress, TypeOK
  <2>9. CASE Undo(t)
    BY <2>9 DEF Undo, TypeOK, Mutex, Control, LoadProgress
  <2>10. CASE SetCounts(t)
    BY <2>10 DEF SetCounts, TypeOK, Mutex, Control, LoadProgress
  <2>11. CASE SetReturns(t)
    BY <2>11 DEF SetReturns, TypeOK, Mutex, Control, LoadProgress
  <2>12. CASE GetEntry(t)
    <3>1. /\ pc[t] = "get" /\ g_lock' = NoThread
          /\ pc' = [pc EXCEPT ![t] = "idle"]
          /\ op' = [op EXCEPT ![t] = "none"]
          /\ arg' = [arg EXCEPT ![t] = NullHandle]
          /\ UNCHANGED <<globals, allocated, magic, loader>>
      BY <2>12, GetEntryControl
    <3> QED BY <3>1 DEF TypeOK, Mutex, Control, LoadProgress
  <2>13. CASE EndDrops(t)
    <3>1. \A u \in Threads \ {t} : pc[u] \notin InLock
      BY <2>13, ThreadAssumption DEF EndDrops, Mutex
    <3>2. /\ pc' = [pc EXCEPT ![t] = "free"] /\ pc[t] = "end"
          /\ UNCHANGED <<nc_error, saw_data, todo>>
      BY <2>13 DEF EndDrops
    <3>3. CASE g_refcount' = 0
      <4>1. g_entries' = << >> /\ g_entry_cap' = 0 /\ ~g_loaded'
        BY <2>13, <3>3 DEF EndDrops, ClearGlobalEntries
      <4> QED BY <3>1, <3>2, <4>1 DEF LoadProgress, TypeOK
    <3>4. CASE UNCHANGED <<g_entries, g_entry_cap, g_loaded>>
      BY <3>1, <3>2, <3>4 DEF LoadProgress, TypeOK
    <3> QED BY <2>13, <3>3, <3>4 DEF EndDrops
  <2>14. CASE EndReturns(t)
    BY <2>14 DEF EndReturns, TypeOK, Mutex, Control, LoadProgress
  <2>15. CASE EntSearch(t)
    <3>1. /\ pc[t] = "loaded" /\ op[t] = "ent" /\ g_lock' = NoThread
          /\ pc' = [pc EXCEPT ![t] = "idle"]
          /\ op' = [op EXCEPT ![t] = "none"]
          /\ arg' = [arg EXCEPT ![t] = NullHandle]
          /\ UNCHANGED <<globals, heap, loader>>
      BY <2>15, EntSearchControl
    <3> QED BY <3>1 DEF TypeOK, Mutex, Control, LoadProgress
  <2> QED
    BY <1>3, <2>1, <2>2, <2>3, <2>4, <2>5, <2>6, <2>7, <2>8,
       <2>9, <2>10, <2>11, <2>12, <2>13, <2>14, <2>15 DEF Step
<1> QED BY <1>1, <1>2, <1>3 DEF Next

(* What getnetconfig handed out stays valid: counted handles see the same  *)
(* table, or, before any handle is counted, a table that only grows.       *)
HandlesStep ==
    \A h \in Handles :
        \/ index'[h] = index[h] /\ given'[h] = given[h]
        \/ h \notin Counted'
        \/ /\ index[h] < Len(g_entries) /\ UNCHANGED g_entries
           /\ index'[h] = index[h] + 1
           /\ given'[h] = Append(given[h], g_entries[index[h] + 1])

(* A step leaves a counted handle as it is, or advances it by one entry.   *)
LEMMA HandlesStepHolds ==
  ASSUME TypeOK, Control, Ownership, Unused, [Next]_vars
  PROVE  HandlesStep
<1> USE DEF HandlesStep, globals, heap, loader, Goto, Enter, Return, InCall
<1>1. CASE UNCHANGED vars
  BY <1>1 DEF vars, TypeOK
<1>2. ASSUME NEW t \in Threads, Call(t)
      PROVE  HandlesStep
  <2>1. CASE SetFails(t)
    BY <2>1 DEF SetFails, TypeOK
  <2>2. CASE SetCall(t)
    <3>1. PICK h \in Handles \ allocated :
             /\ index' = [index EXCEPT ![h] = 0] /\ arg' = [arg EXCEPT ![t] = h]
             /\ magic' = [magic EXCEPT ![h] = FALSE]
             /\ op' = [op EXCEPT ![t] = "set"] /\ pc' = [pc EXCEPT ![t] = "lock"]
             /\ given' = given
      BY <2>2 DEF SetCall
    <3>2. h \notin Counted'
      BY <2>2, <3>1 DEF TypeOK, Ownership, Control, Counted
    <3> QED BY <3>1, <3>2 DEF TypeOK
  <2>3. CASE NotAHandle(t)
    BY <2>3 DEF NotAHandle, TypeOK
  <2>4. CASE GetCall(t)
    BY <2>4 DEF GetCall, TypeOK
  <2>5. CASE EndCall(t)
    BY <2>5 DEF EndCall, TypeOK
  <2>6. CASE EntCall(t)
    BY <2>6 DEF EntCall
  <2> QED BY <1>2, <2>1, <2>2, <2>3, <2>4, <2>5, <2>6 DEF Call
<1>3. ASSUME NEW t \in Threads, Step(t)
      PROVE  HandlesStep
  <2>1. CASE Lock(t)
    BY <2>1 DEF Lock, TypeOK
  <2>2. CASE EnsureLoaded(t)
    BY <2>2 DEF EnsureLoaded, TypeOK
  <2>3. CASE ReadLine(t)
    BY <2>3 DEF ReadLine, TakeLine, TypeOK
  <2>4. CASE EndOfFile(t)
    BY <2>4 DEF EndOfFile, TypeOK
  <2>5. CASE ProbeSystemConfiguration(t)
    BY <2>5 DEF ProbeSystemConfiguration, TypeOK
  <2>6. CASE LoadDefault(t)
    BY <2>6 DEF LoadDefault, TakeLine, TypeOK
  <2>7. CASE DefaultsLoaded(t)
    BY <2>7 DEF DefaultsLoaded, TypeOK
  <2>8. CASE LoadFails(t)
    BY <2>8 DEF LoadFails, TypeOK
  <2>9. CASE Undo(t)
    BY <2>9 DEF Undo, TypeOK
  <2>10. CASE SetCounts(t)
    BY <2>10 DEF SetCounts, TypeOK
  <2>11. CASE SetReturns(t)
    <3>1. op[t] = "set" /\ index' = [index EXCEPT ![arg[t]] = 0] /\ given' = given
      BY <2>11 DEF SetReturns, Control
    <3>2. index[arg[t]] = 0
      BY <3>1 DEF Unused
    <3> QED BY <3>1, <3>2 DEF TypeOK
  <2>12. CASE GetEntry(t)
    <3>1. CASE UNCHANGED <<index, given>>
      BY <3>1
    <3>2. CASE g_loaded /\ index[arg[t]] < Len(g_entries)
      BY <2>12, <3>2 DEF GetEntry, TypeOK
    <3> QED BY <2>12, <3>1, <3>2 DEF GetEntry
  <2>13. CASE EndDrops(t)
    BY <2>13 DEF EndDrops, TypeOK
  <2>14. CASE EndReturns(t)
    <3>1. arg[t] \notin Counted'
      BY <2>14 DEF EndReturns, TypeOK, Ownership, Control, Counted
    <3> QED BY <2>14, <3>1 DEF EndReturns, TypeOK
  <2>15. CASE EntSearch(t)
    BY <2>15 DEF EntSearch
  <2> QED
    BY <1>3, <2>1, <2>2, <2>3, <2>4, <2>5, <2>6, <2>7, <2>8,
       <2>9, <2>10, <2>11, <2>12, <2>13, <2>14, <2>15 DEF Step
<1> QED BY <1>1, <1>2, <1>3 DEF Next

(* The pointers that were handed out survive every step.                   *)
LEMMA HandedOutStep ==
  ASSUME TypeOK, TypeOK', Mutex, Control, Ownership, Unused, RefcountIsExact,
         CountedIsLoaded, CountedIsLoaded', LoadProgress, HandedOutStaysValid, [Next]_vars
  PROVE  HandedOutStaysValid'
<1>1. SUFFICES ASSUME NEW h \in Handles, h \in Counted' PROVE PointersValid(h)'
  BY DEF HandedOutStaysValid, Counted
<1>2. PointersValid(h)
  <2>1. CASE h \in Counted
    BY <2>1 DEF HandedOutStaysValid
  <2>2. ASSUME NEW u \in Threads, SetCounts(u), h = arg[u]
        PROVE  PointersValid(h)
    <3>1. given[h] = << >> /\ index[h] = 0
      BY <2>2 DEF SetCounts, Unused
    <3> QED BY <3>1 DEF PointersValid
  <2> QED BY <1>1, <2>1, <2>2, CountedStep DEF CountedChange
<1>3. g_loaded'
  BY <1>1 DEF CountedIsLoaded
<1>4. \/ UNCHANGED g_entries
      \/ \E e \in Entry : AppendEntry(e)
  BY <1>3, TableStep DEF TableChange, ClearGlobalEntries
<1>5. CASE index'[h] = index[h] /\ given'[h] = given[h]
  <2>1. CASE UNCHANGED g_entries
    BY <1>2, <1>5, <2>1 DEF PointersValid
  <2>2. ASSUME NEW e \in Entry, AppendEntry(e) PROVE PointersValid(h)'
    <3>1. /\ Len(g_entries') = Len(g_entries) + 1 /\ Len(g_entries) \in Nat
          /\ \A i \in 1..Len(g_entries) : g_entries'[i] = g_entries[i]
      BY <2>2 DEF AppendEntry, TypeOK
    <3>2. Len(given[h]) \in Nat
      BY DEF TypeOK
    <3> QED BY <1>2, <1>5, <3>1, <3>2 DEF PointersValid
  <2> QED BY <1>4, <2>1, <2>2
<1>6. CASE /\ index[h] < Len(g_entries) /\ UNCHANGED g_entries
           /\ index'[h] = index[h] + 1
           /\ given'[h] = Append(given[h], g_entries[index[h] + 1])
  <2>1. /\ given[h] \in Seq(Entry) /\ index[h] \in Nat
        /\ g_entries[index[h] + 1] \in Entry
    BY <1>6 DEF TypeOK
  <2>2. /\ Len(given'[h]) = Len(given[h]) + 1
        /\ \A i \in 1..Len(given[h]) : given'[h][i] = given[h][i]
        /\ given'[h][Len(given[h]) + 1] = g_entries[index[h] + 1]
    BY <1>6, <2>1
  <2> QED BY <1>2, <1>6, <2>1, <2>2 DEF PointersValid
<1> QED BY <1>1, <1>5, <1>6, HandlesStepHolds DEF HandlesStep

(* A call that has not returned has no result.                             *)
LEMMA NoResultYetStep ==
  ASSUME TypeOK, Control, NoResultYet, [Next]_vars
  PROVE  NoResultYet'
<1> USE DEF globals, heap, loader, Goto, Enter, Return, InCall
<1>1. CASE UNCHANGED vars
  BY <1>1 DEF vars, TypeOK, Control, NoResultYet
<1>2. ASSUME NEW t \in Threads, Call(t)
      PROVE  NoResultYet'
  <2>1. CASE SetFails(t)
    BY <2>1 DEF SetFails, TypeOK, Control, NoResultYet
  <2>2. CASE SetCall(t)
    BY <2>2 DEF SetCall, TypeOK, Control, NoResultYet
  <2>3. CASE NotAHandle(t)
    BY <2>3 DEF NotAHandle, TypeOK, Control, NoResultYet
  <2>4. CASE GetCall(t)
    BY <2>4 DEF GetCall, TypeOK, Control, NoResultYet
  <2>5. CASE EndCall(t)
    BY <2>5 DEF EndCall, TypeOK, Control, NoResultYet
  <2>6. CASE EntCall(t)
    BY <2>6 DEF EntCall, TypeOK, Control, NoResultYet
  <2> QED BY <1>2, <2>1, <2>2, <2>3, <2>4, <2>5, <2>6 DEF Call
<1>3. ASSUME NEW t \in Threads, Step(t)
      PROVE  NoResultYet'
  <2>1. CASE Lock(t)
    BY <2>1 DEF Lock, TypeOK, Control, NoResultYet
  <2>2. CASE EnsureLoaded(t)
    BY <2>2 DEF EnsureLoaded, TypeOK, Control, NoResultYet
  <2>3. CASE ReadLine(t)
    BY <2>3 DEF ReadLine, TakeLine, TypeOK, Control, NoResultYet
  <2>4. CASE EndOfFile(t)
    BY <2>4 DEF EndOfFile, TypeOK, Control, NoResultYet
  <2>5. CASE ProbeSystemConfiguration(t)
    BY <2>5 DEF ProbeSystemConfiguration, TypeOK, Control, NoResultYet
  <2>6. CASE LoadDefault(t)
    BY <2>6 DEF LoadDefault, TakeLine, TypeOK, Control, NoResultYet
  <2>7. CASE DefaultsLoaded(t)
    BY <2>7 DEF DefaultsLoaded, TypeOK, Control, NoResultYet
  <2>8. CASE LoadFails(t)
    BY <2>8 DEF LoadFails, TypeOK, Control, NoResultYet
  <2>9. CASE Undo(t)
    BY <2>9 DEF Undo, TypeOK, Control, NoResultYet
  <2>10. CASE SetCounts(t)
    BY <2>10 DEF SetCounts, TypeOK, Control, NoResultYet
  <2>11. CASE SetReturns(t)
    BY <2>11 DEF SetReturns, TypeOK, Control, NoResultYet
  <2>12. CASE GetEntry(t)
    BY <2>12, SMTT(20), ZenonT(20) DEF GetEntry, TypeOK, Control, NoResultYet
  <2>13. CASE EndDrops(t)
    BY <2>13 DEF EndDrops, TypeOK, Control, NoResultYet
  <2>14. CASE EndReturns(t)
    BY <2>14 DEF EndReturns, TypeOK, Control, NoResultYet
  <2>15. CASE EntSearch(t)
    BY <2>15 DEF EntSearch, TypeOK, Control, NoResultYet
  <2> QED
    BY <1>3, <2>1, <2>2, <2>3, <2>4, <2>5, <2>6, <2>7, <2>8,
       <2>9, <2>10, <2>11, <2>12, <2>13, <2>14, <2>15 DEF Step
<1> QED BY <1>1, <1>2, <1>3 DEF Next

(* The inductive invariant, and with it every invariant it is made of.     *)
THEOREM InductiveInvariant == Spec => []IInv
<1>1. Init => IInv
  <2> SUFFICES ASSUME Init PROVE IInv
    OBVIOUS
  <2>1. TypeOK
    BY InitTypeOK
  <2>2. Counted = {}
    BY HandleAssumption DEF Init, Counted
  <2>3. RefcountIsExact /\ CountedIsLoaded /\ HandedOutStaysValid
    BY <2>2, FS_EmptySet DEF Init, RefcountIsExact, CountedIsLoaded, HandedOutStaysValid
  <2>4. Mutex
    BY ThreadAssumption DEF Init, Mutex, InLock, Loading
  <2>5. Control
    BY HandleAssumption DEF Init, Control, Loading
  <2>6. Ownership /\ Unused /\ NoResultYet
    BY DEF Init, Ownership, Unused, NoResultYet
  <2>7. LoadProgress /\ WithinCapacity
    BY DEF Init, LoadProgress, WithinCapacity
  <2> QED BY <2>1, <2>3, <2>4, <2>5, <2>6, <2>7 DEF IInv
<1>2. IInv /\ [Next]_vars => IInv'
  <2> SUFFICES ASSUME IInv, [Next]_vars PROVE IInv'
    OBVIOUS
  <2> USE DEF IInv
  <2>1. TypeOK'
    BY NextTypeOK
  <2>2. Mutex' /\ Control' /\ Ownership' /\ Unused'
    BY MutexStep, ControlStep, OwnershipStep, UnusedStep
  <2>3. RefcountIsExact' /\ CountedIsLoaded' /\ LoadProgress' /\ WithinCapacity'
    BY RefcountStep, CountedIsLoadedStep, LoadProgressStep, WithinCapacityStep
  <2>4. HandedOutStaysValid' /\ NoResultYet'
    BY <2>1, <2>3, HandedOutStep, NoResultYetStep
  <2> QED BY <2>1, <2>2, <2>3, <2>4
<1> QED BY <1>1, <1>2, PTL DEF Spec

(* g_refcount always counts the open handles exactly.                      *)
THEOREM RefcountCorrect == Spec => []RefcountIsExact
<1>1. IInv => RefcountIsExact
  BY DEF IInv
<1> QED BY <1>1, InductiveInvariant, PTL

(* An entry returned by getnetconfig stays what it was while its handle is *)
(* open, whatever the other threads do.                                    *)
THEOREM PointersCorrect == Spec => []HandedOutStaysValid
<1>1. IInv => HandedOutStaysValid
  BY DEF IInv
<1> QED BY <1>1, InductiveInvariant, PTL

(* With the lock free nobody finds a half-loaded table.                    *)
THEOREM TableCorrect == Spec => []NoPartialTable
<1>1. IInv => NoPartialTable
  <2> SUFFICES ASSUME IInv, g_lock = NoThread PROVE NoPartialTable
    BY DEF NoPartialTable
  <2>1. \A t \in Threads : pc[t] \notin InLock
    BY ThreadAssumption DEF IInv, Mutex
  <2> QED BY <2>1 DEF IInv, LoadProgress, NoPartialTable, InLock, Loading
<1> QED BY <1>1, InductiveInvariant, PTL

(* Every write to the table is inside its allocation.                      *)
THEOREM CapacityCorrect == Spec => []WithinCapacity
<1>1. IInv => WithinCapacity
  BY DEF IInv
<1> QED BY <1>1, InductiveInvariant, PTL

(* getnetconfig on an open handle always finds the table loaded.           *)
THEOREM IterationCorrect == Spec => []IterationFindsTable
<1>1. IInv => IterationFindsTable
  <2> SUFFICES ASSUME IInv, NEW t \in Threads, pc[t] = "get" PROVE g_loaded
    BY DEF IterationFindsTable
  <2>1. op[t] = "get" /\ arg[t] \in Handles /\ magic[arg[t]]
    BY DEF IInv, Control, Ownership
  <2> QED BY <2>1 DEF IInv, Counted, CountedIsLoaded
<1> QED BY <1>1, InductiveInvariant, PTL

(* Every step of the threads is a step of the reference-counted database.  *)
LEMMA DBStep ==
  ASSUME IInv, IInv', [Next]_vars
  PROVE  [DB!DBNext]_(DB!dbvars)
<1> DEFINE table == IF g_loaded THEN g_entries ELSE << >>
<1> USE DEF IInv
<1>1. CASE Counted' = Counted /\ g_refcount' = g_refcount
  <2>1. CASE UNCHANGED <<g_entries, g_loaded>>
    BY <1>1, <2>1 DEF DB!dbvars
  <2>2. CASE (\E u \in Threads : pc[u] \in {"file", "defaults"}) /\ g_loaded' = g_loaded
    <3>1. ~g_loaded /\ ~g_loaded'
      BY <2>2 DEF LoadProgress
    <3> QED BY <1>1, <3>1 DEF DB!dbvars
  <2>3. CASE UNCHANGED g_entries /\ g_loaded' = TRUE
    <3>1. CASE g_loaded
      BY <1>1, <2>3, <3>1 DEF DB!dbvars
    <3>2. CASE ~g_loaded
      <4>1. g_entries' # << >> /\ g_entries' \in Seq(Entry)
        BY <2>3 DEF LoadProgress, TypeOK
      <4> QED BY <1>1, <2>3, <3>2, <4>1 DEF DB!DBNext, DB!Load, DB!Tables, DB!NotLoaded
    <3> QED BY <3>1, <3>2
  <2>4. CASE (\E u \in Threads : pc[u] = "failed") /\ ClearGlobalEntries
    <3>1. ~g_loaded /\ ~g_loaded'
      BY <2>4 DEF LoadProgress, ClearGlobalEntries
    <3> QED BY <1>1, <3>1 DEF DB!dbvars
  <2>5. ASSUME NEW u \in Threads, EndDrops(u) PROVE FALSE
    <3>1. arg[u] \in Handles /\ op[u] = "end" /\ pc[u] = "end"
      BY <2>5 DEF EndDrops, Control
    <3>2. Counted # {}
      BY <3>1 DEF Counted
    <3>3. g_refcount > 0
      BY <3>2, CountedFinite, FS_EmptySet, FS_CardinalityType DEF RefcountIsExact, TypeOK
    <3> QED BY <1>1, <2>5, <3>3 DEF EndDrops, TypeOK
  <2> QED BY <2>1, <2>2, <2>3, <2>4, <2>5, TableStep DEF TableChange
<1>2. ASSUME NEW u \in Threads, SetCounts(u), arg[u] \in Handles \ Counted,
             Counted' = Counted \union {arg[u]}
      PROVE  DB!DBNext
  <2>1. g_loaded /\ UNCHANGED <<g_entries, g_loaded>>
    BY <1>2 DEF SetCounts, LoadProgress
  <2>2. table # << >> /\ table' = table
    BY <2>1 DEF LoadProgress
  <2>3. DB!Open(arg[u])
    BY <1>2, <2>2 DEF DB!Open, DB!NotLoaded
  <2> QED BY <1>2, <2>3 DEF DB!DBNext
<1>3. ASSUME NEW u \in Threads, EndDrops(u), arg[u] \in Counted,
             Counted' = Counted \ {arg[u]}
      PROVE  DB!DBNext
  <2>1. g_refcount' = 0 <=> Counted' = {}
    BY CountedFinite, FS_EmptySet DEF RefcountIsExact
  <2>2. IF Counted' = {} THEN g_loaded' = FALSE ELSE UNCHANGED <<g_entries, g_loaded>>
    BY <1>3, <2>1 DEF EndDrops, ClearGlobalEntries
  <2>3. DB!Close(arg[u])
    BY <1>3, <2>2 DEF DB!Close, DB!NotLoaded
  <2>4. arg[u] \in Handles
    BY <1>3 DEF Counted
  <2> QED BY <2>3, <2>4 DEF DB!DBNext
<1> QED BY <1>1, <1>2, <1>3, CountedStep DEF CountedChange

(* getnetconfig.c implements the reference-counted database.               *)
THEOREM Implementation == Spec => ImplementsDB
<1>1. Init => DB!DBInit
  BY HandleAssumption DEF Init, Counted, DB!DBInit, DB!NotLoaded
<1>2. IInv /\ IInv' /\ [Next]_vars => [DB!DBNext]_(DB!dbvars)
  BY DBStep
<1> QED BY <1>1, <1>2, InductiveInvariant, PTL DEF Spec, ImplementsDB, DB!DBSpec

(* The steps that make a pending call return NULL.                         *)
NullReturns ==
    \A u \in Threads :
        op[u] # "none" /\ ret'[u] = "null" => Undo(u) \/ EntSearch(u) \/ GetEntry(u)

(* A pending call returns NULL in no other step.                           *)
LEMMA NullReturnsHolds ==
  ASSUME TypeOK, Control, NoResultYet, [Next]_vars
  PROVE  NullReturns
<1> USE DEF NullReturns, globals, heap, loader, Goto, Enter, Return, InCall
<1>1. CASE UNCHANGED vars
  BY <1>1 DEF vars, TypeOK, Control, NoResultYet
<1>2. ASSUME NEW t \in Threads, Call(t)
      PROVE  NullReturns
  <2>1. CASE SetFails(t)
    BY <2>1 DEF SetFails, TypeOK, Control, NoResultYet
  <2>2. CASE SetCall(t)
    BY <2>2 DEF SetCall, TypeOK, Control, NoResultYet
  <2>3. CASE NotAHandle(t)
    BY <2>3 DEF NotAHandle, TypeOK, Control, NoResultYet
  <2>4. CASE GetCall(t)
    BY <2>4 DEF GetCall, TypeOK, Control, NoResultYet
  <2>5. CASE EndCall(t)
    BY <2>5 DEF EndCall, TypeOK, Control, NoResultYet
  <2>6. CASE EntCall(t)
    BY <2>6 DEF EntCall, TypeOK, Control, NoResultYet
  <2> QED BY <1>2, <2>1, <2>2, <2>3, <2>4, <2>5, <2>6 DEF Call
<1>3. ASSUME NEW t \in Threads, Step(t)
      PROVE  NullReturns
  <2>1. CASE Lock(t)
    BY <2>1 DEF Lock, TypeOK, Control, NoResultYet
  <2>2. CASE EnsureLoaded(t)
    BY <2>2 DEF EnsureLoaded, TypeOK, Control, NoResultYet
  <2>3. CASE ReadLine(t)
    BY <2>3 DEF ReadLine, TakeLine, TypeOK, Control, NoResultYet
  <2>4. CASE EndOfFile(t)
    BY <2>4 DEF EndOfFile, TypeOK, Control, NoResultYet
  <2>5. CASE ProbeSystemConfiguration(t)
    BY <2>5 DEF ProbeSystemConfiguration, TypeOK, Control, NoResultYet
  <2>6. CASE LoadDefault(t)
    BY <2>6 DEF LoadDefault, TakeLine, TypeOK, Control, NoResultYet
  <2>7. CASE DefaultsLoaded(t)
    BY <2>7 DEF DefaultsLoaded, TypeOK, Control, NoResultYet
  <2>8. CASE LoadFails(t)
    BY <2>8 DEF LoadFails, TypeOK, Control, NoResultYet
  <2>9. CASE Undo(t)
    BY <2>9 DEF Undo, TypeOK, NoResultYet
  <2>10. CASE SetCounts(t)
    BY <2>10 DEF SetCounts, TypeOK, Control, NoResultYet
  <2>11. CASE SetReturns(t)
    BY <2>11 DEF SetReturns, TypeOK, Control, NoResultYet
  <2>12. CASE GetEntry(t)
    BY <2>12 DEF GetEntry, TypeOK, Control, NoResultYet
  <2>13. CASE EndDrops(t)
    BY <2>13 DEF EndDrops, TypeOK, Control, NoResultYet
  <2>14. CASE EndReturns(t)
    BY <2>14 DEF EndReturns, TypeOK, Control, NoResultYet
  <2>15. CASE EntSearch(t)
    BY <2>15 DEF EntSearch, TypeOK, Control, NoResultYet
  <2> QED
    BY <1>3, <2>1, <2>2, <2>3, <2>4, <2>5, <2>6, <2>7, <2>8,
       <2>9, <2>10, <2>11, <2>12, <2>13, <2>14, <2>15 DEF Step
<1> QED BY <1>1, <1>2, <1>3 DEF Next

(* getnetconfigent never says NC_NOTFOUND of a netid that is in the table, *)
(* nor when the table could not be loaded.                                 *)
THEOREM NotFoundCorrect == Spec => NotFoundIsTrue
<1> DEFINE A == \A t \in Threads :
                  (op[t] = "ent" /\ ret'[t] = "null" /\ nc_error'[t] = "NOTFOUND")
                      => g_loaded /\ netid[t] \notin Names(g_entries)
<1>1. IInv /\ [Next]_vars => A
  <2> SUFFICES ASSUME IInv, [Next]_vars, NEW t \in Threads, op[t] = "ent",
                      ret'[t] = "null", nc_error'[t] = "NOTFOUND"
               PROVE  g_loaded /\ netid[t] \notin Names(g_entries)
    OBVIOUS
  <2>1. Undo(t) \/ EntSearch(t) \/ GetEntry(t)
    BY NullReturnsHolds DEF NullReturns, IInv
  <2>2. CASE Undo(t)
    BY <2>2 DEF Undo, IInv, LoadProgress
  <2>3. CASE EntSearch(t)
    <3>1. g_loaded
      BY <2>3 DEF EntSearch, IInv, LoadProgress
    <3>2. nc_error'[t] # "NOTFOUND" \/ netid[t] \notin Names(g_entries)
      <4>1. CASE netid[t] \in Names(g_entries)
        <5>1. ret' = [ret EXCEPT ![t] = "value"] \/ nc_error' = [nc_error EXCEPT ![t] = "NOMEM"]
          BY <2>3, <4>1 DEF EntSearch, Return, SetError
        <5> QED BY <5>1 DEF IInv, TypeOK
      <4> QED BY <4>1
    <3> QED BY <3>1, <3>2
  <2>4. CASE GetEntry(t)
    BY <2>4 DEF GetEntry, IInv, Control
  <2> QED BY <2>1, <2>2, <2>3, <2>4
<1> QED BY <1>1, InductiveInvariant, PTL DEF Spec, NotFoundIsTrue

================================================================================
