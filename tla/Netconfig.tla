------------------------------- MODULE Netconfig -------------------------------
(***************************************************************************)
(* rpc/getnetconfig.c: the process-wide network configuration database,    *)
(* loaded on demand under g_lock and counted by g_refcount.                *)
(*                                                                         *)
(* Threads run setnetconfig, getnetconfig, endnetconfig and                *)
(* getnetconfigent.  A call is cut where the code can be overtaken: at     *)
(* every step taken without g_lock and, inside the lock, at every line of  *)
(* the table that is loaded.  malloc may fail wherever it is called.       *)
(*                                                                         *)
(* Callers follow the interface: a handle is passed to no other call once  *)
(* endnetconfig was called on it, and endnetconfig is not called while     *)
(* another thread is still inside a call with that handle.  Several        *)
(* threads may iterate over one handle.                                    *)
(***************************************************************************)
EXTENDS Naturals, Sequences, FiniteSets

CONSTANTS
    Threads,        \* the threads that call the library
    Handles,        \* the addresses calloc can return for a struct nc_handle
    NoThread,       \* the owner of a free g_lock
    NullHandle,     \* NULL
    FileNetids,     \* the netids /etc/netconfig may name, besides the defaults
    Files,          \* what /etc/netconfig may hold: a set of sequences of lines
    FirstCap        \* the first capacity of g_entries (8 in the code)

(* The outcomes the code reports through g_nc_error, and none of them (0). *)
Errors == {"none", "NOMEM", "NOTINIT", "BADFILE", "NOTFOUND", "NONETCONFIG"}

DefaultNetids == {"udp6", "tcp6", "udp", "tcp", "rawip", "local"}

Netids == DefaultNetids \union FileNetids
NoNetid == ""                       \* the empty or NULL netid

Entry == [nc_netid : Netids, visible : BOOLEAN]

\* A comment, a line that parses, or one that does not: fewer than seven
\* fields, a bad semantics or flag field, an overlong or a blank line.
Line == [kind : {"comment", "entry", "malformed"}, entry : Entry]

ASSUME ThreadAssumption == NoThread \notin Threads
ASSUME HandleAssumption == IsFiniteSet(Handles) /\ NullHandle \notin Handles
ASSUME FileAssumption == Files \subseteq Seq(Line)
ASSUME CapAssumption == FirstCap \in Nat \ {0}
ASSUME NetidAssumption == NoNetid \notin FileNetids

VARIABLES
    g_lock, g_entries, g_entry_cap, g_refcount, g_loaded,
    nc_error,       \* g_nc_error of each thread
    sc_runtime,     \* the outcome of the pthread_once that binds SystemConfiguration
    allocated,      \* the handles that are allocated
    magic,          \* handle->magic = NC_HANDLE_MAGIC
    index,          \* handle->index
    given,          \* given[h]: what getnetconfig returned through h, when it did
    pc, op,         \* where each thread is, and in which call ("none": in none)
    arg, netid,     \* the handle or the netid the call is about
    todo, saw_data, \* the lines the loader has still to read, and its saw_data
    ret             \* what the last call returned: "null" or "value"

globals == <<g_entries, g_entry_cap, g_refcount, g_loaded>>
heap    == <<allocated, magic, index, given>>
loader  == <<todo, saw_data>>
vars    == <<g_lock, globals, nc_error, sc_runtime, heap, pc, op, arg, netid,
             loader, ret>>

--------------------------------------------------------------------------------
Pcs == {"idle", "lock", "ensure", "file", "probe", "defaults", "failed",
        "undo", "loaded", "get", "end", "publish", "free"}
Ops == {"none", "set", "get", "end", "ent"}

TypeOK ==
    /\ g_lock \in Threads \union {NoThread}
    /\ g_entries \in Seq(Entry)
    /\ g_entry_cap \in Nat
    /\ g_refcount \in Nat
    /\ g_loaded \in BOOLEAN
    /\ nc_error \in [Threads -> Errors]
    /\ sc_runtime \in {"untried", "available", "missing"}
    /\ allocated \subseteq Handles
    /\ magic \in [Handles -> BOOLEAN]
    /\ index \in [Handles -> Nat]
    /\ given \in [Handles -> Seq(Entry)]
    /\ pc \in [Threads -> Pcs]
    /\ op \in [Threads -> Ops]
    /\ arg \in [Threads -> Handles \union {NullHandle}]
    /\ netid \in [Threads -> Netids \union {NoNetid}]
    /\ todo \in [Threads -> Seq(Line)]
    /\ saw_data \in [Threads -> BOOLEAN]
    /\ ret \in [Threads -> {"none", "null", "value"}]

Init ==
    /\ g_lock = NoThread
    /\ g_entries = << >>
    /\ g_entry_cap = 0
    /\ g_refcount = 0
    /\ g_loaded = FALSE
    /\ nc_error = [t \in Threads |-> "none"]
    /\ sc_runtime = "untried"
    /\ allocated = {}
    /\ magic = [h \in Handles |-> FALSE]
    /\ index = [h \in Handles |-> 0]
    /\ given = [h \in Handles |-> << >>]
    /\ pc = [t \in Threads |-> "idle"]
    /\ op = [t \in Threads |-> "none"]
    /\ arg = [t \in Threads |-> NullHandle]
    /\ netid = [t \in Threads |-> NoNetid]
    /\ todo = [t \in Threads |-> << >>]
    /\ saw_data = [t \in Threads |-> FALSE]
    /\ ret = [t \in Threads |-> "none"]

--------------------------------------------------------------------------------
(* Helpers.                                                                *)

Goto(t, label) == pc' = [pc EXCEPT ![t] = label]

SetError(t, e) == nc_error' = [nc_error EXCEPT ![t] = e]

\* Thread t enters call o, with handle h and netid n, at the lock.
Enter(t, o, h, n) ==
    /\ Goto(t, "lock")
    /\ op' = [op EXCEPT ![t] = o]
    /\ arg' = [arg EXCEPT ![t] = h]
    /\ netid' = [netid EXCEPT ![t] = n]
    /\ ret' = [ret EXCEPT ![t] = "none"]

\* The call of thread t returns r.
Return(t, r) ==
    /\ Goto(t, "idle")
    /\ op' = [op EXCEPT ![t] = "none"]
    /\ arg' = [arg EXCEPT ![t] = NullHandle]
    /\ netid' = [netid EXCEPT ![t] = NoNetid]
    /\ ret' = [ret EXCEPT ![t] = r]

InCall == UNCHANGED <<op, arg, netid, ret>>

Names(es) == {es[i].nc_netid : i \in DOMAIN es}

\* The six built-in lines, with the visibility of the two address families.
DefaultLines(v4, v6) ==
    LET line(n, v) == [kind |-> "entry",
                       entry |-> [nc_netid |-> n, visible |-> v]]
    IN  <<line("udp6", v6), line("tcp6", v6), line("udp", v4), line("tcp", v4),
          line("rawip", FALSE), line("local", FALSE)>>

ClearGlobalEntries ==
    /\ g_entries' = << >>
    /\ g_entry_cap' = 0
    /\ g_loaded' = FALSE

--------------------------------------------------------------------------------
(* The calls up to the lock.                                               *)

\* setnetconfig: calloc fails, or returns an address not in use.
SetFails(t) ==
    /\ pc[t] = "idle"
    /\ SetError(t, "NOMEM")
    /\ ret' = [ret EXCEPT ![t] = "null"]
    /\ UNCHANGED <<g_lock, globals, sc_runtime, heap, loader, pc, op, arg, netid>>

SetCall(t) ==
    /\ pc[t] = "idle"
    /\ \E h \in Handles \ allocated :
          /\ allocated' = allocated \union {h}
          /\ magic' = [magic EXCEPT ![h] = FALSE]
          /\ index' = [index EXCEPT ![h] = 0]
          /\ Enter(t, "set", h, NoNetid)
    /\ UNCHANGED <<g_lock, globals, nc_error, sc_runtime, given, loader>>

\* getnetconfig and endnetconfig on NULL.
NotAHandle(t) ==
    /\ pc[t] = "idle"
    /\ SetError(t, "NOTINIT")
    /\ ret' = [ret EXCEPT ![t] = "null"]
    /\ UNCHANGED <<g_lock, globals, sc_runtime, heap, loader, pc, op, arg, netid>>

GetCall(t) ==
    /\ pc[t] = "idle"
    /\ \E h \in allocated : magic[h] /\ Enter(t, "get", h, NoNetid)
    /\ UNCHANGED <<g_lock, globals, nc_error, sc_runtime, heap, loader>>

\* endnetconfig clears the magic before it takes the lock.
EndCall(t) ==
    /\ pc[t] = "idle"
    /\ \E h \in allocated :
          /\ magic[h]
          /\ \A u \in Threads : arg[u] # h
          /\ magic' = [magic EXCEPT ![h] = FALSE]
          /\ Enter(t, "end", h, NoNetid)
    /\ UNCHANGED <<g_lock, globals, nc_error, sc_runtime, allocated, index, given,
                   loader>>

EntCall(t) ==
    /\ pc[t] = "idle"
    /\ SetError(t, "NOTFOUND")
    /\ \/ \E n \in Netids : Enter(t, "ent", NullHandle, n)
       \/ ret' = [ret EXCEPT ![t] = "null"] /\ UNCHANGED <<pc, op, arg, netid>>
    /\ UNCHANGED <<g_lock, globals, sc_runtime, heap, loader>>

Lock(t) ==
    /\ pc[t] = "lock"
    /\ g_lock = NoThread
    /\ g_lock' = t
    /\ Goto(t, IF op[t] \in {"get", "end"} THEN op[t] ELSE "ensure")
    /\ InCall
    /\ UNCHANGED <<globals, nc_error, sc_runtime, heap, loader>>

--------------------------------------------------------------------------------
(* ensure_entries_loaded_locked: the file, else SystemConfiguration, else  *)
(* the defaults.  Any failure clears what was loaded so far.               *)

\* Mutant of EnsureLoaded: the table is read again although it is loaded.
EnsureReloads(t) ==
    /\ pc[t] = "ensure"
    /\ \E f \in Files :
          /\ todo' = [todo EXCEPT ![t] = f]
          /\ saw_data' = [saw_data EXCEPT ![t] = FALSE]
          /\ Goto(t, "file")
    /\ InCall
    /\ UNCHANGED <<g_lock, globals, nc_error, sc_runtime, heap>>

EnsureLoaded(t) ==
    /\ pc[t] = "ensure"
    /\ IF g_loaded
       THEN Goto(t, "loaded") /\ UNCHANGED loader
       ELSE \/ \E f \in Files :                         \* fopen
                  /\ todo' = [todo EXCEPT ![t] = f]
                  /\ saw_data' = [saw_data EXCEPT ![t] = FALSE]
                  /\ Goto(t, "file")
            \/ Goto(t, "probe") /\ UNCHANGED loader     \* no file
    /\ InCall
    /\ UNCHANGED <<g_lock, globals, nc_error, sc_runtime, heap>>

\* append_global_entry_locked succeeds: g_entries grows by doubling.
AppendEntry(e) ==
    /\ g_entries' = Append(g_entries, e)
    /\ g_entry_cap' = IF Len(g_entries) # g_entry_cap THEN g_entry_cap
                      ELSE IF g_entry_cap = 0 THEN FirstCap
                      ELSE 2 * g_entry_cap

\* Mutant of TakeLine: a line that does not parse sets no error.
TakeLineSilently(t) ==
    LET line == Head(todo[t])
    IN  /\ todo' = [todo EXCEPT ![t] = Tail(@)]
        /\ UNCHANGED nc_error
        /\ \/ line.kind = "entry" /\ AppendEntry(line.entry) /\ UNCHANGED pc
           \/ Goto(t, "failed") /\ UNCHANGED <<g_entries, g_entry_cap>>

\* The next line is kept; or parsing fails, which out of memory does too;
\* or g_entries is full and cannot grow.
TakeLine(t) ==
    LET line == Head(todo[t])
    IN  /\ todo' = [todo EXCEPT ![t] = Tail(@)]
        /\ \/ /\ line.kind = "entry"
              /\ AppendEntry(line.entry)
              /\ UNCHANGED <<pc, nc_error>>
           \/ /\ SetError(t, "BADFILE")
              /\ Goto(t, "failed")
              /\ UNCHANGED <<g_entries, g_entry_cap>>
           \/ /\ line.kind = "entry"
              /\ Len(g_entries) = g_entry_cap
              /\ SetError(t, "NOMEM")
              /\ Goto(t, "failed")
              /\ UNCHANGED <<g_entries, g_entry_cap>>

ReadLine(t) ==
    /\ pc[t] = "file"
    /\ todo[t] # << >>
    /\ IF Head(todo[t]).kind = "comment"
       THEN /\ todo' = [todo EXCEPT ![t] = Tail(@)]
            /\ UNCHANGED <<g_entries, g_entry_cap, saw_data, pc, nc_error>>
       ELSE /\ TakeLine(t)
            /\ saw_data' = [saw_data EXCEPT ![t] = TRUE]
    /\ InCall
    /\ UNCHANGED <<g_lock, g_refcount, g_loaded, sc_runtime, heap>>

\* fgets returns NULL: at the end of the file, and on a read error too.
EndOfFile(t) ==
    /\ pc[t] = "file"
    /\ todo' = [todo EXCEPT ![t] = << >>]
    /\ IF saw_data[t]
       THEN g_loaded' = TRUE /\ Goto(t, "loaded") /\ UNCHANGED nc_error
       ELSE SetError(t, "BADFILE") /\ Goto(t, "failed") /\ UNCHANGED g_loaded
    /\ saw_data' = [saw_data EXCEPT ![t] = FALSE]
    /\ InCall
    /\ UNCHANGED <<g_lock, g_entries, g_entry_cap, g_refcount, sc_runtime, heap>>

\* The address families that are up, by State: or else by Setup:; with no
\* answer at all the defaults make both visible.
ProbeSystemConfiguration(t) ==
    /\ pc[t] = "probe"
    /\ sc_runtime' \in (IF sc_runtime = "untried" THEN {"available", "missing"}
                                                  ELSE {sc_runtime})
    /\ \E v4, v6 \in BOOLEAN :
          /\ sc_runtime' = "missing" => v4 /\ v6
          /\ v4 \/ v6
          /\ todo' = [todo EXCEPT ![t] = DefaultLines(v4, v6)]
    /\ Goto(t, "defaults")
    /\ InCall
    /\ UNCHANGED <<g_lock, globals, nc_error, heap, saw_data>>

LoadDefault(t) ==
    /\ pc[t] = "defaults"
    /\ todo[t] # << >>
    /\ TakeLine(t)
    /\ InCall
    /\ UNCHANGED <<g_lock, g_refcount, g_loaded, sc_runtime, heap, saw_data>>

DefaultsLoaded(t) ==
    /\ pc[t] = "defaults"
    /\ todo[t] = << >>
    /\ g_loaded' = TRUE
    /\ Goto(t, "loaded")
    /\ InCall
    /\ UNCHANGED <<g_lock, g_entries, g_entry_cap, g_refcount, nc_error, sc_runtime,
                   heap, loader>>

\* Mutant of LoadFails: what was read before the failure stays behind.
LoadFailsDirty(t) ==
    /\ pc[t] = "failed"
    /\ todo' = [todo EXCEPT ![t] = << >>]
    /\ saw_data' = [saw_data EXCEPT ![t] = FALSE]
    /\ Goto(t, "undo")
    /\ InCall
    /\ UNCHANGED <<g_lock, globals, nc_error, sc_runtime, heap>>

LoadFails(t) ==
    /\ pc[t] = "failed"
    /\ ClearGlobalEntries
    /\ todo' = [todo EXCEPT ![t] = << >>]
    /\ saw_data' = [saw_data EXCEPT ![t] = FALSE]
    /\ nc_error' = [nc_error EXCEPT ![t] = IF @ = "none" THEN "NONETCONFIG" ELSE @]
    /\ Goto(t, "undo")
    /\ InCall
    /\ UNCHANGED <<g_lock, g_refcount, sc_runtime, heap>>

--------------------------------------------------------------------------------
(* What each call does under the lock, and after it.                       *)

\* Mutant of Undo: the reference was taken before loading and is not given back.
UndoCounted(t) ==
    /\ pc[t] = "undo"
    /\ g_lock' = NoThread
    /\ allocated' = allocated \ {arg[t]}
    /\ g_refcount' = IF op[t] = "set" THEN g_refcount + 1 ELSE g_refcount
    /\ Return(t, "null")
    /\ UNCHANGED <<g_entries, g_entry_cap, g_loaded, nc_error, sc_runtime, magic,
                   index, given, loader>>

\* The call that wanted the table fails; setnetconfig frees its handle.
Undo(t) ==
    /\ pc[t] = "undo"
    /\ g_lock' = NoThread
    /\ allocated' = allocated \ {arg[t]}
    /\ Return(t, "null")
    /\ UNCHANGED <<globals, nc_error, sc_runtime, magic, index, given, loader>>

SetCounts(t) ==
    /\ pc[t] = "loaded"
    /\ op[t] = "set"
    /\ g_refcount' = g_refcount + 1
    /\ g_lock' = NoThread
    /\ Goto(t, "publish")
    /\ InCall
    /\ UNCHANGED <<g_entries, g_entry_cap, g_loaded, nc_error, sc_runtime, heap,
                   loader>>

\* setnetconfig fills in the handle after it let go of the lock.
SetReturns(t) ==
    /\ pc[t] = "publish"
    /\ magic' = [magic EXCEPT ![arg[t]] = TRUE]
    /\ index' = [index EXCEPT ![arg[t]] = 0]
    /\ Return(t, "value")
    /\ UNCHANGED <<g_lock, globals, nc_error, sc_runtime, allocated, given, loader>>

GetEntry(t) ==
    /\ pc[t] = "get"
    /\ g_lock' = NoThread
    /\ LET h == arg[t] IN
       IF ~g_loaded
       THEN SetError(t, "NOTINIT") /\ Return(t, "null") /\ UNCHANGED <<index, given>>
       ELSE IF index[h] < Len(g_entries)
       THEN /\ index' = [index EXCEPT ![h] = @ + 1]
            /\ given' = [given EXCEPT ![h] = Append(@, g_entries[index[h] + 1])]
            /\ Return(t, "value")
            /\ UNCHANGED nc_error
       ELSE Return(t, "null") /\ UNCHANGED <<index, given, nc_error>>
    /\ UNCHANGED <<globals, sc_runtime, allocated, magic, loader>>

\* Mutant of EndDrops: every close clears the table.
EndClears(t) ==
    /\ pc[t] = "end"
    /\ g_lock' = NoThread
    /\ g_refcount' = IF g_refcount > 0 THEN g_refcount - 1 ELSE 0
    /\ ClearGlobalEntries
    /\ Goto(t, "free")
    /\ InCall
    /\ UNCHANGED <<nc_error, sc_runtime, heap, loader>>

EndDrops(t) ==
    /\ pc[t] = "end"
    /\ g_lock' = NoThread
    /\ g_refcount' = IF g_refcount > 0 THEN g_refcount - 1 ELSE 0
    /\ IF g_refcount' = 0
       THEN ClearGlobalEntries
       ELSE UNCHANGED <<g_entries, g_entry_cap, g_loaded>>
    /\ Goto(t, "free")
    /\ InCall
    /\ UNCHANGED <<nc_error, sc_runtime, heap, loader>>

EndReturns(t) ==
    /\ pc[t] = "free"
    /\ allocated' = allocated \ {arg[t]}
    /\ given' = [given EXCEPT ![arg[t]] = << >>]
    /\ index' = [index EXCEPT ![arg[t]] = 0]
    /\ Return(t, "value")
    /\ UNCHANGED <<g_lock, globals, nc_error, sc_runtime, magic, loader>>

\* getnetconfigent: a private copy of the entry, if there is one and if
\* dup_entry finds the memory.
EntSearch(t) ==
    /\ pc[t] = "loaded"
    /\ op[t] = "ent"
    /\ g_lock' = NoThread
    /\ IF netid[t] \in Names(g_entries)
       THEN \/ Return(t, "value") /\ UNCHANGED nc_error
            \/ Return(t, "null") /\ SetError(t, "NOMEM")
       ELSE /\ Return(t, "null")
            /\ nc_error' = [nc_error EXCEPT ![t] = IF @ = "none" THEN "NOTFOUND" ELSE @]
    /\ UNCHANGED <<globals, sc_runtime, heap, loader>>

--------------------------------------------------------------------------------
Step(t) ==
    \/ Lock(t) \/ EnsureLoaded(t)
    \/ ReadLine(t) \/ EndOfFile(t)
    \/ ProbeSystemConfiguration(t) \/ LoadDefault(t) \/ DefaultsLoaded(t)
    \/ LoadFails(t) \/ Undo(t)
    \/ SetCounts(t) \/ SetReturns(t)
    \/ GetEntry(t)
    \/ EndDrops(t) \/ EndReturns(t)
    \/ EntSearch(t)

Call(t) ==
    \/ SetFails(t) \/ SetCall(t) \/ NotAHandle(t)
    \/ GetCall(t) \/ EndCall(t) \/ EntCall(t)

Next == \E t \in Threads : Call(t) \/ Step(t)

Spec == Init /\ [][Next]_vars
--------------------------------------------------------------------------------
(* What must hold.                                                         *)

\* The handles that g_refcount counts: those setnetconfig counted, published
\* or not, up to the decrement in endnetconfig.
Counted ==
    {h \in Handles :
        \/ magic[h]
        \/ \E t \in Threads :
              /\ arg[t] = h
              /\ \/ op[t] = "set" /\ pc[t] = "publish"
                 \/ op[t] = "end" /\ pc[t] \in {"lock", "end"}}

\* g_refcount is exact: no interleaving of openings, failed openings and
\* closings loses or adds a reference (lines 772, 818-823).
RefcountIsExact == g_refcount = Cardinality(Counted)

\* What getnetconfig returned is a pointer into g_entries.  While the handle
\* is counted, each such pointer still leads to the entry it led to, and the
\* handle has walked the table in order without a skip or a repeat, however
\* many threads share it (lines 792-803, 362-375).
PointersValid(h) ==
    /\ index[h] = Len(given[h])
    /\ \A i \in 1..Len(given[h]) :
          i <= Len(g_entries) /\ g_entries[i] = given[h][i]

HandedOutStaysValid == \A h \in Counted : PointersValid(h)

\* Nobody finds a half-loaded table: with the lock free the table is either
\* loaded and not empty, or gone with its memory (lines 663-701, 362-375).
NoPartialTable ==
    g_lock = NoThread =>
        IF g_loaded THEN g_entries # << >>
                    ELSE g_entries = << >> /\ g_entry_cap = 0

\* A write to g_entries[g_entry_count] is inside the allocation (line 357).
WithinCapacity == Len(g_entries) <= g_entry_cap

\* The iteration never finds the table unloaded: the NC_NOTINIT of lines
\* 792-796 is for handles that were never opened.
IterationFindsTable == \A t \in Threads : pc[t] = "get" => g_loaded

\* NC_NOTFOUND from getnetconfigent is a fact about a loaded table.  It is
\* set before anything is known (line 837), so every failure to load must
\* have replaced it by the time NULL is returned.
NotFoundIsTrue ==
    [][\A t \in Threads :
          (op[t] = "ent" /\ ret'[t] = "null" /\ nc_error'[t] = "NOTFOUND")
              => g_loaded /\ netid[t] \notin Names(g_entries)]_vars

\* The database as its users see it.
DB == INSTANCE NetconfigDB
        WITH db   <- IF g_loaded THEN g_entries ELSE << >>,
             refs <- Counted

\* getnetconfig.c implements the reference-counted database.
ImplementsDB == DB!DBSpec
--------------------------------------------------------------------------------
(* The inductive invariant behind these properties.                        *)

Loading == {"ensure", "file", "probe", "defaults", "failed", "undo", "loaded"}
InLock == Loading \union {"get", "end"}

\* The lock is held by the thread that is between its lock and its unlock.
Mutex == \A t \in Threads : pc[t] \in InLock <=> g_lock = t

\* Which call a thread is in, and whether the call has a handle.
Control ==
    \A t \in Threads :
        /\ pc[t] = "idle" <=> op[t] = "none"
        /\ pc[t] = "get" => op[t] = "get"
        /\ pc[t] \in {"end", "free"} => op[t] = "end"
        /\ pc[t] = "publish" => op[t] = "set"
        /\ pc[t] \in Loading => op[t] \in {"set", "ent"}
        /\ arg[t] \in Handles <=> op[t] \in {"set", "get", "end"}

\* The handle of a setnetconfig or an endnetconfig is that thread's alone.
Ownership ==
    /\ \A h \in Handles : magic[h] => h \in allocated
    /\ \A t \in Threads : op[t] = "get" => magic[arg[t]]
    /\ \A t \in Threads :
          op[t] \in {"set", "end"} =>
              /\ arg[t] \in allocated
              /\ ~magic[arg[t]]
              /\ \A u \in Threads \ {t} : arg[u] # arg[t]

\* A handle that was never published has returned nothing.
Unused ==
    /\ \A h \in Handles \ allocated : given[h] = << >> /\ index[h] = 0
    /\ \A t \in Threads :
          op[t] = "set" => given[arg[t]] = << >> /\ index[arg[t]] = 0

\* How far the loader is, against what the table holds.
LoadProgress ==
    /\ g_loaded => g_entries # << >>
    /\ (~g_loaded /\ \A t \in Threads : pc[t] \notin {"file", "defaults", "failed"})
          => g_entries = << >> /\ g_entry_cap = 0
    /\ \A t \in Threads :
          /\ pc[t] \in {"file", "probe", "defaults", "failed", "undo"} => ~g_loaded
          /\ pc[t] = "loaded" => g_loaded
          /\ pc[t] = "file" /\ saw_data[t] => g_entries # << >>
          /\ pc[t] = "defaults" /\ todo[t] = << >> => g_entries # << >>
          /\ pc[t] \in {"failed", "undo"} => nc_error[t] \in {"NOMEM", "BADFILE"}

\* ret speaks of the last call only.
NoResultYet == \A t \in Threads : op[t] # "none" => ret[t] = "none"

CountedIsLoaded == Counted # {} => g_loaded

IInv == /\ TypeOK /\ Mutex /\ Control /\ Ownership /\ Unused
        /\ RefcountIsExact /\ CountedIsLoaded /\ LoadProgress
        /\ WithinCapacity /\ HandedOutStaysValid /\ NoResultYet
================================================================================
