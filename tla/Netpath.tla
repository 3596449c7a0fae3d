-------------------------------- MODULE Netpath --------------------------------
(***************************************************************************)
(* rpc/getnetpath.c: the walk over the networks named by NETPATH, or over  *)
(* the visible ones when NETPATH is not set.                               *)
(*                                                                         *)
(* A call into getnetconfig.c is one step on the globals of that file (the *)
(* table, g_refcount and the magic of the handles), except that a call     *)
(* which has to load the table first is two: OthersLoad, which anybody may *)
(* take, and the call.  Nothing stops a caller from passing a handle that  *)
(* is no longer open: the calls do with it what the code does.  Each       *)
(* thread walks with a struct np_handle of its own; other users of the     *)
(* process load, open and close the database in between.                   *)
(***************************************************************************)
EXTENDS Naturals, FiniteSets, Sequences, SequencesExt

CONSTANTS
    Threads,        \* the threads that walk
    Handles,        \* the addresses of the struct nc_handle of the process
    NullHandle,     \* NULL
    Netids,         \* the netids NETPATH and the tables may name
    Loads,          \* the tables a load can build
    Paths,          \* the values of NETPATH, cut at the colons; << >>: not set
    Addresses,      \* where getnetconfigent can allocate a copy of an entry
    NoEntry         \* what is at an address that is not allocated

Entry == [nc_netid : Netids, visible : BOOLEAN]
EmptyToken == ""
NoAddress == "none"

ASSUME PathAssumption ==
    /\ Loads \subseteq Seq(Entry) \ {<< >>}
    /\ Paths \subseteq Seq(Netids \union {EmptyToken})
    /\ EmptyToken \notin Netids
    /\ NullHandle \notin Handles /\ IsFiniteSet(Handles)
    /\ NoAddress \notin Addresses /\ NoEntry \notin Entry

VARIABLES
    db,             \* the loaded table, empty when none is
    count,          \* g_refcount
    magic,          \* the handles whose memory has NC_HANDLE_MAGIC
    others,         \* the handles other users of the process hold
    np,             \* the np_handle of each thread
    pc,             \* where each thread is
    token,          \* the token getnetpath is looking up
    hand,           \* the copy it has, and has not tracked yet
    copies,         \* the copies of entries on the heap
    handed,         \* what getnetpath returned through the handle, in order
    nc_error

vars == <<db, count, magic, others, np, pc, token, hand, copies, handed, nc_error>>

UsesVisible(t) == np[t].nc_handle # NullHandle

\* The handles somebody will still pass to getnetconfig or endnetconfig.
Walking == {np[t].nc_handle : t \in {u \in Threads : UsesVisible(u)}}
InUse == others \union Walking

DB == INSTANCE NetconfigDB WITH refs <- InUse

NoNp == [open |-> FALSE, nc_handle |-> NullHandle, index |-> 0,
         cursor |-> << >>, alloc |-> << >>]

NpHandle == [open : BOOLEAN, nc_handle : Handles \union {NullHandle}, index : Nat,
             cursor : Seq(Netids \union {EmptyToken}), alloc : Seq(Addresses)]

Pcs == {"idle", "set_nc", "visible", "next", "lookup", "track", "end", "free"}
Returned == [at : Addresses \union Nat, entry : Entry]
Errors == {"none", "NOMEM", "NOTINIT", "BADFILE", "NOTFOUND"}

TypeOK ==
    /\ db \in Seq(Entry) /\ count \in Nat
    /\ magic \subseteq Handles /\ others \subseteq Handles
    /\ np \in [Threads -> NpHandle]
    /\ pc \in [Threads -> Pcs]
    /\ token \in [Threads -> Netids \union {EmptyToken}]
    /\ hand \in [Threads -> Addresses \union {NoAddress}]
    /\ copies \in [Addresses -> Entry \union {NoEntry}]
    /\ handed \in [Threads -> Seq(Returned)]
    /\ nc_error \in [Threads -> Errors]

Init ==
    /\ db = DB!NotLoaded /\ count = 0 /\ magic = {} /\ others = {}
    /\ np = [t \in Threads |-> NoNp]
    /\ pc = [t \in Threads |-> "idle"]
    /\ token = [t \in Threads |-> EmptyToken]
    /\ hand = [t \in Threads |-> NoAddress]
    /\ copies = [a \in Addresses |-> NoEntry]
    /\ handed = [t \in Threads |-> << >>]
    /\ nc_error = [t \in Threads |-> "none"]

--------------------------------------------------------------------------------
Goto(t, label) == pc' = [pc EXCEPT ![t] = label]
SetError(t, e) == nc_error' = [nc_error EXCEPT ![t] = e]
HandOut(t, at, e) == handed' = [handed EXCEPT ![t] = Append(@, [at |-> at, entry |-> e])]
Names(es) == {es[i].nc_netid : i \in DOMAIN es}


(* The calls of getnetconfig.c.                                            *)

\* A handle at an address calloc can return, for a table that is loaded.
Setnetconfig(h) ==
    /\ db # DB!NotLoaded
    /\ h \in Handles \ magic
    /\ magic' = magic \union {h}
    /\ count' = count + 1
    /\ UNCHANGED db

\* A handle without the magic changes nothing; any other counts as one user
\* less, and the table goes with the last.
Endnetconfig(h) ==
    IF h \in magic
    THEN /\ magic' = magic \ {h}
         /\ count' = IF count > 0 THEN count - 1 ELSE count
         /\ db' = IF count' = 0 THEN DB!NotLoaded ELSE db
    ELSE UNCHANGED <<db, count, magic>>

\* The first entry of that name, if there is one.
First(name) == {i \in DOMAIN db : /\ db[i].nc_netid = name
                                  /\ \A j \in 1..(i - 1) : db[j].nc_netid # name}

LoadErrors == {"NOMEM", "BADFILE"}

\* Mutant of Getnetconfigent: a copy that cannot be made leaves the error the
\* call began with.
GetnetconfigentNoMemory(t, name, e) ==
    \/ \E i \in First(name), a \in Addresses :
          /\ copies[a] = NoEntry
          /\ copies' = [copies EXCEPT ![a] = db[i]]
          /\ hand' = [hand EXCEPT ![t] = a]
          /\ e = "NOTFOUND"
    \/ /\ \/ db # DB!NotLoaded /\ e = "NOTFOUND"
          \/ db = DB!NotLoaded /\ e \in LoadErrors
       /\ UNCHANGED <<copies, hand>>

\* A copy of the entry, or NULL; and the error it leaves: NC_NOTFOUND, set on
\* entry, unless the table cannot be loaded or the copy cannot be made.
Getnetconfigent(t, name, e) ==
    \/ \E i \in First(name), a \in Addresses :
          /\ copies[a] = NoEntry
          /\ copies' = [copies EXCEPT ![a] = db[i]]
          /\ hand' = [hand EXCEPT ![t] = a]
          /\ e = "NOTFOUND"
    \/ /\ \/ First(name) # {} /\ e = "NOMEM"
          \/ db = DB!NotLoaded /\ e \in LoadErrors
          \/ db # DB!NotLoaded /\ First(name) = {} /\ e = "NOTFOUND"
       /\ UNCHANGED <<copies, hand>>

--------------------------------------------------------------------------------
(* The rest of the process: it closes a handle it has, once.               *)

OthersLoad == /\ db = DB!NotLoaded /\ db' \in Loads
              /\ UNCHANGED <<count, magic, others, np, pc, token, hand, copies, handed, nc_error>>
OthersOpen(h) == /\ Setnetconfig(h)
                 /\ others' = others \union {h}
                 /\ UNCHANGED <<np, pc, token, hand, copies, handed, nc_error>>
OthersClose(h) == /\ h \in others
                  /\ Endnetconfig(h)
                  /\ others' = others \ {h}
                  /\ UNCHANGED <<np, pc, token, hand, copies, handed, nc_error>>

--------------------------------------------------------------------------------
(* setnetpath: no memory, or a list of tokens, or the visible networks     *)
(* through setnetconfig, whose failure it passes on.                       *)

SetNoMemory(t) ==
    /\ pc[t] = "idle" /\ ~np[t].open
    /\ SetError(t, "NOMEM")
    /\ UNCHANGED <<db, count, magic, others, np, pc, token, hand, copies, handed>>

SetList(t) ==
    /\ pc[t] = "idle" /\ ~np[t].open
    /\ \E path \in Paths \ {<< >>} :
          np' = [np EXCEPT ![t] = [NoNp EXCEPT !.open = TRUE, !.cursor = path]]
    /\ UNCHANGED <<db, count, magic, others, pc, token, hand, copies, handed, nc_error>>

SetVisible(t) ==
    /\ pc[t] = "idle" /\ ~np[t].open
    /\ << >> \in Paths
    /\ Goto(t, "set_nc")
    /\ UNCHANGED <<db, count, magic, others, np, token, hand, copies, handed, nc_error>>

\* setnetconfig inside setnetpath: it opens the loaded database, or fails.
SetNetconfig(t) ==
    /\ pc[t] = "set_nc"
    /\ \/ \E h \in Handles :
             /\ Setnetconfig(h)
             /\ np' = [np EXCEPT ![t] = [NoNp EXCEPT !.open = TRUE, !.nc_handle = h]]
             /\ UNCHANGED nc_error
       \/ /\ \/ SetError(t, "NOMEM")
             \/ db = DB!NotLoaded /\ \E e \in LoadErrors : SetError(t, e)
          /\ UNCHANGED <<db, count, magic, np>>
    /\ Goto(t, "idle")
    /\ UNCHANGED <<others, token, hand, copies, handed>>

--------------------------------------------------------------------------------
(* getnetpath.                                                             *)

GetNoHandle(t) ==
    /\ pc[t] = "idle" /\ ~np[t].open
    /\ SetError(t, "NOTINIT")
    /\ UNCHANGED <<db, count, magic, others, np, pc, token, hand, copies, handed>>

GetCall(t) ==
    /\ pc[t] = "idle" /\ np[t].open
    /\ Goto(t, IF UsesVisible(t) THEN "visible" ELSE "next")
    /\ UNCHANGED <<db, count, magic, others, np, token, hand, copies, handed, nc_error>>

\* Mutant of NextVisible: the end of the table closes the handle.
NextVisibleCloses(t) ==
    /\ pc[t] = "visible"
    /\ LET i == np[t].index + 1 IN
       IF i > Len(db)
       THEN Endnetconfig(np[t].nc_handle) /\ Goto(t, "idle") /\ UNCHANGED <<np, handed>>
       ELSE /\ np' = [np EXCEPT ![t].index = i]
            /\ IF db[i].visible
               THEN HandOut(t, i, db[i]) /\ Goto(t, "idle")
               ELSE UNCHANGED <<pc, handed>>
            /\ UNCHANGED <<db, count, magic>>
    /\ UNCHANGED <<others, token, hand, copies, nc_error>>

\* One getnetconfig: the loop goes on until an entry is visible.
NextVisible(t) ==
    /\ pc[t] = "visible"
    /\ LET i == np[t].index + 1 IN
       IF np[t].nc_handle \notin magic \/ db = DB!NotLoaded
       THEN SetError(t, "NOTINIT") /\ Goto(t, "idle") /\ UNCHANGED <<np, handed>>
       ELSE /\ IF i > Len(db)
               THEN Goto(t, "idle") /\ UNCHANGED <<np, handed>>
               ELSE /\ np' = [np EXCEPT ![t].index = i]
                    /\ IF db[i].visible
                       THEN HandOut(t, i, db[i]) /\ Goto(t, "idle")
                       ELSE UNCHANGED <<pc, handed>>
            /\ UNCHANGED nc_error
    /\ UNCHANGED <<db, count, magic, others, token, hand, copies>>

\* The next token of the list; empty ones are passed over.
NextToken(t) ==
    /\ pc[t] = "next"
    /\ IF np[t].cursor = << >>
       THEN Goto(t, "idle") /\ UNCHANGED <<np, token>>
       ELSE /\ np' = [np EXCEPT ![t].cursor = Tail(@)]
            /\ token' = [token EXCEPT ![t] = Head(np[t].cursor)]
            /\ IF token'[t] = EmptyToken THEN UNCHANGED pc ELSE Goto(t, "lookup")
    /\ UNCHANGED <<db, count, magic, others, hand, copies, handed, nc_error>>

\* The entry is tracked next; after NULL, NC_NOTFOUND goes on to the next token
\* and any other error is the caller's.
Lookup(t) ==
    /\ pc[t] = "lookup"
    /\ \E e \in Errors :
          /\ Getnetconfigent(t, token[t], e)
          /\ \/ hand'[t] # NoAddress /\ SetError(t, e) /\ Goto(t, "track")
             \/ hand'[t] = NoAddress /\ e = "NOTFOUND" /\ SetError(t, "none") /\ Goto(t, "next")
             \/ hand'[t] = NoAddress /\ e # "NOTFOUND" /\ SetError(t, e) /\ Goto(t, "idle")
    /\ UNCHANGED <<db, count, magic, others, np, token, handed>>

\* Mutant of TrackEntry: the list keeps the last entry only.
TrackEntryReplaces(t) ==
    /\ pc[t] = "track"
    /\ np' = [np EXCEPT ![t].alloc = <<hand[t]>>]
    /\ copies' = [a \in Addresses |-> IF a \in ToSet(np[t].alloc) THEN NoEntry
                                                               ELSE copies[a]]
    /\ HandOut(t, hand[t], copies[hand[t]])
    /\ hand' = [hand EXCEPT ![t] = NoAddress]
    /\ Goto(t, "idle")
    /\ UNCHANGED <<db, count, magic, others, token, nc_error>>

\* netpath_track_entry: the copy goes on the handle's list, or is freed.
TrackEntry(t) ==
    /\ pc[t] = "track"
    /\ \/ /\ np' = [np EXCEPT ![t].alloc = Append(@, hand[t])]
          /\ HandOut(t, hand[t], copies[hand[t]])
          /\ UNCHANGED <<copies, nc_error>>
       \/ /\ copies' = [copies EXCEPT ![hand[t]] = NoEntry]
          /\ SetError(t, "NOMEM")
          /\ UNCHANGED <<np, handed>>
    /\ hand' = [hand EXCEPT ![t] = NoAddress]
    /\ Goto(t, "idle")
    /\ UNCHANGED <<db, count, magic, others, token>>

--------------------------------------------------------------------------------
(* endnetpath.                                                             *)

EndCall(t) ==
    /\ pc[t] = "idle" /\ np[t].open
    /\ np' = [np EXCEPT ![t].open = FALSE]
    /\ handed' = [handed EXCEPT ![t] = << >>]
    /\ Goto(t, "end")
    /\ UNCHANGED <<db, count, magic, others, token, hand, copies, nc_error>>

EndNetconfig(t) ==
    /\ pc[t] = "end"
    /\ LET h == np[t].nc_handle IN
       IF UsesVisible(t)
       THEN /\ Endnetconfig(h)
            /\ np' = [np EXCEPT ![t].nc_handle = NullHandle]
            /\ IF h \in magic THEN UNCHANGED nc_error ELSE SetError(t, "NOTINIT")
       ELSE UNCHANGED <<db, count, magic, np, nc_error>>
    /\ Goto(t, "free")
    /\ UNCHANGED <<others, token, hand, copies, handed>>

\* One entry of the list after the other, then the handle itself.
EndFree(t) ==
    /\ pc[t] = "free"
    /\ IF np[t].alloc = << >>
       THEN np' = [np EXCEPT ![t] = NoNp] /\ Goto(t, "idle") /\ UNCHANGED copies
       ELSE /\ copies' = [copies EXCEPT ![Head(np[t].alloc)] = NoEntry]
            /\ np' = [np EXCEPT ![t].alloc = Tail(@)]
            /\ UNCHANGED pc
    /\ UNCHANGED <<db, count, magic, others, token, hand, handed, nc_error>>

--------------------------------------------------------------------------------
Step(t) ==
    \/ SetNetconfig(t) \/ NextVisible(t) \/ NextToken(t) \/ Lookup(t)
    \/ TrackEntry(t) \/ EndNetconfig(t) \/ EndFree(t)

Next ==
    \/ OthersLoad
    \/ \E h \in Handles : OthersOpen(h) \/ OthersClose(h)
    \/ \E t \in Threads :
          \/ SetNoMemory(t) \/ SetList(t) \/ SetVisible(t)
          \/ GetNoHandle(t) \/ GetCall(t) \/ EndCall(t)
          \/ Step(t)

Spec == Init /\ [][Next]_vars

--------------------------------------------------------------------------------
(* What must hold.                                                         *)

\* The places of a thread that can own a copy: its hand, and its list.
Places(t) == 0..Len(np[t].alloc)
Held(t, i) == IF i = 0 THEN hand[t] ELSE np[t].alloc[i]

CopiesHaveOneOwner ==
    /\ \A t \in Threads : \A i \in Places(t) :
          Held(t, i) # NoAddress => copies[Held(t, i)] # NoEntry
    /\ \A t, u \in Threads : \A i \in Places(t), j \in Places(u) :
          Held(t, i) = Held(u, j) /\ Held(t, i) # NoAddress => t = u /\ i = j
    /\ \A a \in Addresses : copies[a] # NoEntry =>
          \E t \in Threads : \E i \in Places(t) : Held(t, i) = a

\* What getnetpath returned keeps its address and its contents until
\* endnetpath, in both modes: a pointer into the shared table or a copy.  And
\* every copy on the heap is on one list, once, or in the hands of one
\* getnetpath; every other address on a list or in hand would be freed twice
\* or used after free (getnetpath.c lines 99-117, 187-198, 219-227).
ReturnedStaysValid ==
    /\ CopiesHaveOneOwner
    /\ \A t \in Threads : \A i \in DOMAIN handed[t] :
          LET r == handed[t][i] IN
          IF UsesVisible(t) THEN r.at \in DOMAIN db /\ db[r.at] = r.entry
                            ELSE copies[r.at] = r.entry

VisibleWalkIsComplete ==
    \A t \in Threads : UsesVisible(t) /\ np[t].open =>
        /\ \A i \in DOMAIN handed[t] :
              /\ handed[t][i].at \in 1..np[t].index
              /\ handed[t][i].entry = db[handed[t][i].at]
              /\ handed[t][i].entry.visible
        /\ \A i, j \in DOMAIN handed[t] : i < j => handed[t][i].at < handed[t][j].at
        /\ \A k \in 1..np[t].index : db[k].visible =>
              \E i \in DOMAIN handed[t] : handed[t][i].at = k

\* A walk over the visible networks has returned, at each moment, all the
\* visible entries it has passed, in order and once (lines 163-173); and a named
\* network is passed over only when a loaded table does not have it: no failure
\* is taken for an absence (lines 183-189).
OnlyAbsentIsSkipped ==
    /\ []VisibleWalkIsComplete
    /\ [][\A t \in Threads :
             pc[t] = "lookup" /\ pc'[t] = "next"
                 => db # DB!NotLoaded /\ token[t] \notin Names(db)]_vars

\* For the walks and the other users together, endnetpath's endnetconfig (lines
\* 215-217) closes each handle setnetpath got, once: no handle leaks or is closed
\* twice, and the table is loaded, kept and dropped as the handles still in use
\* require, whatever was returned, failed or abandoned before.  Every open handle
\* is in the hands of one walk or of another user, and every handle they have is
\* open and counted.
UsesDatabaseByItsRules ==
    /\ DB!DBSpec
    /\ [](/\ magic = InUse /\ count = Cardinality(magic)
          /\ \A t \in Threads : UsesVisible(t) =>
                /\ np[t].nc_handle \notin others
                /\ \A u \in Threads : np[u].nc_handle = np[t].nc_handle => u = t)
================================================================================
