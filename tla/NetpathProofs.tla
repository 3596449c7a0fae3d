----------------------------- MODULE NetpathProofs -----------------------------
(***************************************************************************)
(* For any threads, handles, tables, values of NETPATH and addresses of    *)
(* copies: what getnetpath returned stays what it was, no copy is lost or  *)
(* freed twice, the visible walk misses nothing, only absent networks are  *)
(* passed over, and every handle is open, held and counted once, so that    *)
(* the walks and the other users keep to the rules of the database.        *)
(***************************************************************************)
EXTENDS Netpath, FiniteSetTheorems, TLAPS

\* What a thread's np_handle and its hand hold where it stands.
Phase(t) ==
    /\ pc[t] \in {"idle", "set_nc"} /\ ~np[t].open => np[t] = NoNp
    /\ pc[t] \in {"set_nc", "end", "free"} => ~np[t].open
    /\ pc[t] \in {"visible", "next", "lookup", "track"} => np[t].open
    /\ pc[t] = "visible" => UsesVisible(t)
    /\ pc[t] \in {"next", "lookup", "track", "free"} => ~UsesVisible(t)
    /\ UsesVisible(t) => np[t].alloc = << >>
    /\ ~np[t].open => handed[t] = << >>
    /\ pc[t] = "track" <=> hand[t] # NoAddress

\* Every open handle is in the hands of one walk or of another user, and every
\* handle they have is open and counted.
HandlesHaveOneUser ==
    /\ magic = InUse /\ count = Cardinality(magic)
    /\ \A t \in Threads : UsesVisible(t) =>
          /\ np[t].nc_handle \notin others
          /\ \A u \in Threads : np[u].nc_handle = np[t].nc_handle => u = t

\* Handles are open, held and counted once; a walk over the visible networks has
\* one of its own, so that the table cannot go away under it.
Refers ==
    /\ HandlesHaveOneUser
    /\ magic # {} => db # DB!NotLoaded

\* What was returned in list mode is what is on the handle's list.
Listed(t) ==
    np[t].open /\ ~UsesVisible(t) =>
        /\ Len(handed[t]) = Len(np[t].alloc)
        /\ \A i \in DOMAIN handed[t] : /\ handed[t][i].at = np[t].alloc[i]
                                       /\ handed[t][i].entry = copies[np[t].alloc[i]]

\* The visible walk of one thread.
Walked(t) ==
    UsesVisible(t) /\ np[t].open =>
        /\ np[t].index <= Len(db)
        /\ \A i \in DOMAIN handed[t] :
              /\ handed[t][i].at \in 1..np[t].index
              /\ handed[t][i].entry = db[handed[t][i].at]
              /\ handed[t][i].entry.visible
        /\ \A i, j \in DOMAIN handed[t] : i < j => handed[t][i].at < handed[t][j].at
        /\ \A k \in 1..np[t].index : db[k].visible =>
              \E i \in DOMAIN handed[t] : handed[t][i].at = k

PathInv ==
    /\ TypeOK
    /\ Refers
    /\ CopiesHaveOneOwner
    /\ \A t \in Threads : Phase(t) /\ Listed(t) /\ Walked(t)

--------------------------------------------------------------------------------
(* Types.                                                                  *)

LEMMA NoNpType == NoNp \in NpHandle
BY DEF NoNp, NpHandle

LEMMA InitType == Init => TypeOK
<1> SUFFICES ASSUME Init PROVE TypeOK
  OBVIOUS
<1>1. db \in Seq(Entry) /\ count \in Nat /\ magic \subseteq Handles /\ others \subseteq Handles
  BY DEF Init, DB!NotLoaded
<1>2. handed \in [Threads -> Seq(Returned)]
  BY DEF Init
<1> QED
  BY <1>1, <1>2, NoNpType DEF Init, TypeOK, Pcs, Errors

\* The globals of getnetconfig.c keep their types.
Globals == db \in Seq(Entry) /\ count \in Nat /\ magic \subseteq Handles

LEMMA DatabaseType ==
    ASSUME TypeOK,
           \/ db' \in Loads /\ UNCHANGED <<count, magic>>
           \/ UNCHANGED <<db, count, magic>>
           \/ \E h : Setnetconfig(h) \/ Endnetconfig(h)
    PROVE  Globals'
<1> USE DEF Globals
<1>1. << >> \in Seq(Entry) /\ Globals
  BY DEF TypeOK
<1>2. CASE db' \in Loads /\ UNCHANGED <<count, magic>>
  BY <1>1, <1>2, PathAssumption
<1>3. ASSUME NEW h, Setnetconfig(h) PROVE Globals'
  BY <1>1, <1>3 DEF Setnetconfig
<1>4. ASSUME NEW h, Endnetconfig(h) PROVE Globals'
  <2>1. count' \in Nat /\ magic' \subseteq Handles
    BY <1>1, <1>4 DEF Endnetconfig
  <2>2. db' = db \/ db' = << >>
    BY <1>4, Zenon DEF Endnetconfig, DB!NotLoaded
  <2> QED
    BY <1>1, <2>1, <2>2
<1> QED
  BY <1>1, <1>2, <1>3, <1>4

LEMMA StepType ==
    ASSUME PathInv, [Next]_vars
    PROVE  TypeOK'
<1>0. TypeOK /\ CopiesHaveOneOwner /\ \A t \in Threads : Phase(t)
  BY DEF PathInv
<1> USE <1>0
<1> USE DEF Goto, SetError, Pcs, Errors
<1>1. CASE UNCHANGED vars
  BY <1>1 DEF TypeOK, vars
<1>2. CASE OthersLoad
  <2>1. Globals'
    BY <1>2, DatabaseType DEF OthersLoad
  <2> QED
    BY <1>2, <2>1 DEF OthersLoad, TypeOK, Globals
<1>3. ASSUME NEW h \in Handles, OthersOpen(h) \/ OthersClose(h) PROVE TypeOK'
  <2>1. Globals'
    BY <1>3, DatabaseType DEF OthersOpen, OthersClose
  <2>2. others' \subseteq Handles
    BY <1>3 DEF OthersOpen, OthersClose, TypeOK
  <2> QED
    BY <1>3, <2>1, <2>2 DEF OthersOpen, OthersClose, TypeOK, Globals
<1>4. ASSUME NEW t \in Threads,
             \/ SetNoMemory(t) \/ SetVisible(t) \/ GetNoHandle(t) \/ GetCall(t)
      PROVE  TypeOK'
  BY <1>4 DEF SetNoMemory, SetVisible, GetNoHandle, GetCall, TypeOK
<1>5. ASSUME NEW t \in Threads, SetList(t) PROVE TypeOK'
  <2>1. PICK path \in Paths \ {<< >>} :
            np' = [np EXCEPT ![t] = [NoNp EXCEPT !.open = TRUE, !.cursor = path]]
    BY <1>5 DEF SetList
  <2>2. [NoNp EXCEPT !.open = TRUE, !.cursor = path] \in NpHandle
    BY NoNpType, PathAssumption DEF NpHandle
  <2>3. np' \in [Threads -> NpHandle]
    BY <2>1, <2>2 DEF TypeOK
  <2> QED
    BY <1>5, <2>3 DEF SetList, TypeOK
<1>6. ASSUME NEW t \in Threads, SetNetconfig(t) PROVE TypeOK'
  <2>1. CASE \E h \in Handles :
               /\ Setnetconfig(h)
               /\ np' = [np EXCEPT ![t] = [NoNp EXCEPT !.open = TRUE, !.nc_handle = h]]
               /\ UNCHANGED nc_error
    <3>1. PICK h \in Handles :
               /\ Setnetconfig(h)
               /\ np' = [np EXCEPT ![t] = [NoNp EXCEPT !.open = TRUE, !.nc_handle = h]]
               /\ UNCHANGED nc_error
      BY <2>1
    <3>2. [NoNp EXCEPT !.open = TRUE, !.nc_handle = h] \in NpHandle
      BY NoNpType DEF NpHandle
    <3> QED
      <4>1. Globals'
        BY <3>1, DatabaseType
      <4> QED
        BY <1>6, <3>1, <3>2, <4>1 DEF SetNetconfig, TypeOK, Globals
  <2>2. CASE UNCHANGED <<db, count, magic, np>> /\ \E e \in Errors : SetError(t, e)
    BY <1>6, <2>2 DEF SetNetconfig, TypeOK
  <2> QED
    BY <1>6, <2>1, <2>2 DEF SetNetconfig, LoadErrors
<1>7. ASSUME NEW t \in Threads, NextVisible(t) PROVE TypeOK'
  <2> DEFINE i == np[t].index + 1
  <2>1. np[t] \in NpHandle /\ i \in Nat
    BY DEF TypeOK, NpHandle
  <2>2. CASE UNCHANGED <<np, handed>>
    BY <1>7, <2>2 DEF NextVisible, TypeOK
  <2>3. CASE ~(i > Len(db)) /\ ~UNCHANGED <<np, handed>>
    <3>1. db[i] \in Entry
      <4>1. db \in Seq(Entry) /\ i \in 1..Len(db)
        BY <2>1, <2>3 DEF TypeOK, NpHandle
      <4> QED
        BY <4>1
    <3>2. np' = [np EXCEPT ![t] = [np[t] EXCEPT !.index = i]]
      BY <1>7, <2>3 DEF NextVisible
    <3>3. [np[t] EXCEPT !.index = i] \in NpHandle
      BY <2>1 DEF NpHandle
    <3>4. np' \in [Threads -> NpHandle]
      BY <3>2, <3>3 DEF TypeOK
    <3>5. handed' \in [Threads -> Seq(Returned)]
      <4>1. [at |-> i, entry |-> db[i]] \in Returned
        BY <2>1, <3>1 DEF Returned
      <4>2. CASE HandOut(t, i, db[i])
        BY <4>1, <4>2 DEF HandOut, TypeOK
      <4>3. CASE UNCHANGED handed
        BY <4>3 DEF TypeOK
      <4> QED
        BY <1>7, <2>3, <4>2, <4>3 DEF NextVisible
    <3> QED
      BY <1>7, <2>3, <3>4, <3>5 DEF NextVisible, TypeOK
  <2> QED
    BY <1>7, <2>2, <2>3 DEF NextVisible
<1>8. ASSUME NEW t \in Threads, NextToken(t) PROVE TypeOK'
  <2>1. np[t] \in NpHandle /\ np[t].cursor \in Seq(Netids \union {EmptyToken})
    BY DEF TypeOK, NpHandle
  <2>2. CASE np[t].cursor = << >>
    BY <1>8, <2>2 DEF NextToken, TypeOK
  <2>3. CASE np[t].cursor # << >>
    <3>1. /\ Head(np[t].cursor) \in Netids \union {EmptyToken}
          /\ Tail(np[t].cursor) \in Seq(Netids \union {EmptyToken})
      BY <2>1, <2>3
    <3>2. np' = [np EXCEPT ![t] = [np[t] EXCEPT !.cursor = Tail(np[t].cursor)]]
      BY <1>8, <2>3 DEF NextToken
    <3>3. [np[t] EXCEPT !.cursor = Tail(np[t].cursor)] \in NpHandle
      BY <2>1, <3>1 DEF NpHandle
    <3>4. np' \in [Threads -> NpHandle]
      BY <3>2, <3>3 DEF TypeOK
    <3> QED
      BY <1>8, <2>3, <3>1, <3>4 DEF NextToken, TypeOK
  <2> QED
    BY <2>2, <2>3
<1>9. ASSUME NEW t \in Threads, Lookup(t) PROVE TypeOK'
  <2>1. copies' \in [Addresses -> Entry \union {NoEntry}]
        /\ hand' \in [Threads -> Addresses \union {NoAddress}]
    <3>1. CASE UNCHANGED <<copies, hand>>
      BY <3>1 DEF TypeOK
    <3>2. CASE \E a \in Addresses, i \in DOMAIN db :
                  /\ copies' = [copies EXCEPT ![a] = db[i]]
                  /\ hand' = [hand EXCEPT ![t] = a]
      <4>1. \A i \in DOMAIN db : db[i] \in Entry
        BY DEF TypeOK
      <4> QED
        BY <3>2, <4>1 DEF TypeOK
    <3> QED
      BY <1>9, <3>1, <3>2 DEF Lookup, Getnetconfigent, First
  <2>2. pc' \in [Threads -> Pcs] /\ nc_error' \in [Threads -> Errors]
    BY <1>9 DEF Lookup, TypeOK
  <2> QED
    BY <1>9, <2>1, <2>2 DEF Lookup, TypeOK
<1>10. ASSUME NEW t \in Threads, TrackEntry(t) PROVE TypeOK'
  <2>0. np[t] \in NpHandle /\ np[t].alloc \in Seq(Addresses)
    BY DEF TypeOK, NpHandle
  <2>1. hand[t] \in Addresses /\ copies[hand[t]] \in Entry
    <3>1. hand[t] \in Addresses
      BY <1>10 DEF TrackEntry, Phase, TypeOK
    <3>2. hand[t] # NoAddress
      BY <1>10 DEF TrackEntry, Phase
    <3>3. 0 \in Places(t) /\ Held(t, 0) = hand[t]
      BY <2>0 DEF Places, Held
    <3>4. copies[hand[t]] # NoEntry
      BY <3>2, <3>3 DEF CopiesHaveOneOwner
    <3> QED
      BY <3>1, <3>4 DEF TypeOK
  <2>2. CASE /\ np' = [np EXCEPT ![t].alloc = Append(@, hand[t])]
             /\ HandOut(t, hand[t], copies[hand[t]])
             /\ UNCHANGED <<copies, nc_error>>
    <3>1. [np[t] EXCEPT !.alloc = Append(np[t].alloc, hand[t])] \in NpHandle
      <4>1. Append(np[t].alloc, hand[t]) \in Seq(Addresses)
        BY <2>0, <2>1
      <4> HIDE <1>0
      <4> QED
        BY <2>0, <4>1 DEF NpHandle
    <3>2. np' = [np EXCEPT ![t] = [np[t] EXCEPT !.alloc = Append(np[t].alloc, hand[t])]]
      BY <2>2
    <3>3. [at |-> hand[t], entry |-> copies[hand[t]]] \in Returned
      BY <2>1 DEF Returned
    <3>4. handed' \in [Threads -> Seq(Returned)]
      BY <2>2, <3>3 DEF HandOut, TypeOK
    <3> QED
      BY <1>10, <2>2, <3>1, <3>2, <3>4 DEF TrackEntry, TypeOK
  <2>3. CASE /\ copies' = [copies EXCEPT ![hand[t]] = NoEntry]
             /\ SetError(t, "NOMEM")
             /\ UNCHANGED <<np, handed>>
    BY <1>10, <2>3 DEF TrackEntry, TypeOK
  <2> QED
    BY <1>10, <2>2, <2>3 DEF TrackEntry
<1>11. ASSUME NEW t \in Threads, EndCall(t) \/ EndNetconfig(t) PROVE TypeOK'
  <2>1. np[t] \in NpHandle /\ << >> \in Seq(Returned)
    BY DEF TypeOK
  <2>2. /\ [np[t] EXCEPT !.open = FALSE] \in NpHandle
        /\ [np[t] EXCEPT !.nc_handle = NullHandle] \in NpHandle
    BY <2>1 DEF NpHandle
  <2>3. CASE EndCall(t)
    BY <2>1, <2>2, <2>3 DEF EndCall, TypeOK
  <2>4. CASE EndNetconfig(t)
    <3>1. np' \in [Threads -> NpHandle]
      BY <2>2, <2>4 DEF EndNetconfig, TypeOK
    <3>2. Globals'
      BY <2>4, DatabaseType DEF EndNetconfig
    <3>3. pc' \in [Threads -> Pcs] /\ nc_error' \in [Threads -> Errors]
      BY <2>4 DEF EndNetconfig, TypeOK
    <3> QED
      BY <2>4, <3>1, <3>2, <3>3 DEF EndNetconfig, TypeOK, Globals
  <2> QED
    BY <1>11, <2>3, <2>4
<1>12. ASSUME NEW t \in Threads, EndFree(t) PROVE TypeOK'
  <2>1. np[t] \in NpHandle /\ np[t].alloc \in Seq(Addresses)
    BY DEF TypeOK, NpHandle
  <2>2. CASE np[t].alloc = << >>
    BY <1>12, <2>2, NoNpType DEF EndFree, TypeOK
  <2>3. CASE np[t].alloc # << >>
    <3>1. Tail(np[t].alloc) \in Seq(Addresses)
      BY <2>1, <2>3
    <3>2. [np[t] EXCEPT !.alloc = Tail(np[t].alloc)] \in NpHandle
      BY <2>1, <3>1 DEF NpHandle
    <3>3. np' = [np EXCEPT ![t] = [np[t] EXCEPT !.alloc = Tail(np[t].alloc)]]
      BY <1>12, <2>3 DEF EndFree
    <3> QED
      BY <1>12, <2>3, <3>2, <3>3 DEF EndFree, TypeOK
  <2> QED
    BY <2>2, <2>3
<1> QED
  BY <1>1, <1>2, <1>3, <1>4, <1>5, <1>6, <1>7, <1>8, <1>9, <1>10, <1>11, <1>12
     DEF Next, Step
--------------------------------------------------------------------------------
(* Where the threads stand, and the references they hold.                  *)

\* The record of a thread is a function of its fields.
LEMMA Fields ==
    ASSUME TypeOK, NEW t \in Threads
    PROVE  /\ np[t].open \in BOOLEAN /\ np[t].nc_handle \in Handles \union {NullHandle}
           /\ np[t].index \in Nat /\ np[t].alloc \in Seq(Addresses)
           /\ handed[t] \in Seq(Returned) /\ hand[t] \in Addresses \union {NoAddress}
           /\ DOMAIN np = Threads /\ DOMAIN pc = Threads /\ DOMAIN hand = Threads
           /\ DOMAIN handed = Threads
BY DEF TypeOK, NpHandle

LEMMA StepPhase ==
    ASSUME PathInv, [Next]_vars, NEW t \in Threads
    PROVE  Phase(t)'
<1>0. TypeOK /\ Phase(t) /\ NoAddress \notin Addresses
  BY PathAssumption DEF PathInv
<1>00. /\ np \in [Threads -> NpHandle] /\ DOMAIN pc = Threads /\ DOMAIN hand = Threads
       /\ DOMAIN handed = Threads
  BY <1>0 DEF TypeOK
<1> USE DEF Goto, SetError, Phase, UsesVisible
<1>1. CASE UNCHANGED <<np, pc, hand, handed>>
  BY <1>0, <1>1
<1>2. ASSUME NEW u \in Threads, Next, ~UNCHANGED <<np, pc, hand, handed>>, u # t,
             UNCHANGED <<np[t], pc[t], hand[t], handed[t]>>
      PROVE  Phase(t)'
  BY <1>0, <1>2
<1>3. ASSUME NEW u \in Threads,
             \/ SetVisible(u) \/ GetCall(u) \/ SetList(u) \/ EndCall(u)
             \/ Step(u)
      PROVE  u = t \/ UNCHANGED <<np[t], pc[t], hand[t], handed[t]>>
  BY <1>00, <1>3 DEF SetVisible, GetCall, SetList, EndCall, Step, SetNetconfig, NextVisible,
     NextToken, Lookup, Getnetconfigent, TrackEntry, EndNetconfig, EndFree, HandOut
<1>4. CASE SetVisible(t) \/ GetCall(t)
  BY <1>0, <1>00, <1>4 DEF SetVisible, GetCall, NoNp
<1>5. CASE SetList(t)
  BY <1>0, <1>00, <1>5 DEF SetList, NoNp
<1>6. CASE EndCall(t)
  BY <1>0, <1>00, <1>6 DEF EndCall, NpHandle
<1>7. CASE SetNetconfig(t)
  BY <1>0, <1>00, <1>7, PathAssumption, SMTT(20), ZenonT(20) DEF SetNetconfig, NoNp
<1>8. CASE NextVisible(t)
  BY <1>0, <1>00, <1>8, SMTT(20), ZenonT(20) DEF NextVisible, HandOut, NpHandle
<1>9. CASE NextToken(t)
  <2>1. /\ np'[t].open = np[t].open /\ np'[t].nc_handle = np[t].nc_handle
        /\ np'[t].alloc = np[t].alloc
    BY <1>00, <1>9 DEF NextToken, NpHandle
  <2>2. pc[t] = "next" /\ pc'[t] \in {"next", "lookup", "idle"}
    BY <1>00, <1>9 DEF NextToken
  <2> QED
    BY <1>0, <1>9, <2>1, <2>2 DEF NextToken
<1>10. CASE Lookup(t)
  BY <1>0, <1>00, <1>10 DEF Lookup, Getnetconfigent, NpHandle
<1>11. CASE TrackEntry(t)
  BY <1>0, <1>00, <1>11, SMTT(20), ZenonT(20) DEF TrackEntry, HandOut, NpHandle
<1>12. CASE EndNetconfig(t)
  BY <1>0, <1>00, <1>12 DEF EndNetconfig, NpHandle
<1>13. CASE EndFree(t)
  <2>1. CASE np[t].alloc = << >>
    BY <1>0, <1>00, <1>13, <2>1 DEF EndFree, NoNp
  <2>2. CASE np[t].alloc # << >>
    <3>1. /\ np'[t].open = np[t].open /\ np'[t].nc_handle = np[t].nc_handle
          /\ pc'[t] = pc[t]
      BY <1>00, <1>13, <2>2 DEF EndFree, NpHandle
    <3> QED
      BY <1>0, <1>13, <2>2, <3>1 DEF EndFree
  <2> QED
    BY <2>1, <2>2
<1>14. CASE OthersLoad \/ \E h \in Handles : OthersOpen(h) \/ OthersClose(h)
  BY <1>1, <1>14 DEF OthersLoad, OthersOpen, OthersClose
<1>15. ASSUME NEW u \in Threads, SetNoMemory(u) \/ GetNoHandle(u) PROVE Phase(t)'
  BY <1>1, <1>15 DEF SetNoMemory, GetNoHandle
<1> QED
  BY <1>1, <1>2, <1>3, <1>4, <1>5, <1>6, <1>7, <1>8, <1>9, <1>10, <1>11, <1>12, <1>13, <1>14,
     <1>15 DEF Next, Step, vars

\* Steps that change other fields of the np_handle leave nc_handle alone.
LEMMA OwnHandle ==
    ASSUME TypeOK, NEW t \in Threads,
           \/ NextVisible(t) \/ NextToken(t) \/ TrackEntry(t) \/ EndCall(t)
           \/ (EndFree(t) /\ np[t].nc_handle = NullHandle)
    PROVE  \A u \in Threads : np'[u].nc_handle = np[u].nc_handle
<1>0. np \in [Threads -> NpHandle]
  BY DEF TypeOK
<1>1. ASSUME NEW v,
             \/ np' = [np EXCEPT ![t].index = v]
             \/ np' = [np EXCEPT ![t].cursor = v]
             \/ np' = [np EXCEPT ![t].alloc = v]
             \/ np' = [np EXCEPT ![t].open = v]
      PROVE  np'[t].nc_handle = np[t].nc_handle /\ \A u \in Threads \ {t} : np'[u] = np[u]
  BY <1>0, <1>1 DEF NpHandle
<1>2. CASE NextVisible(t)
  BY <1>1, <1>2 DEF NextVisible
<1>3. CASE NextToken(t)
  <2>1. np' = np \/ np' = [np EXCEPT ![t].cursor = Tail(np[t].cursor)]
    BY <1>3 DEF NextToken
  <2> QED
    BY <1>1, <2>1
<1>4. CASE TrackEntry(t)
  <2>1. np' = np \/ np' = [np EXCEPT ![t].alloc = Append(np[t].alloc, hand[t])]
    BY <1>4 DEF TrackEntry
  <2> QED
    BY <1>1, <2>1
<1>5. CASE EndCall(t)
  BY <1>1, <1>5 DEF EndCall
<1>6. CASE EndFree(t) /\ np[t].nc_handle = NullHandle
  <2>1. np' = [np EXCEPT ![t] = NoNp] \/ np' = [np EXCEPT ![t].alloc = Tail(np[t].alloc)]
    BY <1>6 DEF EndFree
  <2>2. CASE np' = [np EXCEPT ![t] = NoNp]
    BY <1>0, <1>6, <2>2 DEF NoNp
  <2> QED
    BY <1>1, <2>1, <2>2
<1> QED
  BY <1>2, <1>3, <1>4, <1>5, <1>6

\* The handles in use are those of the walks and of the other users.
LEMMA Users ==
    ASSUME TypeOK
    PROVE  /\ \A h : h \in InUse <=>
                 h \in others \/ \E t \in Threads : UsesVisible(t) /\ np[t].nc_handle = h
           /\ IsFiniteSet(magic) /\ magic \in SUBSET Handles
<1>1. IsFiniteSet(magic)
  BY PathAssumption, FS_Subset DEF TypeOK
<1> QED
  BY <1>1 DEF InUse, Walking, TypeOK

\* A step that leaves the handles and the globals of getnetconfig.c alone.
LEMMA KeptRefers ==
    ASSUME Refers, UNCHANGED <<db, count, magic, others>>,
           \A t \in Threads : np'[t].nc_handle = np[t].nc_handle
    PROVE  Refers' /\ InUse' = InUse
<1>1. InUse' = InUse
  BY DEF InUse, Walking, UsesVisible
<1>2. Cardinality(magic') = Cardinality(magic)
  OBVIOUS
<1> QED
  BY <1>1, <1>2 DEF Refers, HandlesHaveOneUser, UsesVisible, DB!NotLoaded

\* setnetconfig counts the handle it opens.
LEMMA OpenCounts ==
    ASSUME TypeOK, Refers, NEW h \in Handles, Setnetconfig(h)
    PROVE  /\ h \notin InUse /\ magic' = InUse \union {h} /\ db' = db /\ db # << >>
           /\ count' = Cardinality(magic')
<1>1. /\ magic = InUse /\ count = Cardinality(magic) /\ magic' = magic \union {h} /\ h \notin magic
      /\ count' = count + 1 /\ db' = db /\ db # << >>
  BY DEF Setnetconfig, Refers, HandlesHaveOneUser, DB!NotLoaded
<1>2. Cardinality(magic \union {h}) = Cardinality(magic) + 1
  BY <1>1, Users, FS_AddElement
<1> QED
  BY <1>1, <1>2

\* endnetconfig of a handle in use: the table goes with the last one.
LEMMA CloseCounts ==
    ASSUME TypeOK, Refers, NEW h \in InUse, Endnetconfig(h)
    PROVE  /\ magic' = InUse \ {h} /\ db' = (IF magic' = {} THEN << >> ELSE db)
           /\ count' = Cardinality(magic')
<1>1. /\ magic = InUse /\ h \in magic /\ count = Cardinality(magic) /\ magic' = magic \ {h}
      /\ count' = (IF count > 0 THEN count - 1 ELSE count)
      /\ db' = (IF count' = 0 THEN << >> ELSE db)
  BY DEF Endnetconfig, Refers, HandlesHaveOneUser, DB!NotLoaded
<1>2. Cardinality(magic \ {h}) = Cardinality(magic) - 1 /\ IsFiniteSet(magic \ {h})
  BY <1>1, Users, FS_RemoveElement
<1>3. Cardinality(magic \ {h}) = 0 <=> magic \ {h} = {}
  BY <1>2, FS_EmptySet
<1>4. Cardinality(magic) \in Nat /\ Cardinality(magic \ {h}) \in Nat
  BY <1>2, Users, FS_CardinalityType
<1>5. count' = Cardinality(magic')
  BY <1>1, <1>2, <1>4
<1> QED
  BY <1>1, <1>3, <1>5

\* What one step does to the table and to the handles in use.
Opens == /\ db' = db /\ db # << >>
         /\ \E h \in Handles \ InUse : InUse' = InUse \union {h}
Closes == /\ \E h \in InUse : InUse' = InUse \ {h}
          /\ db' = IF InUse' = {} THEN << >> ELSE db
Fills == db = << >> /\ db' \in Loads /\ InUse' = InUse
Rests == db' = db /\ InUse' = InUse

LEMMA StepRefers ==
    ASSUME PathInv, [Next]_vars
    PROVE  Refers' /\ (Opens \/ Closes \/ Fills \/ Rests)
<1>0. /\ TypeOK /\ Refers /\ NullHandle \notin Handles /\ np \in [Threads -> NpHandle]
      /\ magic \subseteq Handles /\ others \subseteq Handles
  BY PathAssumption DEF PathInv, TypeOK
<1>00. /\ magic = InUse /\ count = Cardinality(magic)
       /\ \A t \in Threads : UsesVisible(t) =>
             /\ np[t].nc_handle \notin others
             /\ \A u \in Threads : np[u].nc_handle = np[t].nc_handle => u = t
  BY <1>0 DEF Refers, HandlesHaveOneUser
<1> USE DEF DB!NotLoaded
<1> DEFINE Goal == Refers' /\ (Opens \/ Closes \/ Fills \/ Rests)
<1>1. ASSUME UNCHANGED <<db, count, magic, others>>,
             \A t \in Threads : np'[t].nc_handle = np[t].nc_handle
      PROVE  Goal
  BY <1>0, <1>1, KeptRefers DEF Rests
<1>2. CASE OthersLoad
  <2>1. InUse' = InUse
    BY <1>2 DEF OthersLoad, InUse, Walking, UsesVisible
  <2>2. HandlesHaveOneUser'
    BY <1>00, <1>2, <2>1 DEF OthersLoad, HandlesHaveOneUser, UsesVisible
  <2>3. << >> \notin Loads
    BY PathAssumption
  <2> QED
    BY <1>2, <2>1, <2>2, <2>3 DEF OthersLoad, Refers, Fills
<1>3. ASSUME NEW h \in Handles, OthersOpen(h) PROVE Goal
  <2>1. /\ h \notin InUse /\ magic' = InUse \union {h} /\ db' = db /\ db # << >>
        /\ count' = Cardinality(magic') /\ others' = others \union {h} /\ np' = np
    BY <1>0, <1>3, OpenCounts DEF OthersOpen
  <2>2. InUse' = InUse \union {h}
    BY <2>1 DEF InUse, Walking, UsesVisible
  <2>3. \A t \in Threads : UsesVisible(t) => np[t].nc_handle # h
    BY <1>0, <2>1, Users
  <2>4. HandlesHaveOneUser'
    BY <1>00, <2>1, <2>2, <2>3 DEF HandlesHaveOneUser, UsesVisible
  <2> QED
    BY <2>1, <2>2, <2>4 DEF Refers, Opens
<1>4. ASSUME NEW h \in Handles, OthersClose(h) PROVE Goal
  <2>1. h \in InUse /\ Endnetconfig(h) /\ others' = others \ {h} /\ np' = np /\ h \in others
    BY <1>0, <1>4, Users DEF OthersClose
  <2>2. /\ magic' = InUse \ {h} /\ db' = (IF magic' = {} THEN << >> ELSE db)
        /\ count' = Cardinality(magic')
    BY <1>0, <2>1, CloseCounts
  <2>3. \A t \in Threads : UsesVisible(t) => np[t].nc_handle # h
    BY <1>00, <2>1
  <2>4. InUse' = InUse \ {h}
    BY <2>1, <2>3 DEF InUse, Walking, UsesVisible
  <2>5. HandlesHaveOneUser'
    BY <1>00, <2>1, <2>2, <2>4 DEF HandlesHaveOneUser, UsesVisible
  <2>6. magic' # {} => db' # << >>
    BY <1>0, <1>00, <2>2 DEF Refers
  <2> QED
    BY <2>1, <2>2, <2>4, <2>5, <2>6 DEF Refers, Closes
<1>5. ASSUME NEW t \in Threads, SetList(t) PROVE Goal
  <2>1. np[t].nc_handle = NullHandle
    BY <1>5 DEF SetList, PathInv, Phase, NoNp
  <2>2. np'[t].nc_handle = NullHandle
    BY <1>0, <1>5 DEF SetList, NoNp
  <2>3. \A u \in Threads : np'[u].nc_handle = np[u].nc_handle
    BY <1>0, <1>5, <2>1, <2>2 DEF SetList
  <2> QED
    BY <1>1, <1>5, <2>3 DEF SetList
<1>6. ASSUME NEW t \in Threads, SetNetconfig(t) PROVE Goal
  <2>1. CASE \E h \in Handles :
               /\ Setnetconfig(h)
               /\ np' = [np EXCEPT ![t] = [NoNp EXCEPT !.open = TRUE, !.nc_handle = h]]
    <3>1. PICK h \in Handles :
               /\ Setnetconfig(h)
               /\ np' = [np EXCEPT ![t] = [NoNp EXCEPT !.open = TRUE, !.nc_handle = h]]
      BY <2>1
    <3>2. np'[t].nc_handle = h /\ \A u \in Threads \ {t} : np'[u] = np[u]
      BY <1>0, <3>1 DEF NoNp
    <3>3. /\ h \notin InUse /\ magic' = InUse \union {h} /\ db' = db /\ db # << >>
          /\ count' = Cardinality(magic') /\ others' = others /\ h # NullHandle
      BY <1>0, <1>6, <3>1, OpenCounts DEF SetNetconfig
    <3>4. h \notin others /\ \A u \in Threads : np[u].nc_handle # h
      <4>1. \A x : x \in others \/ (\E u \in Threads : UsesVisible(u) /\ np[u].nc_handle = x)
                   => x \in InUse
        BY <1>0, Users
      <4>2. \A u \in Threads : np[u].nc_handle = h => UsesVisible(u)
        BY <3>3 DEF UsesVisible
      <4> QED
        BY <3>3, <4>1, <4>2
    <3>5. np[t].nc_handle = NullHandle
      <4>1. pc[t] = "set_nc" /\ Phase(t)
        BY <1>6 DEF SetNetconfig, PathInv
      <4>2. np[t] = NoNp
        BY <4>1 DEF Phase
      <4> QED
        BY <4>2 DEF NoNp
    <3>6. /\ \A u \in Threads \ {t} : UsesVisible(u)' = UsesVisible(u)
          /\ UsesVisible(t)' /\ ~UsesVisible(t)
      BY <3>2, <3>3, <3>5 DEF UsesVisible
    <3>7. Walking' = Walking \union {h}
      BY <3>2, <3>6 DEF Walking
    <3>8. InUse' = InUse \union {h}
      BY <3>3, <3>7 DEF InUse
    <3>9. HandlesHaveOneUser'
      BY <1>00, <3>2, <3>3, <3>4, <3>6, <3>8 DEF HandlesHaveOneUser
    <3> QED
      BY <3>3, <3>8, <3>9 DEF Refers, Opens
  <2> QED
    BY <1>1, <1>6, <2>1 DEF SetNetconfig
<1>7. ASSUME NEW t \in Threads,
             \/ NextVisible(t) \/ NextToken(t) \/ TrackEntry(t) \/ EndCall(t)
      PROVE  Goal
  <2>1. np[t] \in NpHandle
    BY <1>0
  <2>2. \A u \in Threads : np'[u].nc_handle = np[u].nc_handle
    BY <1>0, <1>7, OwnHandle
  <2> QED
    BY <1>1, <1>7, <2>2 DEF NextVisible, NextToken, TrackEntry, EndCall
<1>8. ASSUME NEW t \in Threads, EndNetconfig(t) PROVE Goal
  <2>1. CASE UsesVisible(t)
    <3> DEFINE h == np[t].nc_handle
    <3>1. np'[t].nc_handle = NullHandle /\ \A u \in Threads \ {t} : np'[u] = np[u]
      BY <1>0, <1>8, <2>1 DEF EndNetconfig, NpHandle
    <3>2. h \in InUse /\ Endnetconfig(h) /\ others' = others
      BY <1>0, <1>8, <2>1, Users DEF EndNetconfig
    <3>3. /\ magic' = InUse \ {h} /\ db' = (IF magic' = {} THEN << >> ELSE db)
          /\ count' = Cardinality(magic')
      BY <1>0, <3>2, CloseCounts
    <3>4. h \notin others /\ \A u \in Threads \ {t} : np[u].nc_handle # h
      BY <1>00, <2>1
    <3>5. /\ \A u \in Threads \ {t} : UsesVisible(u)' = UsesVisible(u)
          /\ ~UsesVisible(t)'
      BY <3>1 DEF UsesVisible
    <3> HIDE DEF h
    <3>6. Walking' = Walking \ {h}
      <4>1. \A x : x \in Walking <=> \E u \in Threads : UsesVisible(u) /\ np[u].nc_handle = x
        BY DEF Walking
      <4>2. \A x : x \in Walking' <=> \E u \in Threads : UsesVisible(u)' /\ np'[u].nc_handle = x
        BY DEF Walking
      <4>3. UsesVisible(t) /\ np[t].nc_handle = h
        BY <2>1 DEF h
      <4>4. ASSUME NEW x PROVE x \in Walking' <=> x \in Walking \ {h}
        <5>1. ASSUME x \in Walking' PROVE x \in Walking \ {h}
          <6>1. PICK u \in Threads : UsesVisible(u)' /\ np'[u].nc_handle = x
            BY <4>2, <5>1
          <6>2. u # t
            BY <3>5, <6>1
          <6> QED
            BY <3>1, <3>4, <3>5, <4>1, <6>1, <6>2
        <5>2. ASSUME x \in Walking \ {h} PROVE x \in Walking'
          <6>1. PICK u \in Threads : UsesVisible(u) /\ np[u].nc_handle = x
            BY <4>1, <5>2
          <6>2. u # t
            BY <4>3, <5>2, <6>1
          <6> QED
            BY <3>1, <3>5, <4>2, <6>1, <6>2
        <5> QED
          BY <5>1, <5>2
      <4> QED
        BY <4>4
    <3>7. InUse' = InUse \ {h}
      <4>1. others' = others /\ h \notin others
        BY <3>2, <3>4
      <4> QED
        BY <3>6, <4>1, Zenon DEF InUse
    <3>8. HandlesHaveOneUser'
      <4>1. ASSUME NEW u \in Threads, UsesVisible(u)'
            PROVE  /\ np'[u].nc_handle \notin others'
                   /\ \A v \in Threads : np'[v].nc_handle = np'[u].nc_handle => v = u
        <5>1. u # t /\ UsesVisible(u) /\ np'[u] = np[u] /\ np'[u].nc_handle # NullHandle
          BY <3>1, <3>5, <4>1 DEF UsesVisible
        <5>2. \A v \in Threads : np'[v].nc_handle = np'[u].nc_handle => v # t /\ np'[v] = np[v]
          BY <3>1, <5>1
        <5> QED
          BY <1>00, <3>2, <5>1, <5>2
      <4> QED
        BY <3>3, <3>7, <4>1 DEF HandlesHaveOneUser
    <3>9. magic' # {} => db' # << >>
      BY <1>0, <1>00, <3>3 DEF Refers
    <3> QED
      BY <3>2, <3>3, <3>7, <3>8, <3>9 DEF Refers, Closes
  <2> QED
    BY <1>1, <1>8, <2>1 DEF EndNetconfig
<1>9. ASSUME NEW t \in Threads, EndFree(t) PROVE Goal
  <2>1. np[t].nc_handle = NullHandle /\ np[t] \in NpHandle
    BY <1>0, <1>9 DEF EndFree, PathInv, Phase, UsesVisible
  <2>2. \A u \in Threads : np'[u].nc_handle = np[u].nc_handle
    BY <1>0, <1>9, <2>1, OwnHandle
  <2> QED
    BY <1>1, <1>9, <2>2 DEF EndFree
<1>10. ASSUME NEW t \in Threads,
              \/ SetNoMemory(t) \/ SetVisible(t) \/ GetNoHandle(t) \/ GetCall(t) \/ Lookup(t)
       PROVE  Goal
  BY <1>1, <1>10 DEF SetNoMemory, SetVisible, GetNoHandle, GetCall, Lookup
<1>11. CASE UNCHANGED vars
  BY <1>1, <1>11 DEF vars
<1> QED
  BY <1>2, <1>3, <1>4, <1>5, <1>6, <1>7, <1>8, <1>9, <1>10, <1>11 DEF Next, Step

--------------------------------------------------------------------------------
(* The database as the open walks see it.                                  *)

\* While a walk refers to the table, the table stays.
LEMMA TableStays ==
    ASSUME PathInv, [Next]_vars, NEW t \in Threads, UsesVisible(t), UsesVisible(t)'
    PROVE  db' = db
<1>1. Opens \/ Closes \/ Fills \/ Rests
  BY StepRefers
<1>2. InUse # {} /\ InUse' # {}
  BY DEF InUse, Walking
<1>3. db # << >>
  BY <1>2 DEF PathInv, Refers, HandlesHaveOneUser, DB!NotLoaded
<1> QED
  BY <1>1, <1>2, <1>3 DEF Opens, Closes, Fills, Rests

--------------------------------------------------------------------------------
(* The copies and their owners.                                            *)

\* Steps that change other fields of the np_handle leave its list alone.
LEMMA OwnList ==
    ASSUME PathInv, NEW t \in Threads,
           \/ SetList(t) \/ SetNetconfig(t) \/ NextVisible(t) \/ NextToken(t) \/ EndCall(t)
           \/ EndNetconfig(t) \/ (EndFree(t) /\ np[t].alloc = << >>)
    PROVE  \A u \in Threads : np'[u].alloc = np[u].alloc
<1>0. np \in [Threads -> NpHandle] /\ Phase(t)
  BY DEF PathInv, TypeOK
<1>1. ASSUME NEW v,
             \/ np' = np
             \/ np' = [np EXCEPT ![t].index = v]
             \/ np' = [np EXCEPT ![t].cursor = v]
             \/ np' = [np EXCEPT ![t].nc_handle = v]
             \/ np' = [np EXCEPT ![t].open = v]
      PROVE  \A u \in Threads : np'[u].alloc = np[u].alloc
  <2>1. np'[t].alloc = np[t].alloc
    BY <1>0, <1>1 DEF NpHandle
  <2>2. \A u \in Threads \ {t} : np'[u] = np[u]
    BY <1>0, <1>1
  <2> QED
    BY <2>1, <2>2
<1>2. ASSUME NEW n \in NpHandle, np' = [np EXCEPT ![t] = n], n.alloc = << >>, np[t].alloc = << >>
      PROVE  \A u \in Threads : np'[u].alloc = np[u].alloc
  BY <1>0, <1>2
<1>3. CASE SetList(t)
  <2>1. PICK path \in Paths : np' = [np EXCEPT ![t] = [NoNp EXCEPT !.open = TRUE, !.cursor = path]]
    BY <1>3 DEF SetList
  <2>2. np[t] = NoNp
    BY <1>0, <1>3 DEF SetList, Phase
  <2> QED
    BY <1>0, <2>1, <2>2 DEF NoNp
<1>4. CASE SetNetconfig(t)
  <2>1. np[t] = NoNp
    BY <1>0, <1>4 DEF SetNetconfig, Phase
  <2>2. CASE \E h \in Handles :
               np' = [np EXCEPT ![t] = [NoNp EXCEPT !.open = TRUE, !.nc_handle = h]]
    BY <1>0, <2>1, <2>2 DEF NoNp
  <2> QED
    BY <1>1, <1>4, <2>2 DEF SetNetconfig
<1>5. CASE NextVisible(t)
  BY <1>1, <1>5 DEF NextVisible
<1>6. CASE NextToken(t)
  <2>1. np' = np \/ np' = [np EXCEPT ![t].cursor = Tail(np[t].cursor)]
    BY <1>6 DEF NextToken
  <2> QED
    BY <1>1, <2>1
<1>7. CASE EndCall(t)
  BY <1>1, <1>7 DEF EndCall
<1>8. CASE EndNetconfig(t)
  BY <1>1, <1>8 DEF EndNetconfig
<1>9. CASE EndFree(t) /\ np[t].alloc = << >>
  <2>1. np' = [np EXCEPT ![t] = NoNp] /\ NoNp.alloc = << >>
    BY <1>9 DEF EndFree, NoNp
  <2> QED
    BY <1>2, <1>9, <2>1, NoNpType
<1> QED
  BY <1>3, <1>4, <1>5, <1>6, <1>7, <1>8, <1>9

\* A step that leaves lists, hands and copies alone.
LEMMA KeptOwners ==
    ASSUME CopiesHaveOneOwner, UNCHANGED <<copies, hand>>,
           \A t \in Threads : np'[t].alloc = np[t].alloc
    PROVE  CopiesHaveOneOwner'
<1>1. \A t \in Threads : Places(t)' = Places(t) /\ \A i \in Places(t) : Held(t, i)' = Held(t, i)
  BY DEF Places, Held
<1> QED
  BY <1>1 DEF CopiesHaveOneOwner

\* A new copy is in the hand of the thread that looked it up.
LEMMA LookupOwners ==
    ASSUME PathInv, NEW t \in Threads, Lookup(t)
    PROVE  CopiesHaveOneOwner'
<1>0. TypeOK /\ CopiesHaveOneOwner /\ Phase(t) /\ NoEntry \notin Entry /\ NoAddress \notin Addresses
  BY PathAssumption DEF PathInv
<1>1. CASE UNCHANGED <<copies, hand>>
  BY <1>0, <1>1, KeptOwners DEF Lookup
<1>2. CASE \E a \in Addresses, e \in Entry :
              /\ copies[a] = NoEntry
              /\ copies' = [copies EXCEPT ![a] = e]
              /\ hand' = [hand EXCEPT ![t] = a]
  <2>1. PICK a \in Addresses, e \in Entry :
              /\ copies[a] = NoEntry
              /\ copies' = [copies EXCEPT ![a] = e]
              /\ hand' = [hand EXCEPT ![t] = a]
    BY <1>2
  <2>2. /\ np' = np /\ hand[t] = NoAddress /\ e # NoEntry /\ a # NoAddress
        /\ \A u \in Threads : 0 \in Places(u) /\ Len(np[u].alloc) \in Nat
    BY <1>0, Fields DEF Lookup, Phase, Places
  <2>3. \A u \in Threads : \A i \in Places(u) : Held(u, i) \in Addresses \union {NoAddress}
    <3>1. ASSUME NEW u \in Threads, NEW i \in Places(u)
          PROVE  Held(u, i) \in Addresses \union {NoAddress}
      BY <1>0, Fields DEF Places, Held
    <3> QED
      BY <3>1
  <2>4. \A u \in Threads : \A i \in Places(u) : Held(u, i) # a
    BY <1>0, <2>1, <2>2 DEF CopiesHaveOneOwner
  <2>5. /\ copies'[a] = e
        /\ \A b \in Addresses : b # a => copies'[b] = copies[b]
    BY <1>0, <2>1 DEF TypeOK
  <2>6. /\ \A u \in Threads : Places(u)' = Places(u)
        /\ \A u \in Threads : \A i \in Places(u) :
              Held(u, i)' = IF u = t /\ i = 0 THEN a ELSE Held(u, i)
    BY <1>0, <2>1, <2>2, Fields DEF Places, Held
  <2>7. \A u \in Threads : \A i \in Places(u)' :
            Held(u, i)' # NoAddress => copies'[Held(u, i)'] # NoEntry
    BY <1>0, <2>2, <2>3, <2>4, <2>5, <2>6 DEF CopiesHaveOneOwner
  <2>8. \A u, v \in Threads : \A i \in Places(u)', j \in Places(v)' :
            Held(u, i)' = Held(v, j)' /\ Held(u, i)' # NoAddress => u = v /\ i = j
    BY <1>0, <2>4, <2>6 DEF CopiesHaveOneOwner
  <2>9. ASSUME NEW b \in Addresses, copies'[b] # NoEntry
        PROVE  \E u \in Threads : \E i \in Places(u)' : Held(u, i)' = b
    <3>1. CASE b = a
      BY <2>2, <2>6, <3>1
    <3>2. CASE b # a
      <4>0. copies[b] # NoEntry
        BY <2>5, <2>9, <3>2
      <4>1. \E u \in Threads : \E i \in Places(u) : Held(u, i) = b
        BY <1>0, <4>0 DEF CopiesHaveOneOwner
      <4>2. PICK u \in Threads : \E i \in Places(u) : Held(u, i) = b
        BY <4>1
      <4>3. PICK i \in Places(u) : Held(u, i) = b
        BY <4>2
      <4>4. ~(u = t /\ i = 0)
        BY <1>0, <2>2, <2>9, <4>3 DEF Held
      <4> QED
        BY <2>6, <4>3, <4>4
    <3> QED
      BY <3>1, <3>2
  <2> QED
    BY <2>7, <2>8, <2>9 DEF CopiesHaveOneOwner
<1>3. \A i \in DOMAIN db : db[i] \in Entry
  BY <1>0 DEF TypeOK
<1> QED
  BY <1>1, <1>2, <1>3 DEF Lookup, Getnetconfigent, First

\* The addresses a thread holds, by place.
LEMMA HeldType ==
    ASSUME TypeOK, NEW u \in Threads
    PROVE  /\ 0 \in Places(u) /\ Len(np[u].alloc) \in Nat /\ Len(np[u].alloc) \in Places(u)
           /\ Places(u) \subseteq Nat
           /\ \A i \in Places(u) : Held(u, i) \in Addresses \union {NoAddress}
           /\ \A i \in Places(u) : i # 0 => Held(u, i) \in Addresses
<1>1. ASSUME NEW i \in Places(u)
      PROVE  /\ Held(u, i) \in Addresses \union {NoAddress}
             /\ i # 0 => Held(u, i) \in Addresses
  BY Fields DEF Places, Held
<1> QED
  BY <1>1, Fields DEF Places

\* Copies may move from place to place within a thread, and be freed when they
\* are held no more: w names the place where a place got its copy from.
LEMMA MovedOwners ==
    ASSUME CopiesHaveOneOwner, NEW w,
           \A u \in Threads : \A i \in Places(u)' : Held(u, i)' # NoAddress =>
               /\ w[u][i] \in Places(u)
               /\ Held(u, i)' = Held(u, w[u][i])
               /\ copies'[Held(u, i)'] = copies[Held(u, i)']
               /\ \A j \in Places(u)' : w[u][j] = w[u][i] /\ Held(u, j)' # NoAddress => i = j,
           \A a \in Addresses : copies'[a] # NoEntry =>
               /\ copies[a] # NoEntry
               /\ \A u \in Threads : \A k \in Places(u) :
                     Held(u, k) = a => \E i \in Places(u)' : Held(u, i)' = a
    PROVE  CopiesHaveOneOwner'
<1>1. ASSUME NEW u \in Threads, NEW i \in Places(u)', Held(u, i)' # NoAddress
      PROVE  copies'[Held(u, i)'] # NoEntry
  BY <1>1 DEF CopiesHaveOneOwner
<1>2. ASSUME NEW u \in Threads, NEW v \in Threads, NEW i \in Places(u)', NEW j \in Places(v)',
             Held(u, i)' = Held(v, j)', Held(u, i)' # NoAddress
      PROVE  u = v /\ i = j
  <2>1. /\ w[u][i] \in Places(u) /\ Held(u, i)' = Held(u, w[u][i])
        /\ w[v][j] \in Places(v) /\ Held(v, j)' = Held(v, w[v][j])
    BY <1>2
  <2>2. \A x \in Places(u), y \in Places(v) :
            Held(u, x) = Held(v, y) /\ Held(u, x) # NoAddress => u = v /\ x = y
    BY DEF CopiesHaveOneOwner
  <2>3. u = v /\ w[u][i] = w[v][j]
    <3>1. Held(u, w[u][i]) = Held(v, w[v][j]) /\ Held(u, w[u][i]) # NoAddress
      BY <1>2, <2>1
    <3> QED
      BY <2>1, <2>2, <3>1, Zenon
  <2> QED
    BY <1>2, <2>3
<1>3. ASSUME NEW a \in Addresses, copies'[a] # NoEntry
      PROVE  \E u \in Threads : \E i \in Places(u)' : Held(u, i)' = a
  <2>1. \E u \in Threads : \E k \in Places(u) : Held(u, k) = a
    BY <1>3 DEF CopiesHaveOneOwner
  <2> QED
    BY <1>3, <2>1
<1> QED
  BY <1>1, <1>2, <1>3 DEF CopiesHaveOneOwner

\* netpath_track_entry: from the hand to the end of the list, or freed.
LEMMA TrackOwners ==
    ASSUME PathInv, NEW t \in Threads, TrackEntry(t)
    PROVE  CopiesHaveOneOwner'
<1>0. /\ TypeOK /\ CopiesHaveOneOwner /\ np \in [Threads -> NpHandle] /\ NoAddress \notin Addresses
      /\ hand[t] \in Addresses /\ hand' = [hand EXCEPT ![t] = NoAddress]
      /\ hand \in [Threads -> Addresses \union {NoAddress}]
      /\ copies \in [Addresses -> Entry \union {NoEntry}]
  BY PathAssumption DEF PathInv, TypeOK, Phase, TrackEntry
<1>00. np[t].alloc \in Seq(Addresses)
  BY <1>0, Fields
<1>01. PICK n \in Nat : n = Len(np[t].alloc)
  BY <1>00
<1>1. CASE np' = [np EXCEPT ![t].alloc = Append(@, hand[t])] /\ UNCHANGED copies
  <2>1. np'[t].alloc = Append(np[t].alloc, hand[t]) /\ \A u \in Threads \ {t} : np'[u] = np[u]
    BY <1>0, <1>1 DEF NpHandle
  <2>2. /\ Places(t)' = 0..(n + 1) /\ Places(t) = 0..n
        /\ Held(t, n + 1)' = Held(t, 0) /\ Held(t, 0)' = NoAddress /\ Held(t, 0) = hand[t]
        /\ \A i \in 1..n : Held(t, i)' = Held(t, i)
    BY <1>0, <1>00, <1>01, <2>1 DEF Places, Held
  <2>3. \A u \in Threads \ {t} :
            Places(u)' = Places(u) /\ \A i \in Places(u) : Held(u, i)' = Held(u, i)
    BY <1>0, <2>1 DEF Places, Held
  <2> DEFINE w == [u \in Threads |-> [i \in Nat |-> IF u = t /\ i = n + 1 THEN 0 ELSE i]]
  <2>4. \A u \in Threads \ {t} : \A i \in Places(u) : w[u][i] = i
    BY <1>0, HeldType
  <2>5. w[t][n + 1] = 0 /\ \A i \in 0..n : w[t][i] = i
    OBVIOUS
  <2> HIDE DEF w
  <2>6. ASSUME NEW u \in Threads, NEW i \in Places(u)', Held(u, i)' # NoAddress
        PROVE  /\ w[u][i] \in Places(u)
               /\ Held(u, i)' = Held(u, w[u][i])
               /\ \A j \in Places(u)' : w[u][j] = w[u][i] /\ Held(u, j)' # NoAddress => i = j
    <3>1. CASE u # t
      BY <2>3, <2>4, <3>1
    <3>2. CASE u = t
      <4>1. \A j \in 0..(n + 1) : j \in 1..n \/ j = 0 \/ j = n + 1
        OBVIOUS
      <4>2. 0 \in 0..n /\ \A j \in 1..n : j # 0 /\ j \in 0..n
        OBVIOUS
      <4> QED
        BY <2>2, <2>5, <2>6, <3>2, <4>1, <4>2
    <3> QED
      BY <3>1, <3>2
  <2>7. ASSUME NEW a \in Addresses, NEW u \in Threads, NEW k \in Places(u), Held(u, k) = a
        PROVE  \E i \in Places(u)' : Held(u, i)' = a
    <3>1. CASE u # t
      BY <2>3, <2>7, <3>1
    <3>2. CASE u = t /\ k = 0
      <4>1. n + 1 \in 0..(n + 1)
        OBVIOUS
      <4> QED
        BY <2>2, <2>7, <3>2, <4>1
    <3>3. CASE u = t /\ k # 0
      <4>1. k \in 1..n /\ k \in 0..(n + 1)
        BY <2>2, <3>3
      <4> QED
        BY <2>2, <2>7, <3>3, <4>1
    <3> QED
      BY <3>1, <3>2, <3>3
  <2> QED
    BY <1>0, <1>1, <2>6, <2>7, MovedOwners
<1>2. CASE UNCHANGED np /\ copies' = [copies EXCEPT ![hand[t]] = NoEntry]
  <2>1. /\ \A u \in Threads : Places(u)' = Places(u)
        /\ \A u \in Threads : \A i \in Places(u) :
               Held(u, i)' = IF u = t /\ i = 0 THEN NoAddress ELSE Held(u, i)
    BY <1>0, <1>2, HeldType DEF Places, Held
  <2>2. 0 \in Places(t) /\ Held(t, 0) = hand[t] /\ hand[t] # NoAddress
    BY <1>0, HeldType DEF Held
  <2>3. \A u \in Threads : \A i \in Places(u) : Held(u, i) = hand[t] => u = t /\ i = 0
    BY <1>0, <2>2 DEF CopiesHaveOneOwner
  <2>4. /\ copies'[hand[t]] = NoEntry
        /\ \A a \in Addresses : a # hand[t] => copies'[a] = copies[a]
    BY <1>0, <1>2
  <2>5. \A u \in Threads : \A i \in Places(u) : Held(u, i) \in Addresses \union {NoAddress}
    BY <1>0, HeldType
  <2> DEFINE w == [u \in Threads |-> [i \in Nat |-> i]]
  <2>6. \A u \in Threads : \A i \in Places(u) : w[u][i] = i
    BY <1>0, HeldType
  <2> HIDE DEF w
  <2>7. ASSUME NEW u \in Threads, NEW i \in Places(u)', Held(u, i)' # NoAddress
        PROVE  /\ w[u][i] \in Places(u)
               /\ Held(u, i)' = Held(u, w[u][i])
               /\ copies'[Held(u, i)'] = copies[Held(u, i)']
               /\ \A j \in Places(u)' : w[u][j] = w[u][i] /\ Held(u, j)' # NoAddress => i = j
    BY <2>1, <2>3, <2>4, <2>5, <2>6, <2>7
  <2>8. ASSUME NEW a \in Addresses, copies'[a] # NoEntry
        PROVE  /\ copies[a] # NoEntry
               /\ \A u \in Threads : \A k \in Places(u) :
                     Held(u, k) = a => \E i \in Places(u)' : Held(u, i)' = a
    BY <2>1, <2>2, <2>4, <2>8
  <2> QED
    BY <1>0, <2>7, <2>8, MovedOwners
<1> QED
  BY <1>1, <1>2 DEF TrackEntry

\* endnetpath frees the head of the list.
LEMMA FreeOwners ==
    ASSUME PathInv, NEW t \in Threads, EndFree(t), np[t].alloc # << >>
    PROVE  CopiesHaveOneOwner'
<1>0. /\ TypeOK /\ CopiesHaveOneOwner /\ np \in [Threads -> NpHandle] /\ NoAddress \notin Addresses
      /\ hand' = hand
      /\ copies \in [Addresses -> Entry \union {NoEntry}]
      /\ copies' = [copies EXCEPT ![Head(np[t].alloc)] = NoEntry]
      /\ np' = [np EXCEPT ![t].alloc = Tail(@)]
  BY PathAssumption DEF PathInv, TypeOK, EndFree
<1> DEFINE n == Len(np[t].alloc)
<1>1. n \in Nat /\ n > 0 /\ np[t].alloc \in Seq(Addresses) /\ Head(np[t].alloc) = np[t].alloc[1]
  BY <1>0, Fields
<1>2. np'[t].alloc = Tail(np[t].alloc) /\ \A u \in Threads \ {t} : np'[u] = np[u]
  BY <1>0 DEF NpHandle
<1>3. /\ Places(t)' = 0..(n - 1) /\ Places(t) = 0..n
      /\ Held(t, 0)' = Held(t, 0)
      /\ \A i \in 1..(n - 1) : Held(t, i)' = Held(t, i + 1)
      /\ Held(t, 1) = Head(np[t].alloc)
  BY <1>0, <1>1, <1>2 DEF Places, Held
<1>4. \A u \in Threads \ {t} :
          Places(u)' = Places(u) /\ \A i \in Places(u) : Held(u, i)' = Held(u, i)
  BY <1>0, <1>2 DEF Places, Held
<1>5. 1 \in Places(t) /\ Held(t, 1) \in Addresses
  BY <1>0, <1>1, <1>3, HeldType
<1>6. \A u \in Threads : \A i \in Places(u) : Held(u, i) = Held(t, 1) => u = t /\ i = 1
  BY <1>0, <1>5 DEF CopiesHaveOneOwner
<1>7. /\ copies'[Held(t, 1)] = NoEntry
      /\ \A a \in Addresses : a # Held(t, 1) => copies'[a] = copies[a]
  BY <1>0, <1>3, <1>5
<1>8. \A u \in Threads : \A i \in Places(u) : Held(u, i) \in Addresses \union {NoAddress}
  BY <1>0, HeldType
<1> DEFINE w == [u \in Threads |-> [i \in Nat |-> IF u = t /\ i # 0 THEN i + 1 ELSE i]]
<1>9. \A u \in Threads \ {t} : \A i \in Places(u) : w[u][i] = i
  BY <1>0, HeldType
<1>10. w[t][0] = 0 /\ \A i \in 1..(n - 1) : w[t][i] = i + 1
  BY <1>1
<1> HIDE DEF w, n
<1>11. ASSUME NEW u \in Threads, NEW i \in Places(u)', Held(u, i)' # NoAddress
       PROVE  /\ w[u][i] \in Places(u)
              /\ Held(u, i)' = Held(u, w[u][i])
              /\ \A j \in Places(u)' : w[u][j] = w[u][i] => i = j
              /\ ~(u = t /\ w[u][i] = 1)
  <2>1. CASE u # t
    BY <1>4, <1>9, <2>1
  <2>2. CASE u = t
    <3>1. \A j \in 0..(n - 1) : j = 0 \/ j \in 1..(n - 1)
      BY <1>1
    <3>2. 0 \in 0..n /\ \A j \in 1..(n - 1) : j + 1 \in 0..n /\ j + 1 # 0 /\ j + 1 # 1
      BY <1>1
    <3>3. \A j, k \in 1..(n - 1) : j + 1 = k + 1 => j = k
      BY <1>1
    <3> QED
      BY <1>3, <1>10, <2>2, <3>1, <3>2, <3>3
  <2> QED
    BY <2>1, <2>2
<1>12. ASSUME NEW u \in Threads, NEW i \in Places(u)', Held(u, i)' # NoAddress
       PROVE  copies'[Held(u, i)'] = copies[Held(u, i)']
  BY <1>6, <1>7, <1>8, <1>11, <1>12
<1>13. ASSUME NEW a \in Addresses, a # Held(t, 1), NEW u \in Threads, NEW k \in Places(u),
              Held(u, k) = a
       PROVE  \E i \in Places(u)' : Held(u, i)' = a
  <2>1. CASE u # t
    BY <1>4, <1>13, <2>1
  <2>2. CASE u = t /\ k = 0
    <3>1. 0 \in 0..(n - 1)
      BY <1>1
    <3> QED
      BY <1>3, <1>13, <2>2, <3>1
  <2>3. CASE u = t /\ k # 0
    <3>1. k # 1
      BY <1>13, <2>3
    <3>2. k - 1 \in 1..(n - 1) /\ k - 1 \in 0..(n - 1) /\ (k - 1) + 1 = k
      BY <1>1, <1>3, <2>3, <3>1
    <3> QED
      BY <1>3, <1>13, <2>3, <3>2
  <2> QED
    BY <2>1, <2>2, <2>3
<1>14. ASSUME NEW a \in Addresses, copies'[a] # NoEntry
       PROVE  a # Held(t, 1) /\ copies[a] # NoEntry
  BY <1>7, <1>14
<1> QED
  BY <1>0, <1>11, <1>12, <1>13, <1>14, MovedOwners

LEMMA StepOwners ==
    ASSUME PathInv, [Next]_vars
    PROVE  CopiesHaveOneOwner'
<1>0. CopiesHaveOneOwner /\ TypeOK
  BY DEF PathInv
<1>1. CASE UNCHANGED <<np, hand, copies>>
  BY <1>0, <1>1, KeptOwners
<1>2. ASSUME NEW t \in Threads,
             \/ SetList(t) \/ SetNetconfig(t) \/ NextVisible(t) \/ NextToken(t) \/ EndCall(t)
             \/ EndNetconfig(t)
      PROVE  CopiesHaveOneOwner'
  <2>1. UNCHANGED <<copies, hand>>
    BY <1>2 DEF SetList, SetNetconfig, NextVisible, NextToken, EndCall, EndNetconfig
  <2>2. \/ SetList(t) \/ SetNetconfig(t) \/ NextVisible(t) \/ NextToken(t) \/ EndCall(t)
        \/ EndNetconfig(t) \/ (EndFree(t) /\ np[t].alloc = << >>)
    BY <1>2
  <2>3. \A u \in Threads : np'[u].alloc = np[u].alloc
    BY <2>2, OwnList
  <2> QED
    BY <1>0, <2>1, <2>3, KeptOwners
<1>3. ASSUME NEW t \in Threads, EndFree(t) PROVE CopiesHaveOneOwner'
  <2>1. CASE np[t].alloc = << >>
    <3>1. UNCHANGED <<copies, hand>>
      BY <1>3, <2>1 DEF EndFree
    <3>2. \A u \in Threads : np'[u].alloc = np[u].alloc
      BY <1>3, <2>1, OwnList
    <3> QED
      BY <1>0, <3>1, <3>2, KeptOwners
  <2> QED
    BY <1>3, <2>1, FreeOwners
<1>4. ASSUME NEW t \in Threads, Lookup(t) \/ TrackEntry(t) PROVE CopiesHaveOneOwner'
  BY <1>4, LookupOwners, TrackOwners
<1>5. CASE OthersLoad \/ \E h \in Handles : OthersOpen(h) \/ OthersClose(h)
  BY <1>1, <1>5 DEF OthersLoad, OthersOpen, OthersClose
<1>6. ASSUME NEW t \in Threads, SetNoMemory(t) \/ SetVisible(t) \/ GetNoHandle(t) \/ GetCall(t)
      PROVE  CopiesHaveOneOwner'
  BY <1>1, <1>6 DEF SetNoMemory, SetVisible, GetNoHandle, GetCall
<1> QED
  BY <1>1, <1>2, <1>3, <1>4, <1>5, <1>6 DEF Next, Step, vars

--------------------------------------------------------------------------------
(* What was returned.                                                      *)

\* What can change the np_handle of a thread and what it has been given.
LEMMA OfThread ==
    ASSUME TypeOK, [Next]_vars, NEW t \in Threads
    PROVE  \/ UNCHANGED <<np[t], handed[t]>>
           \/ SetList(t) \/ SetNetconfig(t) \/ NextVisible(t) \/ NextToken(t)
           \/ TrackEntry(t) \/ EndCall(t) \/ EndNetconfig(t) \/ EndFree(t)
<1>0. DOMAIN np = Threads /\ DOMAIN handed = Threads
  BY DEF TypeOK
<1>1. CASE UNCHANGED <<np, handed>>
  BY <1>1
<1>2. ASSUME NEW u \in Threads, u # t,
             \/ SetList(u) \/ SetNetconfig(u) \/ NextVisible(u) \/ NextToken(u)
             \/ TrackEntry(u) \/ EndCall(u) \/ EndNetconfig(u) \/ EndFree(u)
      PROVE  UNCHANGED <<np[t], handed[t]>>
  BY <1>0, <1>2 DEF SetList, SetNetconfig, NextVisible, NextToken, TrackEntry, EndCall,
     EndNetconfig, EndFree, HandOut
<1> QED
  BY <1>1, <1>2 DEF Next, Step, vars, OthersLoad, OthersOpen, OthersClose, SetNoMemory, SetVisible,
     GetNoHandle, GetCall, Lookup

\* A copy on a list keeps its contents until endnetpath comes to it.
LEMMA CopyStays ==
    ASSUME PathInv, [Next]_vars, NEW t \in Threads, pc[t] # "free", NEW i \in DOMAIN np[t].alloc
    PROVE  copies'[np[t].alloc[i]] = copies[np[t].alloc[i]]
<1>0. TypeOK /\ CopiesHaveOneOwner /\ NoAddress \notin Addresses
  BY PathAssumption DEF PathInv
<1>1. i \in Places(t) /\ i # 0 /\ Held(t, i) = np[t].alloc[i] /\ np[t].alloc[i] \in Addresses
  BY <1>0, Fields DEF Places, Held
<1>2. Held(t, i) # NoAddress /\ copies[Held(t, i)] # NoEntry
  BY <1>0, <1>1 DEF CopiesHaveOneOwner
<1>3. ASSUME NEW u \in Threads, NEW j \in Places(u), Held(u, j) = Held(t, i)
      PROVE  u = t /\ j = i
  BY <1>0, <1>1, <1>2, <1>3 DEF CopiesHaveOneOwner
<1>4. CASE UNCHANGED copies
  BY <1>4
<1>5. ASSUME NEW u \in Threads, Lookup(u) PROVE copies'[Held(t, i)] = copies[Held(t, i)]
  BY <1>0, <1>1, <1>2, <1>5 DEF Lookup, Getnetconfigent, TypeOK
<1>6. ASSUME NEW u \in Threads, TrackEntry(u) PROVE copies'[Held(t, i)] = copies[Held(t, i)]
  <2>1. 0 \in Places(u) /\ Held(u, 0) = hand[u]
    BY <1>0, HeldType DEF Held
  <2>2. hand[u] # Held(t, i)
    BY <1>1, <1>3, <2>1
  <2> QED
    BY <1>0, <1>1, <1>6, <2>2 DEF TrackEntry, TypeOK
<1>7. ASSUME NEW u \in Threads, EndFree(u) PROVE copies'[Held(t, i)] = copies[Held(t, i)]
  <2>1. u # t
    BY <1>7 DEF EndFree
  <2>2. CASE np[u].alloc # << >>
    <3>1. 1 \in Places(u) /\ Held(u, 1) = Head(np[u].alloc)
      BY <1>0, <2>2, Fields DEF Places, Held
    <3>2. Head(np[u].alloc) # Held(t, i)
      BY <1>3, <2>1, <3>1
    <3> QED
      BY <1>0, <1>1, <1>7, <2>2, <3>2 DEF EndFree, TypeOK
  <2> QED
    BY <1>7, <2>2 DEF EndFree
<1> QED
  BY <1>1, <1>4, <1>5, <1>6, <1>7 DEF Next, Step, vars, OthersLoad, OthersOpen, OthersClose,
     SetNoMemory, SetList, SetVisible, GetNoHandle, GetCall, EndCall, SetNetconfig, NextVisible,
     NextToken, EndNetconfig

LEMMA StepListed ==
    ASSUME PathInv, [Next]_vars, NEW t \in Threads
    PROVE  Listed(t)'
<1>0. /\ TypeOK /\ Phase(t) /\ Listed(t) /\ NullHandle \notin Handles
      /\ np \in [Threads -> NpHandle] /\ DOMAIN handed = Threads /\ np[t] \in NpHandle
      /\ np[t].alloc \in Seq(Addresses) /\ handed[t] \in Seq(Returned)
  BY PathAssumption, Fields DEF PathInv, TypeOK
<1> USE DEF UsesVisible
<1>1. SUFFICES ASSUME np'[t].open, ~UsesVisible(t)'
               PROVE  /\ Len(handed'[t]) = Len(np'[t].alloc)
                      /\ \A i \in DOMAIN handed'[t] :
                            /\ handed'[t][i].at = np'[t].alloc[i]
                            /\ handed'[t][i].entry = copies'[np'[t].alloc[i]]
  BY DEF Listed
<1>2. ASSUME ~UsesVisible(t), np[t].open, np'[t].alloc = np[t].alloc, handed'[t] = handed[t]
      PROVE  /\ Len(handed'[t]) = Len(np'[t].alloc)
             /\ \A i \in DOMAIN handed'[t] :
                   /\ handed'[t][i].at = np'[t].alloc[i]
                   /\ handed'[t][i].entry = copies'[np'[t].alloc[i]]
  <2>1. pc[t] # "free"
    BY <1>0, <1>2 DEF Phase
  <2>2. DOMAIN handed[t] = DOMAIN np[t].alloc
    BY <1>0, <1>2 DEF Listed
  <2>3. \A i \in DOMAIN np[t].alloc : copies'[np[t].alloc[i]] = copies[np[t].alloc[i]]
    BY <2>1, CopyStays
  <2> QED
    BY <1>0, <1>2, <2>2, <2>3 DEF Listed
<1>3. CASE UNCHANGED <<np[t], handed[t]>>
  BY <1>1, <1>2, <1>3
<1>4. CASE SetList(t)
  <2>1. np'[t].alloc = << >> /\ handed'[t] = << >>
    BY <1>0, <1>4 DEF SetList, NoNp, Phase
  <2> QED
    BY <2>1
<1>5. CASE SetNetconfig(t)
  <2>1. UNCHANGED <<np[t], handed[t]>>
    BY <1>0, <1>1, <1>5 DEF SetNetconfig, NoNp
  <2> QED
    BY <1>3, <2>1
<1>6. CASE NextVisible(t)
  <2>1. UsesVisible(t)
    BY <1>0, <1>6 DEF NextVisible, Phase
  <2>2. np'[t].nc_handle = np[t].nc_handle
    BY <1>0, <1>6, OwnHandle
  <2> QED
    BY <1>1, <2>1, <2>2
<1>7. CASE NextToken(t)
  <2>1. np'[t].alloc = np[t].alloc /\ np'[t].nc_handle = np[t].nc_handle
    BY <1>0, <1>7, OwnList, OwnHandle
  <2>2. np[t].open /\ handed'[t] = handed[t]
    BY <1>0, <1>7 DEF NextToken, Phase
  <2> QED
    BY <1>1, <1>2, <2>1, <2>2
<1>8. CASE TrackEntry(t)
  <2>0. np[t].open /\ ~UsesVisible(t) /\ pc[t] # "free" /\ hand[t] \in Addresses
    BY <1>0, <1>8, Fields DEF TrackEntry, Phase
  <2>1. CASE UNCHANGED <<np, handed>>
    BY <1>2, <2>0, <2>1
  <2>2. CASE /\ np' = [np EXCEPT ![t].alloc = Append(@, hand[t])]
             /\ HandOut(t, hand[t], copies[hand[t]])
             /\ UNCHANGED copies
    <3> DEFINE r == [at |-> hand[t], entry |-> copies[hand[t]]]
    <3>1. np'[t].alloc = Append(np[t].alloc, hand[t]) /\ handed'[t] = Append(handed[t], r)
      BY <1>0, <2>2 DEF HandOut, NpHandle
    <3>2. r.at = hand[t] /\ r.entry = copies[hand[t]] /\ copies' = copies
      BY <2>2
    <3> HIDE DEF r
    <3>3. /\ Len(handed[t]) = Len(np[t].alloc) /\ Len(handed[t]) \in Nat
          /\ \A i \in 1..Len(handed[t]) : /\ handed[t][i].at = np[t].alloc[i]
                                          /\ handed[t][i].entry = copies[np[t].alloc[i]]
      BY <1>0, <2>0 DEF Listed
    <3>4. /\ Len(handed'[t]) = Len(handed[t]) + 1 /\ Len(np'[t].alloc) = Len(handed[t]) + 1
          /\ DOMAIN handed'[t] = 1..(Len(handed[t]) + 1)
          /\ \A i \in 1..Len(handed[t]) : /\ handed'[t][i] = handed[t][i]
                                          /\ np'[t].alloc[i] = np[t].alloc[i]
          /\ handed'[t][Len(handed[t]) + 1] = r
          /\ np'[t].alloc[Len(handed[t]) + 1] = hand[t]
      BY <1>0, <2>0, <3>1, <3>3
    <3>5. \A i \in 1..(Len(handed[t]) + 1) : i \in 1..Len(handed[t]) \/ i = Len(handed[t]) + 1
      BY <3>3
    <3> QED
      BY <3>2, <3>3, <3>4, <3>5
  <2> QED
    BY <1>8, <2>1, <2>2 DEF TrackEntry
<1>9. CASE EndCall(t)
  BY <1>0, <1>1, <1>9 DEF EndCall, NpHandle
<1>10. CASE EndNetconfig(t)
  BY <1>0, <1>1, <1>10 DEF EndNetconfig, Phase, NpHandle
<1>11. CASE EndFree(t)
  <2>1. ~np'[t].open
    <3>1. ~np[t].open
      BY <1>0, <1>11 DEF EndFree, Phase
    <3>2. CASE np[t].alloc = << >>
      BY <1>0, <1>11, <3>2 DEF EndFree, NoNp
    <3>3. CASE np[t].alloc # << >>
      BY <1>0, <1>11, <3>1, <3>3 DEF EndFree, NpHandle
    <3> QED
      BY <3>2, <3>3
  <2> QED
    BY <1>1, <2>1
<1> QED
  BY <1>0, <1>3, <1>4, <1>5, <1>6, <1>7, <1>8, <1>9, <1>10, <1>11, OfThread

LEMMA StepWalked ==
    ASSUME PathInv, [Next]_vars, NEW t \in Threads
    PROVE  Walked(t)'
<1>0. /\ TypeOK /\ Phase(t) /\ Walked(t) /\ NullHandle \notin Handles
      /\ np \in [Threads -> NpHandle] /\ DOMAIN handed = Threads /\ np[t] \in NpHandle
      /\ np[t].index \in Nat /\ handed[t] \in Seq(Returned) /\ db \in Seq(Entry)
  BY PathAssumption, Fields DEF PathInv, TypeOK
<1>1. SUFFICES ASSUME np'[t].open, UsesVisible(t)'
               PROVE  Walked(t)'
  BY DEF Walked
<1>2. UsesVisible(t) => db' = db
  BY <1>1, TableStays
<1>3. ASSUME UsesVisible(t), np[t].open, np'[t].index = np[t].index, handed'[t] = handed[t]
      PROVE  Walked(t)'
  BY <1>0, <1>2, <1>3 DEF Walked
<1>4. CASE UNCHANGED <<np[t], handed[t]>>
  BY <1>1, <1>3, <1>4 DEF UsesVisible
<1>5. CASE SetList(t)
  BY <1>0, <1>1, <1>5 DEF SetList, NoNp, UsesVisible
<1>6. CASE SetNetconfig(t)
  <2>1. handed'[t] = << >> /\ ~np[t].open
    BY <1>0, <1>6 DEF SetNetconfig, Phase
  <2>2. np'[t].index = 0
    BY <1>0, <1>1, <1>6, <2>1, SMTT(20), ZenonT(20) DEF SetNetconfig, NoNp
  <2>3. db' \in Seq(Entry)
    BY StepType DEF TypeOK
  <2> QED
    BY <2>1, <2>2, <2>3 DEF Walked
<1>7. CASE NextVisible(t)
  <2> DEFINE i == np[t].index + 1
  <2>1. UsesVisible(t) /\ np[t].open /\ db' = db
    BY <1>0, <1>2, <1>7 DEF NextVisible, Phase
  <2>0. np[t].nc_handle \in magic /\ db # DB!NotLoaded
    BY <1>0, <2>1, Users DEF PathInv, Refers, HandlesHaveOneUser
  <2>2. CASE i > Len(db)
    BY <1>3, <1>7, <2>1, <2>2 DEF NextVisible
  <2>3. CASE ~(i > Len(db))
    <3>1. np'[t].index = i
      BY <1>0, <1>7, <2>0, <2>3 DEF NextVisible, NpHandle
    <3>2. i \in Nat /\ i <= Len(db) /\ i \in 1..Len(db) /\ Len(db) \in Nat /\ np[t].index < i
      BY <1>0, <2>3
    <3>3. 1..i = 1..np[t].index \union {i}
      BY <1>0
    <3>4. CASE ~db[i].visible
      <4>1. handed'[t] = handed[t]
        BY <1>7, <2>0, <2>3, <3>4 DEF NextVisible
      <4> HIDE DEF i
      <4> QED
        BY <1>0, <2>1, <3>1, <3>2, <3>3, <3>4, <4>1 DEF Walked
    <3>5. CASE db[i].visible
      <4> DEFINE r == [at |-> i, entry |-> db[i]]
      <4>1. handed'[t] = Append(handed[t], r)
        BY <1>0, <1>7, <2>0, <2>3, <3>5 DEF NextVisible, HandOut
      <4>2. r.at = i /\ r.entry = db[i]
        OBVIOUS
      <4>3. PICK n \in Nat : n = Len(handed[t])
        BY <1>0
      <4>4. /\ \A j \in 1..n : /\ handed[t][j].at \in 1..np[t].index
                               /\ handed[t][j].entry = db[handed[t][j].at]
                               /\ handed[t][j].entry.visible
            /\ \A j, k \in 1..n : j < k => handed[t][j].at < handed[t][k].at
            /\ \A k \in 1..np[t].index : db[k].visible => \E j \in 1..n : handed[t][j].at = k
        <5>1. DOMAIN handed[t] = 1..n
          BY <1>0, <4>3
        <5> HIDE DEF i
        <5> QED
          BY <1>0, <2>1, <5>1 DEF Walked
      <4> HIDE DEF r
      <4>5. /\ DOMAIN handed'[t] = 1..(n + 1)
            /\ \A j \in 1..n : handed'[t][j] = handed[t][j]
            /\ handed'[t][n + 1] = r
        BY <1>0, <4>1, <4>3
      <4>6. \A j \in 1..(n + 1) : j \in 1..n \/ j = n + 1
        OBVIOUS
      <4>7. n + 1 \in 1..(n + 1) /\ \A j \in 1..n : j \in 1..(n + 1) /\ j < n + 1 /\ ~(n + 1 < j)
        OBVIOUS
      <4>8. \A k \in 1..np[t].index : k < i /\ k \in 1..i
        BY <1>0
      <4> HIDE DEF i
      <4>9. \A j \in 1..(n + 1) : /\ handed'[t][j].at \in 1..i
                                  /\ handed'[t][j].entry = db[handed'[t][j].at]
                                  /\ handed'[t][j].entry.visible
        BY <3>2, <3>3, <3>5, <4>2, <4>4, <4>5, <4>6
      <4>10. ASSUME NEW j \in 1..(n + 1), NEW k \in 1..(n + 1), j < k
             PROVE  handed'[t][j].at < handed'[t][k].at
        <5>1. j \in 1..n
          BY <4>10
        <5>2. CASE k \in 1..n
          BY <4>4, <4>5, <4>10, <5>1, <5>2
        <5>3. CASE k = n + 1
          <6>1. handed'[t][k].at = i
            BY <4>2, <4>5, <5>3
          <6>2. handed'[t][j].at \in 1..np[t].index
            BY <4>4, <4>5, <5>1
          <6> QED
            BY <4>8, <6>1, <6>2
        <5> QED
          BY <4>6, <5>2, <5>3
      <4>11. ASSUME NEW k \in 1..i, db[k].visible
             PROVE  \E j \in 1..(n + 1) : handed'[t][j].at = k
        <5>1. CASE k = i
          BY <4>2, <4>5, <4>7, <5>1
        <5>2. CASE k \in 1..np[t].index
          <6>1. PICK j \in 1..n : handed[t][j].at = k
            BY <4>4, <4>11, <5>2
          <6> QED
            BY <4>5, <4>7, <6>1
        <5> QED
          BY <3>3, <5>1, <5>2
      <4> QED
        BY <2>1, <3>1, <3>2, <4>5, <4>9, <4>10, <4>11 DEF Walked
    <3> QED
      BY <3>4, <3>5
  <2> QED
    BY <2>2, <2>3
<1>8. CASE NextToken(t) \/ TrackEntry(t)
  <2>1. ~UsesVisible(t)
    BY <1>0, <1>8 DEF NextToken, TrackEntry, Phase
  <2>2. np'[t].nc_handle = np[t].nc_handle
    BY <1>0, <1>8, OwnHandle
  <2> QED
    BY <1>1, <2>1, <2>2 DEF UsesVisible
<1>9. CASE EndCall(t)
  BY <1>0, <1>1, <1>9 DEF EndCall, NpHandle
<1>10. CASE EndNetconfig(t)
  <2>1. np'[t].nc_handle = NullHandle
    <3>1. CASE UsesVisible(t)
      BY <1>0, <1>10, <3>1 DEF EndNetconfig, NpHandle
    <3>2. CASE ~UsesVisible(t)
      BY <1>10, <3>2 DEF EndNetconfig, UsesVisible
    <3> QED
      BY <3>1, <3>2
  <2> QED
    BY <1>1, <2>1 DEF UsesVisible
<1>11. CASE EndFree(t)
  <2>1. np[t].nc_handle = NullHandle
    BY <1>0, <1>11 DEF EndFree, Phase, UsesVisible
  <2>2. np'[t].nc_handle = np[t].nc_handle
    BY <1>0, <1>11, <2>1, OwnHandle
  <2> QED
    BY <1>1, <2>1, <2>2 DEF UsesVisible
<1> QED
  BY <1>0, <1>4, <1>5, <1>6, <1>7, <1>8, <1>9, <1>10, <1>11, OfThread

--------------------------------------------------------------------------------
(* The invariant, and what follows from it.                                *)

LEMMA InitHolds == Init => PathInv
<1> SUFFICES ASSUME Init PROVE PathInv
  OBVIOUS
<1>1. TypeOK
  BY InitType
<1>2. Refers
  <2>1. InUse = {}
    BY DEF Init, InUse, Walking, UsesVisible, NoNp
  <2>2. Cardinality({}) = 0
    BY FS_EmptySet
  <2> QED
    BY <2>1, <2>2 DEF Init, Refers, HandlesHaveOneUser, UsesVisible, NoNp
<1>3. CopiesHaveOneOwner
  <2>1. \A t \in Threads : \A i \in Places(t) : Held(t, i) = NoAddress
    BY DEF Init, NoNp, Places, Held
  <2>2. \A a \in Addresses : copies[a] = NoEntry
    BY DEF Init
  <2> QED
    BY <2>1, <2>2 DEF CopiesHaveOneOwner
<1>4. \A t \in Threads : Phase(t) /\ Listed(t) /\ Walked(t)
  BY DEF Init, NoNp, Phase, Listed, Walked, UsesVisible
<1> QED
  BY <1>1, <1>2, <1>3, <1>4 DEF PathInv

LEMMA StepHolds == PathInv /\ [Next]_vars => PathInv'
<1> SUFFICES ASSUME PathInv, [Next]_vars PROVE PathInv'
  OBVIOUS
<1>1. TypeOK' /\ Refers' /\ CopiesHaveOneOwner'
  BY StepType, StepRefers, StepOwners
<1>2. \A t \in Threads : Phase(t)' /\ Listed(t)' /\ Walked(t)'
  BY StepPhase, StepListed, StepWalked
<1> QED
  BY <1>1, <1>2 DEF PathInv

\* The state of the walks and of the heap is well typed.
THEOREM TypeCorrect == Spec => []TypeOK
<1>1. PathInv => TypeOK
  BY DEF PathInv
<1> QED
  BY InitHolds, StepHolds, <1>1, PTL DEF Spec

\* What getnetpath returned keeps its address and contents until endnetpath, and
\* every copy is on one list or in one hand (lines 99-117, 187-198, 219-227).
THEOREM ReturnedCorrect == Spec => []ReturnedStaysValid
<1>1. PathInv => ReturnedStaysValid
  <2> SUFFICES ASSUME PathInv, NEW t \in Threads, NEW i \in DOMAIN handed[t]
               PROVE  IF UsesVisible(t)
                      THEN /\ handed[t][i].at \in DOMAIN db
                           /\ db[handed[t][i].at] = handed[t][i].entry
                      ELSE copies[handed[t][i].at] = handed[t][i].entry
    BY DEF PathInv, ReturnedStaysValid
  <2>1. TypeOK /\ Phase(t) /\ Listed(t) /\ Walked(t)
    BY DEF PathInv
  <2>2. np[t].open
    BY <2>1, Fields DEF Phase
  <2>3. CASE UsesVisible(t)
    <3>1. /\ handed[t][i].at \in 1..np[t].index /\ np[t].index <= Len(db)
          /\ handed[t][i].entry = db[handed[t][i].at]
      BY <2>1, <2>2, <2>3 DEF Walked
    <3>2. np[t].index \in Nat /\ db \in Seq(Entry)
      BY <2>1, Fields DEF TypeOK
    <3> QED
      BY <2>3, <3>1, <3>2
  <2>4. CASE ~UsesVisible(t)
    BY <2>1, <2>2, <2>4 DEF Listed
  <2> QED
    BY <2>3, <2>4
<1> QED
  BY InitHolds, StepHolds, <1>1, PTL DEF Spec

\* A set of numbers has a least one.
LEMMA LeastNumber ==
    ASSUME NEW T \in SUBSET Nat, T # {}
    PROVE  \E x \in T : \A y \in T : x <= y
<1> DEFINE Intervals == {0..k : k \in T}
           Below == StrictSubsetOrdering(Nat)
<1>1. Intervals \subseteq FiniteSubsetsOf(Nat) /\ Intervals # {}
  <2>1. \A k \in T : 0..k \in SUBSET Nat /\ IsFiniteSet(0..k)
    BY FS_Interval
  <2> QED
    BY <2>1 DEF FiniteSubsetsOf
<1>2. PICK I \in Intervals : \A J \in Intervals : <<J, I>> \notin Below
  <2> HIDE DEF Intervals, Below
  <2>1. IsWellFoundedOn(Below, FiniteSubsetsOf(Nat))
    BY FS_StrictSubsetOrderingWellFounded DEF Below
  <2> QED
    BY <1>1, <2>1, WFMin
<1>3. PICK x \in T : I = 0..x
  BY <1>2
<1>4. ASSUME NEW y \in T PROVE x <= y
  <2>1. <<0..y, 0..x>> \notin Below
    BY <1>2, <1>3
  <2>2. 0..y \in SUBSET Nat /\ 0..x \in SUBSET Nat
    OBVIOUS
  <2>3. CASE y < x
    <3>1. 0..y \subseteq 0..x /\ 0..y # 0..x
      BY <2>3
    <3> QED
      BY <2>1, <2>2, <3>1 DEF StrictSubsetOrdering
  <2> QED
    BY <2>3
<1> QED
  BY <1>4

\* A name that occurs in the table has a first place there.
LEMMA NoFirstNoName ==
    ASSUME TypeOK, NEW name, First(name) = {}
    PROVE  name \notin Names(db)
<1>1. db \in Seq(Entry) /\ Len(db) \in Nat
  BY DEF TypeOK
<1> DEFINE Named == {i \in 1..Len(db) : db[i].nc_netid = name}
<1>2. SUFFICES ASSUME Named # {} PROVE FALSE
  BY <1>1 DEF Names
<1>3. PICK i \in Named : \A j \in Named : i <= j
  <2>1. Named \subseteq Nat /\ Named # {}
    BY <1>1, <1>2
  <2> HIDE DEF Named
  <2> QED
    BY <2>1, LeastNumber
<1>4. i \in DOMAIN db /\ \A j \in 1..(i - 1) : db[j].nc_netid # name
  BY <1>1, <1>3
<1> QED
  BY <1>3, <1>4 DEF First

\* A walk misses no visible network, and a name is passed over only when a loaded
\* table does not have it (lines 163-173, 183-189).
THEOREM SkippedCorrect == Spec => OnlyAbsentIsSkipped
<1>1. PathInv => VisibleWalkIsComplete
  BY DEF PathInv, Walked, VisibleWalkIsComplete
<1>2. PathInv /\ [Next]_vars =>
        [\A t \in Threads :
             pc[t] = "lookup" /\ pc'[t] = "next"
                 => db # DB!NotLoaded /\ token[t] \notin Names(db)]_vars
  <2> SUFFICES ASSUME PathInv, Next, NEW t \in Threads, pc[t] = "lookup", pc'[t] = "next"
               PROVE  db # DB!NotLoaded /\ token[t] \notin Names(db)
    OBVIOUS
  <2>0. DOMAIN pc = Threads
    BY DEF PathInv, TypeOK
  <2>1. pc' # pc
    OBVIOUS
  <2>2. \E u \in Threads :
            \/ SetVisible(u) \/ GetCall(u) \/ EndCall(u) \/ SetNetconfig(u) \/ NextVisible(u)
            \/ NextToken(u) \/ Lookup(u) \/ TrackEntry(u) \/ EndNetconfig(u) \/ EndFree(u)
    BY <2>1 DEF Next, Step, OthersLoad, OthersOpen, OthersClose, SetNoMemory, SetList, GetNoHandle
  <2>3. PICK u \in Threads :
            \/ SetVisible(u) \/ GetCall(u) \/ EndCall(u) \/ SetNetconfig(u) \/ NextVisible(u)
            \/ NextToken(u) \/ Lookup(u) \/ TrackEntry(u) \/ EndNetconfig(u) \/ EndFree(u)
    BY <2>2
  <2>4. \/ pc' = pc \/ \E label : pc' = [pc EXCEPT ![u] = label]
    BY <2>3 DEF SetVisible, GetCall, EndCall, SetNetconfig, NextVisible, NextToken, Lookup,
       TrackEntry, EndNetconfig, EndFree, Goto
  <2>5. u = t
    BY <2>0, <2>1, <2>4
  <2>6. Lookup(t)
    BY <2>3, <2>5 DEF SetVisible, GetCall, EndCall, SetNetconfig, NextVisible, NextToken,
       TrackEntry, EndNetconfig, EndFree
  <2>7. PICK e \in Errors : Getnetconfigent(t, token[t], e) /\ hand'[t] = NoAddress /\ e = "NOTFOUND"
    <3>1. ASSUME NEW label, Goto(t, label) PROVE label = "next"
      BY <2>0, <3>1 DEF Goto
    <3> QED
      BY <2>6, <3>1 DEF Lookup
  <2>8. hand[t] = NoAddress /\ hand \in [Threads -> Addresses \union {NoAddress}]
    BY DEF PathInv, TypeOK, Phase
  <2>9. db # DB!NotLoaded /\ First(token[t]) = {}
    BY <2>7, <2>8, PathAssumption DEF Getnetconfigent, LoadErrors
  <2> QED
    BY <2>9, NoFirstNoName DEF PathInv
<1> QED
  BY InitHolds, StepHolds, <1>1, <1>2, PTL DEF Spec, OnlyAbsentIsSkipped

\* For any number of walks and other users: every handle that is open is held by
\* one of them and counted, and the table is loaded, kept and dropped as the
\* handles they hold require (lines 132-141, 164-174, 214-217).
THEOREM DatabaseCorrect == Spec => UsesDatabaseByItsRules
<1> USE DEF DB!NotLoaded
<1>1. Init => DB!DBInit
  BY DEF Init, DB!DBInit, InUse, Walking, UsesVisible, NoNp
<1>2. PathInv /\ [Next]_vars => [DB!DBNext]_(DB!dbvars)
  <2> SUFFICES ASSUME PathInv, [Next]_vars PROVE DB!DBNext \/ UNCHANGED <<db, InUse>>
    BY DEF DB!dbvars
  <2>1. Opens \/ Closes \/ Fills \/ Rests
    BY StepRefers
  <2>2. InUse \subseteq Handles
    BY DEF PathInv, TypeOK, Refers, HandlesHaveOneUser
  <2>3. CASE Opens
    BY <2>3 DEF Opens, DB!DBNext, DB!Open
  <2>4. CASE Closes
    BY <2>2, <2>4 DEF Closes, DB!DBNext, DB!Close
  <2>5. CASE Fills
    BY <2>5, PathAssumption DEF Fills, DB!DBNext, DB!Load, DB!Tables
  <2> QED
    BY <2>1, <2>3, <2>4, <2>5 DEF Rests
<1>3. PathInv =>
        /\ magic = InUse /\ count = Cardinality(magic)
        /\ \A t \in Threads : UsesVisible(t) =>
              /\ np[t].nc_handle \notin others
              /\ \A u \in Threads : np[u].nc_handle = np[t].nc_handle => u = t
  BY DEF PathInv, Refers, HandlesHaveOneUser
<1> QED
  BY InitHolds, StepHolds, <1>1, <1>2, <1>3, PTL DEF Spec, UsesDatabaseByItsRules, DB!DBSpec
================================================================================
