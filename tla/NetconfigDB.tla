------------------------------ MODULE NetconfigDB ------------------------------
(***************************************************************************)
(* What getnetconfig.c promises about the network configuration database: *)
(* a table that is loaded whole, on demand, and that stays exactly as it   *)
(* was loaded for as long as one handle refers to it.  Callers keep bare   *)
(* pointers into the table (getnetconfig returns &g_entries[i]), so this   *)
(* promise is what makes those pointers safe.                              *)
(*                                                                         *)
(* db   the loaded table, or the empty sequence when nothing is loaded.    *)
(* refs the handles that hold a reference to it.                           *)
(***************************************************************************)
EXTENDS Sequences

CONSTANTS Handles,      \* the handles setnetconfig can return
          Entry         \* the struct netconfig values a table can hold

VARIABLES db, refs

dbvars == <<db, refs>>

NotLoaded == << >>

Tables == Seq(Entry) \ {NotLoaded}

DBInit == db = NotLoaded /\ refs = {}

\* A table is loaded only when none is, and then all at once.
Load ==
    /\ db = NotLoaded
    /\ db' \in Tables
    /\ UNCHANGED refs

\* setnetconfig succeeds: one more handle refers to the loaded table.
Open(h) ==
    /\ db # NotLoaded
    /\ h \in Handles \ refs
    /\ refs' = refs \union {h}
    /\ UNCHANGED db

\* endnetconfig: the table goes away with the last handle.
Close(h) ==
    /\ h \in refs
    /\ refs' = refs \ {h}
    /\ db' = IF refs' = {} THEN NotLoaded ELSE db

DBNext ==
    \/ Load
    \/ \E h \in Handles : Open(h) \/ Close(h)

DBSpec == DBInit /\ [][DBNext]_dbvars

--------------------------------------------------------------------------------
(* A referenced database is loaded, and does not change while referenced.  *)
ReferencedIsLoaded == refs # {} => db # NotLoaded

StableWhileReferenced == [][refs # {} /\ refs' # {} => db' = db]_dbvars
================================================================================
