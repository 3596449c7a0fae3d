--------------------------------- MODULE Containers ---------------------------------
(***************************************************************************)
(* All the containers of the library: those of Stores, and string vectors  *)
(* (argz/).  A behaviour is the life of one of them.                       *)
(***************************************************************************)
EXTENDS Stores

CONSTANTS Strings, Delim, Ahead, MaxArgc, MaxLen

VARIABLES argz, argz_len, entries, astray

vector == <<argz, argz_len, entries, astray>>

Z == INSTANCE Argz

ASSUME ContainerAssumption == Z!StringAssumption

Init ==
    /\ container \in {"obstack", "hsearch", "argz", "dynarray", "re_node_set", "services"}
    /\ StoreInit /\ Z!ArgzInit

UseArgz ==
    container = "argz" /\ Z!ArgzNext /\ UNCHANGED storevars

Next == \/ StoreNext /\ UNCHANGED vector
        \/ UseArgz

Spec == Init /\ [][Next]_<<storevars, vector>>

--------------------------------------------------------------------------------
(* What must hold of each; the modules say it in full.                     *)

\* Argz: the block is that of the strings, in order.
VectorIsItsStrings == Z!VectorIsItsStrings
================================================================================
