------------------------------ MODULE MCNetconfig ------------------------------
(* Netconfig with small constants. *)
EXTENDS Netconfig, TLC

CONSTANTS t1, t2, h1, h2

MCThreads == {t1, t2}
MCHandles == {h1, h2}

MCFileNetids == {"net"}

MCLine(k, n) == [kind |-> k, entry |-> [nc_netid |-> n, visible |-> TRUE]]

\* A file with a comment and one entry, a file with a malformed line after an
\* entry, and an empty file.
MCFiles == { <<MCLine("comment", "net"), MCLine("entry", "net")>>,
             <<MCLine("entry", "net"), MCLine("malformed", "net")>>,
             << >> }

Symmetry == Permutations(MCThreads) \union Permutations(MCHandles)
================================================================================
