------------------------------- MODULE MCNetpath -------------------------------
(* Netpath with small constants. *)
EXTENDS Netpath, TLC

CONSTANTS t1, t2, h1, h2, a1, a2

MCThreads == {t1, t2}
MCHandles == {h1, h2}
MCAddresses == {a1, a2}
MCNetids == {"tcp", "udp", "raw"}

E(n, v) == [nc_netid |-> n, visible |-> v]

\* Two tables: with an invisible entry between visible ones and with a netid
\* that occurs twice; and with one entry.
MCLoads == { <<E("tcp", TRUE), E("raw", FALSE), E("tcp", FALSE)>>, <<E("udp", TRUE)>> }

\* NETPATH unset; with an absent netid, an empty token and a repeated one.
MCPaths == { << >>, <<"udp", "tcp">>, <<"", "raw", "raw">> }

Symmetry == Permutations(MCThreads) \union Permutations(MCHandles)
            \union Permutations(MCAddresses)
================================================================================
