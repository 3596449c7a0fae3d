------------------------------- MODULE MCContainers -------------------------------
(* Obstack in a memory of a few chunks of four bytes that may touch, the   *)
(* first byte the header; Hsearch with keys that collide in both hashes, a *)
(* pair of them with the same value, in tables of 3, 5 and 11 buckets, and *)
(* a size for which there is no prime; Argz with strings that are empty,   *)
(* all delimiters, and one part of another; Dynarray with a scratch buffer *)
(* of one element and sizes that end at the fifth growth; NodeSet with     *)
(* four nodes; Services with files of entries, broken lines and comments,  *)
(* names that come twice, and more aliases than there is room for.         *)
EXTENDS Containers, SequencesExt, TLC

\* The values 1, 9, 30, 51, 72 and 30, of an unsigned int of eight bits.
MCKeys == {<< >>, <<-7>>, <<14>>, <<35>>, <<56>>, <<14, 1>>}
MCStrings == {<< >>, <<"a">>, <<":">>, <<"b", "a">>, <<"a", ":">>, <<":", ":", "b">>}
MCAhead == {<< >>, <<"a">>}

\* Every set of nodes.
MCSources == {SetToSortSeq(subset, <) : subset \in SUBSET Nodes}

Line(name, word, port, mark, proto, aliases) ==
    [name |-> name, word |-> word, port |-> port, mark |-> mark, proto |-> proto,
     aliases |-> aliases]
Comment == Line("", "", -1, "slash", "tcp", << >>)
Www == Line("www", "80/tcp", 80, "slash", "tcp", <<"http", "web", "w3", "h">>)
MCFiles == {
    << >>,
    <<Comment, Line("www", "80/sctp", 80, "slash", "sctp", <<"web">>), Www,
      Line("dns", "53/udp", 53, "slash", "udp", << >>)>>,
    <<Line("dns", "53/tcp", 53, "slash", "tcp", << >>),
      Line("dns", "53/udp", 53, "slash", "udp", <<"web">>), Www>>,
    <<Line("web", "x/tcp", -1, "slash", "tcp", <<"http">>),
      Line("web", "8,tcp", 8, "comma", "tcp", <<"http">>), Www>>,
    <<Line("web", "9/udplite", 9, "slash", "udplite", <<"a", "b">>), Comment, Www,
      Line("http", "81/udp", 81, "slash", "udp", <<"w3", "www">>)>> }
MCNumerals == "80" :> 80 @@ "70000" :> 70000
MCAsked == {"www", "web", "http", "dns", "80/tcp", "80", "70000", "none"}
================================================================================
