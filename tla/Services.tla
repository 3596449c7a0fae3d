---------------------------------- MODULE Services ----------------------------------
(***************************************************************************)
(* The services file: netdb/servent_r.c walks through it line by line with *)
(* a struct servent_data of the caller, musl/network/lookup_serv.c looks a *)
(* name up in it, and netdb/getservbyname_r.c and getservbyport_r.c put    *)
(* what was found into the buffer of the caller.                           *)
(*                                                                         *)
(* A line is what the parsers can tell of it: its words, and what its      *)
(* second word says of a port and a protocol; a line without a name is a   *)
(* comment or empty, and one whose port is NoPort has none that is a       *)
(* number followed by a comma or a slash.                                  *)
(***************************************************************************)
EXTENDS Integers, Sequences, SequencesExt, FiniteSets

CONSTANTS
    Files,          \* what the file may hold
    Numerals,       \* the names that are numbers, with their values
    Asked,          \* the names that are looked up
    MallocPlaces,   \* where malloc may put a block
    FirstAliases,   \* how many aliases the vector has room for at first, and one NULL
    PointerSize, MaxBuflen      \* the buffers of getservbyname_r

NoPort == -1
NoName == ""
Protos == {"tcp", "udp", "udplite", "sctp"}

\* Assumed by the module of the containers.
Ports == 0..65535 \union {NoPort}
Marks == {"slash", "comma"}
Lines == [name : STRING, word : STRING, port : Ports, mark : Marks, proto : Protos,
          aliases : Seq(STRING)]
ServicesAssumption ==
    /\ Files \subseteq Seq(Lines)
    /\ FirstAliases \in Nat \ {0, 1} /\ PointerSize \in Nat \ {0} /\ MaxBuflen \in Nat
    /\ 0 \notin MallocPlaces /\ Cardinality(MallocPlaces) >= 3

VARIABLES
    file,
    sd,             \* struct servent_data: fp is the number of lines read, aliases
                    \* and line are addresses
    se,             \* struct servent; the words of s_name and so on are in the line
    at, alias,      \* where the call is, and which alias is next
    held,           \* of the block of the line: which line it holds
    cells,          \* of the block of the aliases: the alias each cell points to
    live,           \* the blocks that are allocated
    result, since   \* of the last call: what it returned and where it began (history)

services == <<file, sd, se, at, alias, held, cells, live, result, since>>

NULL == 0
Closed == -1
NoData == [fp |-> Closed, aliases |-> NULL, maxaliases |-> 0, stayopen |-> FALSE, line |-> NULL]
NoEntry == [s_name |-> NULL, s_aliases |-> NULL, s_port |-> NoPort, s_proto |-> NULL]

ServicesInit ==
    /\ file \in Files
    /\ sd = NoData /\ se = NoEntry /\ at = "idle" /\ alias = 1
    /\ held = 0 /\ cells = << >> /\ live = {}
    /\ result = 0 /\ since = 0

--------------------------------------------------------------------------------
(* servent_r.c                                                             *)

IsEntry(n) == file[n].name # NoName /\ file[n].port # NoPort
Aliases(n) == file[n].aliases

\* realloc(p): the block that was at p is somewhere else, or where it was.
Places(p) == (MallocPlaces \ live) \union ({p} \ {NULL})
Given(p, q) == live' = (live \ {p}) \union {q}

Returns(value) == at' = "idle" /\ result' = value

\* endservent_r
Ended == sd' = NoData /\ live' = live \ {sd.aliases, sd.line} /\ cells' = << >> /\ held' = 0

endservent_r ==
    /\ at = "idle" /\ Ended /\ result' = -1
    /\ UNCHANGED <<file, alias, se, at, since>>

\* fopen may fail.
setservent_r ==
    /\ at = "idle" /\ result' = -1
    /\ \E stay \in BOOLEAN, fp \in IF sd.fp = Closed THEN {Closed, 0} ELSE {0} :
          sd' = [sd EXCEPT !.fp = fp, !.stayopen = @ \/ stay]
    /\ UNCHANGED <<file, alias, se, at, held, cells, live, since>>

\* getservent_r begins, with the file open or not.
getservent_r ==
    /\ at = "idle"
    /\ \/ at' = "again" /\ sd' = [sd EXCEPT !.fp = IF @ = Closed THEN 0 ELSE @]
          /\ UNCHANGED result
       \/ sd.fp = Closed /\ Returns(-1) /\ UNCHANGED sd
    /\ since' = IF sd.fp = Closed THEN 0 ELSE sd.fp
    /\ UNCHANGED <<file, alias, se, held, cells, live>>

\* The end of the file, a read error, a line that is empty or a comment.
SkipLine ==
    /\ at = "again"
    /\ \/ Returns(-1) /\ UNCHANGED sd
       \/ /\ sd.fp < Len(file) /\ file[sd.fp + 1].name = NoName
          /\ sd' = [sd EXCEPT !.fp = @ + 1]
          /\ UNCHANGED <<at, result>>
    /\ UNCHANGED <<file, alias, se, held, cells, live, since>>

\* A line with a name takes the place of the one before; its words are cut in
\* place, as far as they can be.
TakeLine ==
    /\ at = "again" /\ sd.fp < Len(file) /\ file[sd.fp + 1].name # NoName
    /\ \E q \in Places(sd.line) :
          /\ Given(sd.line, q)
          /\ sd' = [sd EXCEPT !.fp = @ + 1, !.line = q]
          /\ held' = sd.fp + 1
          /\ IF IsEntry(held')
             THEN /\ se' = [se EXCEPT !.s_name = q, !.s_port = file[held'].port, !.s_proto = q]
                  /\ at' = "aliases"
             ELSE se' = [se EXCEPT !.s_name = q] /\ UNCHANGED at
    /\ UNCHANGED <<file, alias, cells, result, since>>

\* No memory for it: the line is gone, the one before stays.
TakeLineFails ==
    /\ at = "again" /\ sd.fp < Len(file) /\ file[sd.fp + 1].name # NoName
    /\ sd' = [sd EXCEPT !.fp = @ + 1]
    /\ Returns(-1)
    /\ UNCHANGED <<file, alias, se, held, cells, live, since>>

\* calloc of the vector, or the one of the last call.
FirstCells ==
    /\ at = "aliases"
    /\ \E q \in IF sd.aliases = NULL THEN Places(NULL) ELSE {sd.aliases} :
          /\ Given(sd.aliases, q)
          /\ sd' = [sd EXCEPT !.aliases = q,
                              !.maxaliases = IF sd.aliases = NULL THEN FirstAliases ELSE @]
          /\ se' = [se EXCEPT !.s_aliases = q]
          /\ cells' = IF sd.aliases = NULL THEN << >> ELSE cells
    /\ at' = "cells" /\ alias' = 1
    /\ UNCHANGED <<file, held, result, since>>

MoreAliases == at = "cells" /\ alias <= Len(Aliases(held))

\* What is in the vector when cell i is written.
With(i, value) == [c \in 1..Max({i, Len(cells)}) |-> IF c = i THEN value ELSE cells[c]]

PutAlias ==
    /\ MoreAliases /\ alias # sd.maxaliases
    /\ cells' = With(alias, alias)
    /\ alias' = alias + 1
    /\ UNCHANGED <<file, sd, se, at, held, live, result, since>>

\* Mutant of GrowCells: the entry keeps the vector of before.
GrowCellsOnly ==
    /\ MoreAliases /\ alias = sd.maxaliases
    /\ \E q \in Places(sd.aliases) :
          /\ Given(sd.aliases, q)
          /\ sd' = [sd EXCEPT !.aliases = q, !.maxaliases = 2 * @]
    /\ UNCHANGED <<file, alias, se, at, held, cells, result, since>>

\* The last cell is for the NULL.
GrowCells ==
    /\ MoreAliases /\ alias = sd.maxaliases
    /\ \E q \in Places(sd.aliases) :
          /\ Given(sd.aliases, q)
          /\ sd' = [sd EXCEPT !.aliases = q, !.maxaliases = 2 * @]
          /\ se' = [se EXCEPT !.s_aliases = q]
    /\ UNCHANGED <<file, alias, at, held, cells, result, since>>

\* No memory for the vector, at first or later: everything is given up.
CellsFail ==
    /\ \/ at = "aliases" /\ sd.aliases = NULL
       \/ MoreAliases /\ alias = sd.maxaliases
    /\ Ended /\ Returns(-1)
    /\ UNCHANGED <<file, alias, se, since>>

LastAlias ==
    /\ at = "cells" /\ alias > Len(Aliases(held))
    /\ cells' = With(alias, NULL)
    /\ Returns(0)
    /\ UNCHANGED <<file, alias, sd, se, held, live, since>>

ServicesNext ==
    \/ endservent_r \/ setservent_r \/ getservent_r
    \/ SkipLine \/ TakeLine \/ TakeLineFails
    \/ FirstCells \/ PutAlias \/ GrowCells \/ CellsFail \/ LastAlias

--------------------------------------------------------------------------------
(* lookup_serv.c, getservbyname_r.c and getservbyport_r.c                  *)

MAXSERVS == 2
AnyProto == "any"                       \* proto is 0

\* The protocol is told by the first letters behind the slash; a line with another
\* one adds nothing.
Told == [tcp |-> "tcp", udp |-> "udp", udplite |-> "udp"]
ProtoOf(n) == Told[file[n].proto]

\* A line that is looked at without having been parsed before: any word of it may
\* be the name.
Words(n) == {file[n].name, file[n].word} \union ToSet(Aliases(n))
Hit(n, name, proto) ==
    /\ file[n].name # NoName /\ name \in Words(n)
    /\ file[n].port # NoPort /\ file[n].mark = "slash"
    /\ file[n].proto \in DOMAIN Told /\ proto \in {AnyProto, ProtoOf(n)}

Service(port, proto) == [port |-> port, proto |-> proto]

\* __lookup_serv, of a file that can be opened.
LookupServ(name, proto) ==
    IF name \in DOMAIN Numerals
    THEN LET both == <<Service(Numerals[name], "tcp"), Service(Numerals[name], "udp")>>
         IN  IF Numerals[name] > 65535 THEN << >>
             ELSE SelectSeq(both, LAMBDA s : proto \in {AnyProto, s.proto})
    ELSE LET buf[n \in 0..Len(file)] ==
                 IF n = 0 THEN << >>
                 ELSE LET before == buf[n - 1]
                      IN  IF Len(before) < MAXSERVS /\ Hit(n, name, proto)
                          THEN Append(before, Service(file[n].port, ProtoOf(n))) ELSE before
         IN  buf[Len(file)]

Fails(rc) == [rc |-> rc]
\* What buf is used for lies between s_aliases and end.
Found(service, aliases, end) ==
    [rc |-> "ok", service |-> service, s_aliases |-> aliases, end |-> end]

\* getservbyname_r: s_name is the name of the caller, the aliases are in buf.
ByName(name, prots, buf, buflen) ==
    LET align == (-buf) % PointerSize
        servs == LookupServ(name, prots)
    IN  IF buflen < 2 * PointerSize + align THEN Fails("ERANGE")
        ELSE IF prots \notin {AnyProto, "tcp", "udp"} THEN Fails("EINVAL")
        ELSE IF servs = << >> THEN Fails("ENOENT")
        ELSE Found(servs[1], buf + align, buf + align + 2 * PointerSize)

\* getservbyport_r for one protocol, or for any: tcp, and else udp.  The name
\* is written behind the aliases, into what is left of buf; nameinfo says what
\* getnameinfo answers for each protocol: a name, a number or a failure.
ByPortAndProto(port, proto, buf, buflen, nameinfo) ==
    LET i == IF buf % PointerSize = 0 THEN PointerSize ELSE buf % PointerSize
        to == buf + (PointerSize - i)
    IN  IF buflen < 3 * PointerSize - i THEN Fails("ERANGE")
        ELSE IF proto \notin {"tcp", "udp"} THEN Fails("EINVAL")
        ELSE IF nameinfo # "name" THEN Fails("ENOENT")
        ELSE Found(Service(port, proto), to, buf + buflen)

ByPort(port, prots, buf, buflen, nameinfo) ==
    LET tcp == ByPortAndProto(port, "tcp", buf, buflen, nameinfo["tcp"])
    IN  IF prots # AnyProto THEN ByPortAndProto(port, prots, buf, buflen, nameinfo[prots])
        ELSE IF tcp.rc = "ok" THEN tcp
        ELSE ByPortAndProto(port, "udp", buf, buflen, nameinfo["udp"])

--------------------------------------------------------------------------------
(* What must hold.                                                         *)

\* An entry that was returned is the first well-formed line behind those of the
\* call before, whole: its words are those of the block that sd holds, its
\* aliases are all there, in order and before a NULL that is inside the vector.
EntryIsItsLine ==
    at = "idle" /\ result = 0 /\ since < sd.fp =>
        /\ IsEntry(sd.fp) /\ held = sd.fp
        /\ \A n \in (since + 1)..(sd.fp - 1) : ~IsEntry(n)
        /\ {se.s_name, se.s_proto} = {sd.line} /\ se.s_port = file[held].port
        /\ se.s_aliases = sd.aliases
        /\ LET last == Len(Aliases(held)) + 1 IN
           /\ cells[last] = NULL /\ \A i \in 1..(last - 1) : cells[i] = i

\* What is in memory is what sd leads to, so endservent_r leaves nothing.
NothingLost ==
    /\ live = {sd.line, sd.aliases} \ {NULL}
    /\ Len(cells) <= sd.maxaliases

\* The words for a protocol.
WordsFor == [any |-> {"tcp", "udp", "udplite"}, tcp |-> {"tcp"}, udp |-> {"udp", "udplite"}]
PortWords == {file[n].word : n \in DOMAIN file}

\* A name that is looked up, and is not what stands for a port, leads to the first
\* entry of the walk that has it, for a protocol asked for and behind a slash.
NameIsInFile ==
    \A name \in (Asked \ DOMAIN Numerals) \ PortWords, proto \in {AnyProto, "tcp", "udp"} :
        LET mine == {n \in DOMAIN file :
                        /\ IsEntry(n) /\ file[n].mark = "slash"
                        /\ name = file[n].name \/ name \in ToSet(Aliases(n))
                        /\ file[n].proto \in WordsFor[proto]}
            servs == LookupServ(name, proto)
            first == file[Min(mine)]
        IN  /\ servs = << >> <=> mine = {}
            /\ mine # {} => servs[1] = Service(first.port, IF first.proto = "tcp" THEN "tcp" ELSE "udp")

\* The buffer of the caller holds what the entry points to, at any address.
BufferIsEnough ==
    \A buf \in 0..(PointerSize - 1), buflen \in 0..MaxBuflen, name \in Asked :
        \A found \in {ByName(name, AnyProto, buf, buflen),
                     ByPort(1, AnyProto, buf, buflen, [tcp |-> "number", udp |-> "name"])} :
            found.rc = "ok" => /\ found.s_aliases % PointerSize = 0
                               /\ found.s_aliases >= buf
                               /\ found.s_aliases + 2 * PointerSize <= found.end
                               /\ found.end <= buf + buflen

\* The walk, the search for a name and the buffers of the callers agree with the
\* file and stay inside their memory, whatever fails on the way (servent_r.c
\* lines 44-119, lookup_serv.c lines 48-79, getservbyname_r.c lines 26-53).
ServicesAreTheFile ==
    /\ EntryIsItsLine /\ NothingLost
    /\ sd = NoData => NameIsInFile /\ BufferIsEnough
================================================================================
