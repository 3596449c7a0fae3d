---------------------------------- MODULE Argv ----------------------------------
(***************************************************************************)
(* A program that scans its command line and then sets its title: the two  *)
(* parts of the library that rearrange argv, one after the other on the    *)
(* same vector.  unistd/getopt.c permutes the pointers; the strings stay   *)
(* where the kernel put them, so that gen/setproctitle.c finds argv in an  *)
(* order that is not the one of the addresses.                             *)
(***************************************************************************)
EXTENDS Getopt, Setproctitle

allvars == <<vars, sptvars>>

\* Where the strings lie is not looked at before the scan is over.
ProgramInit == Init /\ SptInit /\ layout = (CHOOSE block \in Layouts : TRUE)

Scan == Next /\ UNCHANGED sptvars

\* The block as argv leads to it once the scan has permuted it.
Permuted(block) ==
    [j \in DOMAIN block.args |-> block.args[IF j = 1 THEN 1 ELSE argv[j - 1].id + 1]]

\* The program has what it wanted of its command line, and forgets the scan.
BeginTitles ==
    /\ pc = "done"
    /\ \E block \in Layouts :
          /\ Len(block.args) = Argc
          /\ layout' = [block EXCEPT !.args = Permuted(block)]
          /\ NSArgv' = layout'.args /\ environ' = block.envs
    /\ pc' = "titles"
    /\ argv' = << >> /\ orig' = << >> /\ returns' = << >> /\ earlier' = << >>
    /\ ordering' = "PERMUTE" /\ long_only' = FALSE /\ scans' = 0 /\ nextchar' = << >>
    /\ optind' = 1 /\ first_nonopt' = 1 /\ last_nonopt' = 1
    /\ bottom' = 1 /\ middle' = 1 /\ top' = 1
    /\ UNCHANGED <<overwritten, title, spt_lock, spt_space_init, spt_start, spt_space_len,
                   spt_progname, obuf, buf, envp, last, spt_pc, fmt, i, ret, fast, fast_update>>

SetTitles == pc = "titles" /\ SptNext /\ UNCHANGED vars

ProgramNext == Scan \/ BeginTitles \/ SetTitles
ProgramSpec == ProgramInit /\ [][ProgramNext]_allvars
================================================================================
