------------------------------ MODULE Setproctitle ------------------------------
(***************************************************************************)
(* gen/setproctitle.c: the title of the process is written over the block  *)
(* in which the kernel put the strings of argv and environ, after both     *)
(* were moved to the heap.  Every allocation on the way can fail, and a    *)
(* call that failed is tried again by the next.                            *)
(***************************************************************************)
EXTENDS Naturals, Sequences, FiniteSets

CONSTANTS
    Threads, NoThread,
    Contents,       \* what the strings of argv and environ may read
    Layouts,        \* where they may lie
    Titles          \* what callers pass beside NULL

Heap == 0           \* the address of all that is not in the block
Null == "null"
Garbled == "garbled"
Line == "line"      \* the command line the process was started with
Prog == "prog"      \* its name

\* A string in the block: its first byte, its length and its text.
Address == Nat \ {Heap}
Strings == Seq([at : Address, len : Nat, text : Contents])

Layout == [args : Strings \ {<< >>}, envs : Strings]

ASSUME LayoutAssumption ==
    /\ NoThread \notin Threads
    /\ Layouts \subseteq Layout
    /\ {Garbled, Line, Prog} \cap Titles = {} /\ Garbled \notin Contents

VARIABLES
    layout,          \* what the process was started with
    NSArgv, environ, \* what _NSGetArgv and _NSGetEnviron lead to: the strings, in
                     \* the block or on the heap
    overwritten,     \* the bytes of the block under a title
    title,           \* the title they show
    spt_lock, spt_space_init, spt_start, spt_space_len, spt_progname,
    obuf, buf,
    envp, last,      \* of the call that prepares the space
    spt_pc, fmt, i,
    ret,             \* of the last call of each thread
    fast, fast_update

walk == <<envp, last>>
space == <<spt_space_init, spt_start, spt_space_len, spt_progname, obuf>>
sptvars == <<layout, NSArgv, environ, overwritten, title, spt_lock, space, buf, walk,
             spt_pc, fmt, i, ret, fast, fast_update>>

Pcs == {"idle", "lock", "environ", "walk", "detach", "names", "format", "fail", "fast"}
Texts == [at : Nat, len : Nat, text : Contents \union {Garbled}]

SptTypeOK ==
    /\ layout \in Layout
    /\ NSArgv \in Seq(Texts) /\ environ \in Seq(Texts)
    /\ overwritten \subseteq Address /\ title \in Titles \union {Null, Line, Prog, Garbled}
    /\ envp \in Seq(Texts) /\ last \in Nat
    /\ spt_lock \in Threads \union {NoThread}
    /\ spt_space_init \in BOOLEAN /\ spt_start \in Nat /\ spt_space_len \in Nat
    /\ spt_progname \in {Null, Prog, Garbled} /\ obuf \in {Null, Line, Prog, Garbled}
    /\ buf \in BOOLEAN
    /\ spt_pc \in [Threads -> Pcs] /\ fmt \in [Threads -> Titles \union {Null}]
    /\ i \in [Threads -> Nat] /\ ret \in [Threads -> BOOLEAN]
    /\ fast \in [Threads -> BOOLEAN] /\ fast_update \in BOOLEAN

\* Nothing is prepared; argv and environ are where the kernel put them.
Untitled ==
    /\ NSArgv = layout.args /\ environ = layout.envs
    /\ overwritten = {} /\ title = Null
    /\ spt_lock = NoThread /\ spt_space_init = FALSE
    /\ spt_start = Heap /\ spt_space_len = 0
    /\ spt_progname = Null /\ obuf = Null /\ buf = FALSE
    /\ envp = << >> /\ last = Heap
    /\ spt_pc = [t \in Threads |-> "idle"] /\ fmt = [t \in Threads |-> Null]
    /\ i = [t \in Threads |-> 0] /\ ret = [t \in Threads |-> FALSE]
    /\ fast = [t \in Threads |-> FALSE] /\ fast_update = FALSE

SptInit == layout \in Layouts /\ Untitled

--------------------------------------------------------------------------------
(* Strings in memory.                                                      *)

\* The bytes of a string, with its terminator.
Bytes(s) == IF s.at = Heap THEN {} ELSE s.at..(s.at + s.len)

\* What a reader finds there now.
Text(s) == IF Bytes(s) \intersect overwritten = {} THEN s.text ELSE Garbled

Copy(s) == [s EXCEPT !.at = Heap, !.text = Text(s)]
Copies(strings) == [j \in DOMAIN strings |-> Copy(strings[j])]

\* The texts of argv in one string (spt_join_argv).
Joined(strings) ==
    IF \E j \in DOMAIN strings : Text(strings[j]) = Garbled THEN Garbled ELSE Line

Goto(t, label) == spt_pc' = [spt_pc EXCEPT ![t] = label]

--------------------------------------------------------------------------------
(* setproctitle and setproctitle_fast.                                     *)

SptCall(t) ==
    /\ spt_pc[t] = "idle"
    /\ \E f \in Titles \union {Null} : fmt' = [fmt EXCEPT ![t] = f]
    /\ \E b \in BOOLEAN : fast' = [fast EXCEPT ![t] = b]
    /\ Goto(t, "lock")
    /\ UNCHANGED <<layout, NSArgv, environ, overwritten, title, spt_lock, space, buf, walk, i,
                   ret, fast_update>>

\* spt_prepare_space_locked is left at once when the space is there.
Lock(t) ==
    /\ spt_pc[t] = "lock" /\ spt_lock = NoThread
    /\ spt_lock' = t
    /\ Goto(t, IF spt_space_init THEN "format" ELSE "environ")
    /\ UNCHANGED <<layout, NSArgv, environ, overwritten, title, space, buf, walk, fmt, i, ret,
                   fast, fast_update>>

\* The copy of environ, whole or not at all (lines 111-130).  The walk over the
\* strings that follows still uses the old one; it takes argv[0] as it is.
CopyEnviron(t) ==
    /\ spt_pc[t] = "environ"
    /\ \/ /\ environ' = Copies(environ)
          /\ envp' = environ /\ last' = NSArgv[1].at + NSArgv[1].len
          /\ i' = [i EXCEPT ![t] = 1]
          /\ Goto(t, "walk")
       \/ Goto(t, "fail") /\ UNCHANGED <<environ, walk, i>>
    /\ UNCHANGED <<layout, NSArgv, overwritten, title, spt_lock, space, buf, fmt, ret, fast,
                   fast_update>>

\* The walk is over: the space is what it went over (lines 141-147).
TakeSpace(t) ==
    /\ spt_start' = NSArgv[1].at
    /\ spt_space_len' = (last - NSArgv[1].at) + 1
    /\ Goto(t, IF spt_space_len' <= 1 THEN "fail" ELSE "detach")
    /\ i' = [i EXCEPT ![t] = 0]
    /\ UNCHANGED last

\* Mutant of Walk: the space goes to the end of the last string.
WalkOverHoles(t) ==
    /\ spt_pc[t] = "walk"
    /\ LET strings == NSArgv \o envp
           s == strings[i[t] + 1]
       IN  \/ /\ i[t] < Len(strings)
              /\ last' = IF s.at > last THEN s.at + s.len ELSE last
              /\ i' = [i EXCEPT ![t] = @ + 1]
              /\ UNCHANGED <<spt_start, spt_space_len, spt_pc>>
           \/ i[t] = Len(strings) /\ TakeSpace(t)
    /\ UNCHANGED <<layout, NSArgv, environ, overwritten, title, spt_lock, spt_space_init,
                   spt_progname, obuf, buf, envp, fmt, ret, fast, fast_update>>

\* A string of argv or of the old environ extends the space when it begins where
\* the space ended (lines 132-140).
Walk(t) ==
    /\ spt_pc[t] = "walk"
    /\ LET strings == NSArgv \o envp
           s == strings[i[t] + 1]
       IN  \/ /\ i[t] < Len(strings)
              /\ last' = IF s.at # Heap /\ s.at = last + 1 THEN s.at + s.len ELSE last
              /\ i' = [i EXCEPT ![t] = @ + 1]
              /\ UNCHANGED <<spt_start, spt_space_len, spt_pc>>
           \/ i[t] = Len(strings) /\ TakeSpace(t)
    /\ UNCHANGED <<layout, NSArgv, environ, overwritten, title, spt_lock, spt_space_init,
                   spt_progname, obuf, buf, envp, fmt, ret, fast, fast_update>>

\* spt_detach_argv_locked: all copies are made before the first pointer is
\* replaced, so it fails before it has done anything.
DetachFails(t) ==
    /\ spt_pc[t] = "detach" /\ i[t] = 0
    /\ Goto(t, "fail")
    /\ UNCHANGED <<layout, NSArgv, environ, overwritten, title, spt_lock, space, buf, walk, fmt,
                   i, ret, fast, fast_update>>

Detach(t) ==
    /\ spt_pc[t] = "detach"
    /\ IF i[t] < Len(NSArgv)
       THEN /\ NSArgv' = [NSArgv EXCEPT ![i[t] + 1] = Copy(@)]
            /\ i' = [i EXCEPT ![t] = @ + 1]
            /\ UNCHANGED spt_pc
       ELSE Goto(t, "names") /\ UNCHANGED <<NSArgv, i>>
    /\ UNCHANGED <<layout, environ, overwritten, title, spt_lock, space, buf, walk, fmt, ret,
                   fast, fast_update>>

\* The names the title is made of; each may be missing for lack of memory
\* (lines 157-166).  getprogname points into argv[0] of the block.
Names(t) ==
    /\ spt_pc[t] = "names"
    /\ \E named, joined \in BOOLEAN :
          /\ spt_progname' = IF named \/ spt_progname # Null
                             THEN IF Text(layout.args[1]) = Garbled THEN Garbled ELSE Prog
                             ELSE Null
          /\ \/ obuf' = IF joined THEN Joined(NSArgv) ELSE Null
             \/ ~joined /\ obuf' = spt_progname'
    /\ spt_space_init' = TRUE
    /\ Goto(t, "format")
    /\ UNCHANGED <<layout, NSArgv, environ, overwritten, title, spt_lock, spt_start,
                   spt_space_len, buf, walk, fmt, i, ret, fast, fast_update>>

\* The title goes over the whole space, cut short or filled up with zeros
\* (lines 185-222).  Without a format it is the one of the beginning.
Format(t) ==
    /\ spt_pc[t] = "format"
    /\ \/ /\ fmt[t] = Null => obuf # Null
          /\ buf' = TRUE
          /\ title' = IF fmt[t] = Null THEN obuf ELSE fmt[t]
          /\ overwritten' = overwritten \union (spt_start..(spt_start + spt_space_len - 1))
          /\ ret' = [ret EXCEPT ![t] = TRUE]
          /\ spt_lock' = NoThread
          /\ Goto(t, "fast")
       \/ /\ fmt[t] = Null /\ obuf = Null /\ buf' = TRUE
          /\ Goto(t, "fail")
          /\ UNCHANGED <<title, overwritten, ret, spt_lock>>
       \/ /\ ~buf /\ Goto(t, "fail")
          /\ UNCHANGED <<title, overwritten, ret, spt_lock, buf>>
    /\ UNCHANGED <<layout, NSArgv, environ, space, walk, fmt, i, fast, fast_update>>

Fail(t) ==
    /\ spt_pc[t] = "fail"
    /\ spt_lock' = NoThread
    /\ ret' = [ret EXCEPT ![t] = FALSE]
    /\ Goto(t, "fast")
    /\ UNCHANGED <<layout, NSArgv, environ, overwritten, title, space, buf, walk, fmt, i, fast,
                   fast_update>>

\* fast_update is looked at and set without the lock (lines 241-256).
SetFast(t) ==
    /\ spt_pc[t] = "fast"
    /\ fast_update' = IF ret[t] THEN fast[t] ELSE fast_update
    /\ Goto(t, "idle")
    /\ UNCHANGED <<layout, NSArgv, environ, overwritten, title, spt_lock, space, buf, walk, fmt,
                   i, ret, fast>>

\* setenv by the program (external): it is not made while a call is in progress.
SetEnv ==
    /\ \A t \in Threads : spt_pc[t] = "idle"
    /\ \E j \in DOMAIN environ :
          /\ environ[j].at # Heap
          /\ environ' = [environ EXCEPT ![j].at = Heap]
    /\ UNCHANGED <<layout, NSArgv, overwritten, title, spt_lock, space, buf, spt_pc, walk, fmt, i,
                   ret, fast, fast_update>>

SptNext ==
    \/ \E t \in Threads :
          \/ SptCall(t) \/ Lock(t) \/ CopyEnviron(t) \/ Walk(t) \/ DetachFails(t)
          \/ Detach(t) \/ Names(t) \/ Format(t) \/ Fail(t) \/ SetFast(t)
    \/ SetEnv

SptSpec == SptInit /\ [][SptNext]_sptvars

--------------------------------------------------------------------------------
(* What must hold.                                                         *)

\* The bytes that were strings when the process was started.
Block ==
    (UNION {Bytes(layout.args[j]) : j \in DOMAIN layout.args})
    \union (UNION {Bytes(layout.envs[j]) : j \in DOMAIN layout.envs})

TextsStay ==
    /\ \A j \in DOMAIN NSArgv : Text(NSArgv[j]) = layout.args[j].text
    /\ \A j \in DOMAIN environ : Text(environ[j]) = layout.envs[j].text
    /\ overwritten \subseteq Block

NullRestoresTitle ==
    \A t \in Threads :
        spt_pc[t] = "format" /\ fmt[t] = Null /\ ret'[t] /\ spt_pc'[t] = "fast"
            => title' \in {Line, Prog}

\* No step of a title harms anything, whatever failed before and however often it was
\* tried again: argv and environ keep their texts, since no byte of a string that
\* either still leads to is under the title; the title stays on what were
\* strings of the process, also when argv was permuted or the strings do not lie
\* together (lines 111-155, 212-219); and setproctitle(NULL) brings back the
\* command line, or the name when there was no memory for the line, never a title
\* nor bytes of one (lines 157-164, 206-210).
TitleHarmsNothing == [][TextsStay' /\ NullRestoresTitle]_sptvars
================================================================================
