------------------------------ MODULE WordexpShell ------------------------------
(***************************************************************************)
(* wordexp/wordexp.c, we_askshell: the parent and the shell it starts, the *)
(* two pipes between them, and the signal mask and descriptors the parent  *)
(* has to give back.                                                       *)
(*                                                                         *)
(* The shell announces n words on stdout, prints them, as many as it gets  *)
(* to (lines 316-321), and may print on stderr before, between and after;  *)
(* a pipe takes Capacity pieces before the writer has to wait.             *)
(***************************************************************************)
EXTENDS Naturals, Sequences, SequencesExt, FiniteSets

CONSTANTS
    Outputs,        \* what a shell may print and how it may exit
    Capacity,       \* of a pipe
    ErrBuf          \* how many pieces err_buf holds

Piece == {"count", "word", "warning", "error"}
Ends == {"pdes0", "pdes1", "perr0", "perr1"}

At(piece, s) == {i \in DOMAIN s : s[i] = piece}

\* The counts are printed once and before the words, and no word besides those.
ASSUME OutputAssumption ==
    /\ Outputs \subseteq [announced : Nat, prints : Seq(Piece), status : Nat]
    /\ \A o \in Outputs :
          /\ Cardinality(At("word", o.prints)) <= o.announced
          /\ \A i \in At("word", o.prints) : \E j \in At("count", o.prints) : j < i
          /\ \A i, j \in At("count", o.prints) : i = j
    /\ Capacity \in Nat \ {0} /\ ErrBuf \in Nat \ {0}

VARIABLES
    asking,         \* where the parent is
    blocked,        \* SIGCHLD is blocked by us
    fds,            \* the ends of the pipes the parent has open
    shell,          \* "none", "running", "zombie" or "reaped"
    script,         \* what the shell still has to print
    announced, status,      \* the words it announces, and its exit status
    out, errs,      \* the pieces in the pipes
    got,            \* the words read
    err_buf,        \* what is read from stderr
    garbage,        \* an error message happens to be in the memory of err_buf
    result,
    printed, complained     \* what the shell has written (history)

askvars == <<asking, blocked, fds, shell, script, announced, status, out, errs, got, err_buf,
          garbage, result, printed, complained>>

Results == {"none", "ok", "NOSPACE", "SYNTAX"}      \* SYNTAX or BADVAL

AskTypeOK ==
    /\ asking \in {"call", "pipe", "spawn", "close", "count", "words", "errors", "cleanup",
               "wait", "decide", "done"}
    /\ blocked \in BOOLEAN /\ fds \subseteq Ends
    /\ shell \in {"none", "running", "zombie", "reaped"}
    /\ script \in Seq(Piece) /\ announced \in Nat /\ status \in Nat
    /\ out \in Seq(Piece) /\ Len(out) <= Capacity
    /\ errs \in Seq(Piece) /\ Len(errs) <= Capacity
    /\ got \in 0..announced
    /\ err_buf \in Seq(Piece) /\ Len(err_buf) <= ErrBuf
    /\ garbage \in BOOLEAN /\ result \in Results
    /\ printed \in 0..announced /\ complained \in BOOLEAN

AskInit ==
    /\ asking = "call" /\ blocked = FALSE /\ fds = {} /\ shell = "none"
    /\ \E o \in Outputs : script = o.prints /\ announced = o.announced /\ status = o.status
    /\ out = << >> /\ errs = << >> /\ got = 0 /\ err_buf = << >>
    /\ garbage \in BOOLEAN
    /\ result = "none" /\ printed = 0 /\ complained = FALSE

--------------------------------------------------------------------------------
(* The parent.                                                             *)

theShell == <<shell, script, announced, status, out, errs, printed, complained>>

OpenPipes ==
    /\ asking = "call"
    /\ \/ fds' = Ends /\ blocked' = TRUE /\ asking' = "spawn" /\ UNCHANGED result
       \/ result' = "NOSPACE" /\ asking' = "done" /\ UNCHANGED <<fds, blocked>>
    /\ UNCHANGED <<theShell, got, err_buf, garbage>>

\* Lines 230-290.  The way out of a failure closes the pipes; it leaves the
\* signal blocked.
Spawn ==
    /\ asking = "spawn"
    /\ \/ shell' = "running" /\ asking' = "close" /\ UNCHANGED <<fds, result>>
       \/ fds' = {} /\ result' = "NOSPACE" /\ asking' = "done" /\ UNCHANGED shell
    /\ UNCHANGED <<blocked, script, announced, status, out, errs, got, err_buf, garbage,
                   printed, complained>>

\* Mutant of CloseWriteEnds: one of them is kept.
CloseOneEnd ==
    /\ asking = "close"
    /\ fds' = fds \ {"perr1"}
    /\ asking' = "count"
    /\ UNCHANGED <<theShell, blocked, got, err_buf, garbage, result>>

CloseWriteEnds ==
    /\ asking = "close"
    /\ fds' = fds \ {"pdes1", "perr1"}
    /\ asking' = "count"
    /\ UNCHANGED <<theShell, blocked, got, err_buf, garbage, result>>

AtEOF(pipe, end) == pipe = << >> /\ shell # "running" /\ end \notin fds

\* The two counts; the end of the file instead of them is an error.
ReadCount ==
    /\ asking = "count"
    /\ \/ out # << >> /\ out' = Tail(out) /\ asking' = "words" /\ UNCHANGED result
       \/ AtEOF(out, "pdes1") /\ result' = "SYNTAX" /\ asking' = "cleanup" /\ UNCHANGED out
    /\ UNCHANGED <<blocked, fds, shell, script, announced, status, errs, got, err_buf,
                   garbage, printed, complained>>

\* Lines 349-382: no memory for the words announced.
NoMemory ==
    /\ asking = "words" /\ got = 0
    /\ result' = "NOSPACE" /\ asking' = "cleanup"
    /\ UNCHANGED <<theShell, blocked, fds, got, err_buf, garbage>>

\* The words announced, as they come.
ReadAnnounced ==
    /\ asking = "words"
    /\ \/ /\ got = announced /\ asking' = "errors" /\ UNCHANGED <<out, got, result>>
       \/ /\ got < announced /\ out # << >>
          /\ got' = got + 1 /\ out' = Tail(out)
          /\ UNCHANGED <<asking, result>>
       \/ /\ got < announced /\ AtEOF(out, "pdes1")
          /\ result' = "SYNTAX" /\ asking' = "cleanup"
          /\ UNCHANGED <<out, got>>
    /\ UNCHANGED <<blocked, fds, shell, script, announced, status, errs, err_buf, garbage,
                   printed, complained>>

\* One read of stderr: what is there, or nothing at its end.
ReadErrors ==
    /\ asking = "errors"
    /\ \/ /\ errs # << >>
          /\ LET k == Min({ErrBuf, Len(errs)}) IN
                err_buf' = SubSeq(errs, 1, k) /\ errs' = SubSeq(errs, k + 1, Len(errs))
       \/ AtEOF(errs, "perr1") /\ UNCHANGED <<errs, err_buf>>
    /\ asking' = "cleanup"
    /\ UNCHANGED <<blocked, fds, shell, script, announced, status, out, got, garbage,
                   result, printed, complained>>

\* A signal handler ran during that read.
ReadErrorsInterrupted ==
    /\ asking = "errors"
    /\ result' = "NOSPACE" /\ asking' = "cleanup"
    /\ UNCHANGED <<theShell, blocked, fds, got, err_buf, garbage>>

Cleanup ==
    /\ asking = "cleanup"
    /\ fds' = fds \ {"pdes0", "perr0"}
    /\ asking' = "wait"
    /\ UNCHANGED <<theShell, blocked, got, err_buf, garbage, result>>

\* Mutant of Wait: a call that has failed leaves at once.
WaitUnlessFailed ==
    /\ asking = "wait"
    /\ IF result # "none"
       THEN UNCHANGED <<shell, blocked>>
       ELSE shell = "zombie" /\ shell' = "reaped" /\ blocked' = FALSE
    /\ asking' = IF result = "none" THEN "decide" ELSE "done"
    /\ UNCHANGED <<fds, script, announced, status, out, errs, got, err_buf, garbage, result,
                   printed, complained>>

\* waitpid, and the signal mask of before (lines 430-433).
Wait ==
    /\ asking = "wait" /\ shell = "zombie"
    /\ shell' = "reaped"
    /\ blocked' = FALSE
    /\ asking' = IF result = "none" THEN "decide" ELSE "done"
    /\ UNCHANGED <<fds, script, announced, status, out, errs, got, err_buf, garbage, result,
                   printed, complained>>

\* Mutant of Decide: the exit status says it all.
DecideByStatus ==
    /\ asking = "decide"
    /\ result' = IF status # 0 THEN "SYNTAX" ELSE "ok"
    /\ asking' = "done"
    /\ UNCHANGED <<theShell, blocked, fds, got, err_buf, garbage>>

\* Lines 438-444.  Of an empty read err_buf holds what was in memory.
Decide ==
    /\ asking = "decide"
    /\ LET seen == IF err_buf = << >> THEN garbage ELSE Contains(err_buf, "error") IN
       result' = IF status # 0 \/ seen THEN "SYNTAX" ELSE "ok"
    /\ asking' = "done"
    /\ UNCHANGED <<theShell, blocked, fds, got, err_buf, garbage>>

--------------------------------------------------------------------------------
(* The shell (external).                                                   *)

ToOut == Head(script) \in {"count", "word"}

\* A piece is written; without a reader it is SIGPIPE instead.
ShellPrints ==
    /\ shell = "running" /\ script # << >>
    /\ LET reader == IF ToOut THEN "pdes0" ELSE "perr0"
           pipe == IF ToOut THEN out ELSE errs
       IN  IF reader \notin fds
           THEN /\ script' = << >> /\ status' = 1
                /\ UNCHANGED <<out, errs, printed, complained>>
           ELSE /\ Len(pipe) < Capacity
                /\ script' = Tail(script)
                /\ IF ToOut THEN out' = Append(out, Head(script)) /\ UNCHANGED errs
                            ELSE errs' = Append(errs, Head(script)) /\ UNCHANGED out
                /\ printed' = IF Head(script) = "word" THEN printed + 1 ELSE printed
                /\ complained' = (complained \/ Head(script) = "error")
                /\ UNCHANGED status
    /\ UNCHANGED <<asking, blocked, fds, shell, announced, got, err_buf, garbage, result>>

ShellExits ==
    /\ shell = "running" /\ script = << >>
    /\ shell' = "zombie"
    /\ UNCHANGED <<asking, blocked, fds, script, announced, status, out, errs, got, err_buf,
                   garbage, result, printed, complained>>

--------------------------------------------------------------------------------
Parent == \/ OpenPipes \/ Spawn \/ CloseWriteEnds \/ ReadCount \/ ReadAnnounced \/ ReadErrors
          \/ Cleanup \/ Wait \/ Decide
Shell == ShellPrints \/ ShellExits

AskNext == Parent \/ NoMemory \/ ReadErrorsInterrupted \/ Shell

AskSpec == AskInit /\ [][AskNext]_askvars

\* Both processes are scheduled; a read or a write that can go on does,
\* and no failure is counted on.
FairAskSpec == AskSpec /\ WF_askvars(Parent) /\ WF_askvars(Shell)

--------------------------------------------------------------------------------
(* What must hold.                                                         *)

\* Whatever failed, no end of a pipe stays open, and once a shell was started
\* it has been waited for and SIGCHLD is as it was (lines 284-287, 425-433).
NothingLeftBehind ==
    asking = "done" =>
        /\ fds = {} /\ shell \in {"none", "reaped"}
        /\ shell = "reaped" => ~blocked

\* A success has all the words the shell announced, from a shell that exited
\* well (lines 328-408, 438), and an error that reached err_buf is never a
\* success (lines 441-444), whatever the shell's exit status.
SuccessIsComplete ==
    asking = "done" /\ result = "ok" =>
        got = announced /\ printed = announced /\ status = 0 /\ ~Contains(err_buf, "error")

\* The call returns, or the shell has filled stderr while the parent waits for
\* its words: that is the only way to wait for each other (lines 328-411).
WaitsOnlyForStderr ==
    <>(\/ asking = "done"
       \/ asking \in {"count", "words"} /\ Len(errs) = Capacity)

--------------------------------------------------------------------------------
(* What the comment on stderr says, and the code does not keep: "bash will *)
(* return success, yet print a command substitution/syntax error to        *)
(* stderr.  So we need to capture stderr, and see if it contains this      *)
(* error" (lines 68-71).                                                   *)

\* An error that the shell printed on a pipe that was open is seen.
PrintedErrorIsSeen == asking = "done" /\ complained => result # "ok"
================================================================================
