# TLA+ models of librecompat

librecompat is a compatibility layer: functions that GNU/Linux, FreeBSD or musl
programs expect of their C library and that Darwin's does not have. It is a
collection of small libraries rather than one program, so this project is a
collection of specifications, one or a few modules per library, composed where
the code or its callers make them meet: getnetpath on top of getnetconfig, the
descriptors of popen, accept4, fopencookie and fdclose, getopt and setproctitle
on one argv, and the seven modules of the regular expressions.

Paths below are relative to the repository root. Line numbers are those of the
commit these files are kept beside. `PROJECT.json` holds the same information
in machine-readable form: components, runs, the definition-to-source map, the
mutants that show each property can fail, the hazards and the theorems.

## 1. Inventory

| component | state it keeps | operations | talks to | what is hard | what makes it correct |
|---|---|---|---|---|---|
| netconfig database, `src/rpc/getnetconfig.c` | process-wide table `g_entries/g_entry_count/g_entry_cap`, `g_loaded`, `g_refcount`, all under `g_lock`; per-thread `g_nc_error`; per-handle `magic`, `index` | `setnetconfig`, `getnetconfig`, `endnetconfig`, `getnetconfigent`, `freenetconfigent`, `nc_sperror`, `nc_perror` | the file /etc/netconfig, SystemConfiguration through a `pthread_once` and `dlsym`, the heap | callers keep bare pointers into the shared table; handle fields are written outside the lock; any line of a load can fail | the table lives exactly as long as somebody refers to it; a failed load leaves nothing; errors tell the truth |
| netpath walk, `src/rpc/getnetpath.c` | per-handle: mode, nested netconfig handle, cursor into a copy of `$NETPATH`, list of copies handed out | `setnetpath`, `getnetpath`, `endnetpath` | netconfig database | memory failures between copying and tracking; absent and failed lookups look alike (NULL) | copies freed once and not before `endnetpath`; only absent networks are skipped |
| popen, `src/stdio/popen.c` | `pidlist` under its mutex | `popen` | pipes, `posix_spawn`, the other threads' pipes | two critical sections in one call; what children inherit | a child holds no other stream's parent end |
| sendfile, `src/sys/socket/sendfile.c` | the input's file offset, counters of the call | `sendfile` | two descriptors | partial writes, EINTR, EAGAIN, an offset to restore | bytes reported are the bytes sent, in order; the offset is restored |
| accept4, `src/sys/socket/accept4.c` | descriptor flags | `accept4` | kernel | flags set one call after the descriptor exists | no failure leaves the socket open |
| ppoll, `src/poll/ppoll.c` | kqueue, signal mask | `ppoll` | kernel signals | a signal between any two steps | a signal that the mask lets through is not slept over; the mask is restored |
| wordexp, `src/wordexp/wordexp.c` | `wordexp_t` of the caller, signal mask | `wordexp`, `wordfree` | `/bin/sh` over three pipes | two processes over bounded pipes; cleanup on each failure | no deadlock, the mask is restored, `we_wordc` and the strings agree |
| setproctitle, `src/gen/setproctitle.c` | title area, copied `argv`/`environ`, saved originals, under `spt_lock` | `setproctitle`, `setproctitle_fast` | `environ` of the process | failure half-way through detaching; a retry | the area is never written while the environment still lives there |
| hsearch_r, `src/search/hsearch_r.c` | open-addressing table | `hcreate_r`, `hsearch_r`, `hdestroy_r` | heap | probe sequence at a full table | what was entered is found; a full table is refused |
| tsearch, `src/search/tsearch.c` | a tree of the caller | `twalk_r`, `tdestroy` | callbacks | freeing while walking | each node once, children before their node is freed |
| obstack, `src/malloc/obstack.c`, `obstack.h` | chain of chunks, object being grown | `obstack_begin`, `_obstack_newchunk`, `obstack_grow/finish/free` macros | chunk allocator of the caller | an object moved between chunks while a chunk is freed | finished objects never move; freeing is back to a point |
| dynarray, `src/malloc/dynarray*.c` | `used`, `allocated`, `array`, scratch | `init`, `add`, `emplace`, `resize`, `resize_clear`, `remove_last`, `clear`, `finalize`, `free` | heap | scratch or heap storage, sticky failure state | contents preserved over growth; no write outside the allocation; failure sticks |
| getopt, `src/unistd/getopt*.c` | scan position, `first_nonopt/last_nonopt`, `argv` itself | `getopt`, `getopt_long`, `getopt_long_only` | caller's globals | in-place permutation of argv while scanning | argv stays a permutation, options before operands, orders kept |
| argz, `src/argz/*.c` | a vector of NUL-terminated strings | `argz_create`, `_add_sep`, `_append`, `_insert`, `_delete`, `_replace`, ... | heap | reallocation invalidates cursors | the vector is the concatenation of its strings |
| stdio, `src/stdio/fclose.c`, `fopencookie.c`, `flags.c` | a `FILE` | `fdclose`, `fopencookie`, `__sflags` | Darwin's stdio internals | closing while another thread holds the stream | released once, the descriptor survives |
| user shells, passwd lines, `src/unistd/getusershell.c`, `src/gen/pw_scan.c` | cached list of shells | `getusershell`, `set/endusershell`, `__pw_scan` | /etc/shells | file changing between `fstat` and reading | the list stays inside its buffer |
| services and hosts, `src/netdb/*`, `src/musl/network/lookup_serv.c` | `servent_data`: file, line, vector of aliases | `getservent_r`, `getservby*_r`, `gethostbyname_r` | /etc/services, the resolver | growing a buffer while pointing into it | results point into live memory |
| regex, `src/regex/*` | the automaton of a pattern, its lock, the state log of a search, registers of the caller | `regcomp`, `regexec`, `regfree`, `re_compile_pattern`, `re_search`, `re_match`, `re_set_registers` | heap | back-references put states into the log ahead of the matcher; registers come from a second walk over pruned states; places are skipped | the answer is the leftmost, longest match, and the registers are those of one way to match it |
| small wrappers (`setlocale`, `sysctl`, `confstr`, `posix_fallocate`, `posix_fadvise`, `get_current_dir_name`, `sysinfo`, `uname`, string and dirent helpers) | none or one global | one call each | the system | two calls where one was promised | |

The components do not call each other, with these exceptions: `getnetpath.c`
calls `getnetconfig.c`; `pw_scan.c` calls `getusershell.c`; `getservbyname_r`
calls `lookup_serv.c`. They meet in what belongs to the process: the descriptor
table (`popen`, `accept4`, `fdclose`) and argv (`getopt`, `setproctitle`).

## 2. Plan

Order of work, most important first. The project's own concurrent code comes
before the vendored sequential code.

| step | modules | state |
|---|---|---|
| 1 | `NetconfigDB` (abstract), `Netconfig`, `NetconfigProofs` and the refinement between them | done |
| 2 | `Netpath`, composed with `NetconfigDB` | done, with `NetpathProofs` |
| 3 | kernel and processes: `Sendfile`, `Ppoll`, `Popen` with `Streams`, `Wordexp`, `WordexpShell` | done, with `KernelProofs`, `StreamsProofs`, `WordexpProofs` |
| 4 | the command line: `Getopt`, `Setproctitle`, and `Argv` that composes them | done, with `ArgvProofs` |
| 5 | containers and tables: `Obstack`, `Hsearch`, `Argz`, `Dynarray`, `NodeSet`, `Services`, composed by `Stores` and `Containers` | done, with `StoresProofs` and `ContainersProofs` |
| 6 | `RegexParse`, `RegexCompile`, `RegexMatch`, `RegexExec`, `RegexApi`, against `RegexReference` | done; recursive, so it stays with TLC |
| 7 | the tokenizer of NETPATH, `we_check` of wordexp | left: they are about characters |

What is left of the theorems is out of the provers' reach (section 13): liveness, and regex.

## 3. Netconfig and NetconfigDB

`NetconfigDB` is what users of `getnetconfig.c` rely on: `db` is loaded whole,
or not at all (`<< >>`), and does not change while `refs` is not empty.

`Netconfig` is the code. One thread is a program counter `pc[t]`, the call it is
in (`op[t]`) and the locals that survive between two steps (`arg`, `netid`,
`todo`, `saw_data`). `g_lock`, `g_entries` (its length is `g_entry_count`),
`g_entry_cap`, `g_refcount` and `g_loaded` carry the code's names; a handle is an
address of `Handles` with `allocated`, `magic` and `index`. The action for each
piece of code is listed in PROJECT.json under "map"; the ones worth knowing:

* `SetCall`, `Lock`, `EnsureLoaded` ... `SetCounts`, `SetReturns` are one
  `setnetconfig`; `SetReturns` is separate because lines 775-778 fill in the
  handle after the lock was released.
* `EndCall` clears the magic before the lock (line 815), `EndDrops` decrements
  and perhaps clears, `EndReturns` frees the handle outside the lock.
* `ReadLine`, `LoadDefault` take one line of the table per step, so that a
  missing lock would show. `fgets` may stop at any line (a read error looks like
  the end of the file to the code, `EndOfFile`).
* `malloc` fails in `SetFails`, `TakeLine` (parsing reports it as NC_BADFILE,
  appending as NC_NOMEM) and `EntSearch`.

`given[h]` is a history variable: the entries `getnetconfig` returned through `h`.
`HandedOutStaysValid` compares it with what the same addresses hold now.

External: /etc/netconfig is any member of `Files`, chosen anew at every load;
SystemConfiguration answers any combination of address families; callers use a
handle only between `setnetconfig` and `endnetconfig` and do not end it while
another thread is inside a call with it (the man pages' contract, without which
line 812 reads freed memory).

Run `netconfig` (2 threads, 2 handles, files with a comment, a malformed line and
nothing at all, `FirstCap` 2 so that the table grows twice while the six defaults
are loaded) checks the safety properties and that `Netconfig` implements
`NetconfigDB`. Two handles are what it takes to have an open handle while another
is opened or closed; two threads what it takes to interleave.

### What is proved

`NetconfigProofs` proves for every number of threads, every finite set of handles,
every set of file contents and every first capacity: `TypeCorrect`,
`RefcountCorrect`, `PointersCorrect`, `TableCorrect`, `CapacityCorrect`,
`IterationCorrect`, `NotFoundCorrect`, and `Implementation`
(`Spec => ImplementsDB`). Assumptions: `ThreadAssumption`, `HandleAssumption`
(finitely many handles), `FileAssumption`, `CapAssumption`.

None of the invariants is inductive alone. The argument goes through `IInv`:
`Mutex` (who is between lock and unlock), `Control` (which call a program counter
belongs to), `Ownership` (the handle of a `setnetconfig` or `endnetconfig` in
progress is known to no other thread) give that each step changes the set
`Counted` by at most one handle and together with the counter (`CountedStep`);
then `RefcountIsExact` gives that the table is cleared only when nobody is counted,
`LoadProgress` that it is refilled only then, and `Unused` that a new handle starts
with nothing handed out. `TableStep` and `HandlesStepHolds` state what a step does to
the table and to a handle; the pointer invariant follows from the two.

## 4. Netpath

`Netpath` runs `setnetpath`, `getnetpath` and `endnetpath` of several threads over the
globals of `getnetconfig.c` as a caller sees them: the table `db`, `g_refcount` as `count`
and `magic`, the handles whose memory carries NC_HANDLE_MAGIC. `OthersLoad`, `OthersOpen`,
`OthersClose` are the rest of the process. `Setnetconfig`, `Getnetconfigent` and
`Endnetconfig` do with the handle and the error they are given what the code does, also
with a handle that is closed already: nothing in the module keeps a caller from passing
one. `np[t]` is the thread's `struct np_handle`: `nc_handle` is NULL
in list mode, `cursor` the tokens left, `alloc` the list from `alloc_head` to
`alloc_tail`. `copies` is the heap of entries `getnetconfigent` duplicated, `hand[t]`
the copy between `getnetconfigent` and `netpath_track_entry`, `handed[t]` (history)
what the caller was given. Run `netpath`: 2 threads, 2 handles, 2 addresses, two
tables (an invisible entry between visible ones, a repeated netid) and three values
of NETPATH (unset; two names; an empty token and a repeated absent name).

`ReturnedStaysValid`: what `getnetpath` returned keeps its address and contents until
`endnetpath`, in both modes, and every copy on the heap is on one list or in the hands
of one call: none is lost, none freed twice. `OnlyAbsentIsSkipped`: a walk over the
visible networks has returned all it has passed, in order, and a named network is
passed over only when a loaded table does not have it; `Lookup` goes by the error alone
(getnetpath.c:186-187), so this rests on each failure of `getnetconfigent` leaving an error of
its own, and its mutant is a copy that fails and leaves NC_NOTFOUND. `UsesDatabaseByItsRules`
is about the handles: every open handle is held by one walk or by one other user, every
handle they hold is open and counted (`HandlesHaveOneUser` in the proof), and with `refs` read as the
handles in use (`InUse`) the module implements `NetconfigDB!DBSpec`, so a walk never sees
its table go. A second `endnetconfig` on a handle is a step `Endnetconfig` takes, and the
property is what excludes it; its mutant is a walk that closes the handle at its end.

`NetpathProofs` proves the three, and `TypeCorrect`, for any threads, handles, tables,
values of NETPATH and addresses (`PathAssumption`). `PathInv` adds to the types and to
the ownership of copies (`CopiesHaveOneOwner`, itself a part of `ReturnedStaysValid`):
`Phase`, which fields of a handle mean something where its thread stands; `Refers`, a
visible walk has an open handle of its own, `count` is the number of open handles and
so the table stays (`OpenCounts`, `CloseCounts`); `Listed` and
`Walked`, what `handed` has to do with the list and with the index. That a thread's
handle, list and hand are its own (`OwnHandle`, `OwnList`, `OfThread`) lets each step be
looked at for one thread.

## 5. Sendfile

`Sendfile` is one call of `compat_sendfile`. A byte is named by where it comes from
(header, file at an offset, trailer), so `wire`, what the socket has taken, shows what
was lost, repeated or moved. `pc` follows the three phases; `read`, `write` and
`writev` are one step each and may be short, interrupted (`MaxSignals` times),
answered with EAGAIN or fail; `Resize` lets others change the length of the file
between any two steps. `call`, `len` and `ret` are the interface.

Run `sendfile`: eight calls (no limit, limits below, at and above what there is,
offsets inside and behind the file, the two invalid arguments), files of 1, 3 and 6
bytes, a buffer of 3 so that the loop goes round. Fairness, for `Returns` only: the
call takes its next step when it can (`WF_vars(Progress)`): the thread is scheduled
and the peer drains the socket; signals are bounded, since a signal at every read
makes the loop endless by design. Run `sendfile_trailers` finds that the trailers are
not always sent "completely".

Proved (`KernelProofs`), for every set of calls and file sizes and every buffer:
`TypeCorrect`; `BytesCorrect` (the counter, and with it `*len`, against the bytes on
the wire); `CleanupCorrect`; `OrderCorrect` (`StreamInOrder`: headers, file and trailers
in order, no byte twice, none beyond the limit). `BytesAccountedFor` is not inductive: it
needs which counters already include the bytes in `buffer` at each `pc` (`Counted`), and
that the offset is saved before it is moved (`Saved`). For the order, `InPlace` says that
what is sent and what is in `buffer` are adjoining pieces of the file, and where `fpos`
stands behind them, however much the file shrank or grew in between.

## 6. Popen and Streams

`Popen`: threads in `popen`, the descriptor table, `pidlist` under its mutex, the table
of each shell after its file actions (`child`). `OpenPipe`, `Fdopen`, `Allocate`,
`ListActions`, `Spawn`, `CloseOther`, `Link` are the steps of a call in order; the
list is read in `Spawn` and extended in `Link`, in separate critical sections, as in
the code. A path that fails gives up its two descriptors one after the other (`CloseStream`,
`CloseLast`; `Fdopen` itself closes `pdes[0]`), and other threads run in between. `posix_spawn`
fails for lack of memory (the call fails) or on a file action
(the call returns a stream whose shell never ran). `owes` remembers which streams were
open when the call began. Descriptors 0, 1 and 2 are open in the parent: the branches
for a process without them are not modelled.

`Streams` adds, in the same threads and on the same table, what else makes and gives up
descriptors and streams: `accept4` (`Accept`, then `SetFlags`: two system calls, between
which another thread may spawn a shell), `fopencookie` (the thunk between `malloc` and
`funopen`, and its release when the stream is closed) and `fdclose` (which takes the
descriptor out of a stream that popen may still have on `pidlist`).

Run `streams`: two threads, up to three calls of popen, one call of the others, four
descriptors, so that a third pipe meets a full table and numbers are used again;
callers may close a stream between any two steps. `DescriptorsHaveOneOwner`: an open
descriptor belongs to one call, one stream or one caller, on every error path.
`ShellIsConnected`: a shell has its end of its own pipe as 0 or 1, no other end of it,
and no stream that its popen found open. The last is claimed for streams that existed
before the popen began; those of a concurrent popen may be inherited.

`StreamsProofs` proves both, and the types, for any threads, descriptors and numbers of
calls (`FdAssumption`, `ThunkAssumption`). `StreamsInv` adds: an end of a pipe is at
most one descriptor (`Ends`); what the descriptors of a call in progress are
(`Piped`); a stream is the only descriptor left of its pipe, and on `pidlist`
(`Streamed`); and the list read at the start of a spawn is still the list at its end,
because the mutex is held (`Listed`). Most of the proof is that a step of one thread
closes nothing that another has (`OnlyOwnerCloses`, `Bystander`).

## 7. Ppoll

`Ppoll` is one call, with the thread's `mask` and `pending` signals. `Send(s)` and
`BecomeReady(f)` come between any two steps; an unblocked signal runs its handler at
once, a blocked one waits. `kevs`, `kq`, `event` are the kqueue that remembers signals.
`interrupted` says that a handler ran while `poll` waited. Every call the code makes may
fail: `pthread_sigmask` and `sigaction` in `Watch`, `kqueue` and `kevent` behind it, and
in `Allocate` the size, which overflows (EINVAL), or `malloc`.

Run `ppoll`: every initial mask, no mask or any mask as argument, two signals that
interrupt, one with SA_RESTART and one without a handler, two descriptors; time is
scaled (a second has two milliseconds, a millisecond three nanoseconds, the largest
int is 3) so that rounding and overflow are reached with small numbers. Fairness, for
`SignalWakes` only: the thread runs and `poll` returns once it has something to
return. Proved (`KernelProofs`), for any signals, masks, timeouts and finitely many
descriptors: `PpollTypeCorrect`, `MaskCorrect`, `SignalsCorrect` (`NoLostSignal`),
`ResultCorrect` (`ResultIsTrue`: the count is of the caller's descriptors, and EINTR says
that a handler ran) and `TimeoutCorrect` (the arithmetic of lines 27-36, which needs no
scaling here). The invariant behind them says, for each phase of
the call, how the mask stands to the caller's, that watched signals are blocked until
the switch, and that the kqueue has something exactly when one of them is pending (or,
after the switch, was handled). `SignalWakes` stays with
TLC.

## 8. Wordexp and WordexpShell

`wordexp` is two machines that share only the list of words, and so two modules.

`Wordexp` is the storage: vectors (`we_int_t`) and areas of strings on a heap, the
caller's `we0` and the temporary `we`, over sequences of `Wordfree` and `Call` with
WRDE_APPEND and WRDE_REUSE. Every `malloc` and `realloc` may fail and every
`realloc` may move. The slots a `realloc` adds hold `Garbage` until the code stores
something, so the NULLs in the reserved slots and behind the words are there only because
`Split` writes them (`Stored`, wordexp.c:451-466). `SplitFails` is the WRDE_NOSPACE of lines
461-462, which hands over a vector with only some of its pointers stored. `expected` is
what the caller should read. `spoilt` is set when a
call returned WRDE_NOSPACE: the numbers of `we0` then run ahead of its blocks, and the
properties about the words are claimed up to there. `CallerSeesItsWords` is about the
words, `BlocksHaveOneOwner` about the blocks they are in: none is lost, and the two
`wordexp_t` share none. Run `wordexp`: WRDE_DOOFFS with one
reserved slot, calls of up to two words, five words in all, four vectors and areas.

`WordexpShell` is `we_askshell` and the shell with the two pipes between them. What a
shell prints is a script of pieces (the counts, words, warnings, errors). Run
`wordexp_shell`: pipes of two pieces and eleven scripts: complete ones, ones that
complain before, between or after the words, ones that stop too early, and one that
fills stderr before it announces anything. `SuccessIsComplete`: a call that succeeds has
every word the shell announced, and an error that was read is never a success.
`WaitsOnlyForStderr` says that the two end
up waiting for each other only when the pipe of stderr is full, which the code
admits since it reads stderr last. Fairness: parent and shell are scheduled; failures
(`NoMemory`, `ReadErrorsInterrupted`) are possible and never owed. Run
`wordexp_stderr` finds that one read of stderr does not see every error.

`WordexpProofs` proves of `Wordexp`, for any blocks, offsets and counts (`OffsAssumption`):
`TypeCorrect`, `BlocksCorrect`, `WordsCorrect`; of `WordexpShell`, for any scripts in which
no more words are printed than were announced and the count comes before them
(`OutputAssumption`) and any sizes of the pipes and of `err_buf`: `AskTypeCorrect`,
`CleanupCorrect` (`NothingLeftBehind`), `SuccessCorrect` (`SuccessIsComplete`). The
invariant of the first is `Owners`, the blocks one by one; `Kept`, the slots of the vector
and the cells of the area behind the caller's words (`Slots` says nothing of a slot no
pointer was stored in, `Closed` that the reserved ones and the last are NULL); and `Progress`, which of that the
temporary `we` has at each `pc`. The invariant of the second says where each piece of the
script is: still to be printed, in a pipe, or read (`OutIs`, `ScriptIs`).

## 9. Argv: Getopt and Setproctitle

The two rearrange the same vector: the scan permutes the pointers, and the titles are
written over the strings, which stay where they were. `Argv` extends both and runs one after the
other: `BeginTitles` gives `Setproctitle` an argv whose strings lie where the kernel put
them, in the order the scan left.

`Getopt` is the scan of argv by `_getopt_internal_r`. An element is what the scanner
can tell of it (operand, `--`, cluster of short options, long option). The exchange is
modelled swap by swap (`Exchange`), between `Advance` and `Skip`; `Call` is the entry of
each call, so callers see argv between them; `ScanAgain` is optind set to 0.
`Reference` is the documented meaning, computed from the command line without any
permutation in place: `ScanIsRight` compares the two, `OrdersKept` says that options
and operands keep their order, `RescanAgrees` that a second scan over what the first
left finds the same.

`Setproctitle`: a block of addresses with the strings of argv and environ as the kernel
laid them out, `NSArgv` and `environ` as sequences of strings in the block or on the
heap, `overwritten` the bytes under a title. `CopyEnviron`, `Walk` (the loop that measures
the block), `DetachFails`, `Detach`, `Names`, `Format`, `Fail`, `SetFast` are the steps under `spt_lock`; after `Fail` the
next call prepares the space again, from whatever the last left. `SetEnv` is the
program's own setenv between calls. `TitleHarmsNothing` is about every step: argv and
environ keep their texts, the title stays on what were strings of the process, and
`setproctitle(NULL)` brings back the command line or the name.

Run `argv`: all command lines of up to three of ten elements and of four and five of
four elements, all three orderings, with and without `getopt_long_only`, options that
take no, a required and an optional argument, `-W`, abbreviated, ambiguous and unknown
long options; then, for programs with up to three strings, two threads that set titles
over a contiguous block, a block with a hole before environ, strings in another order
and a block with nothing to write on.

`ArgvProofs` proves, for any command lines and options (`OptionAssumption`) and any
strings at any addresses (`LayoutAssumption`): `ScanTypeCorrect`, `TitleTypeCorrect`,
`OrdersCorrect` (`OrdersKept`), `ScanCorrect` (`ScanIsRight`), `RescanCorrect`
(`RescanAgrees`) and `TitleCorrect` (`TitleHarmsNothing`), the last four of the program that
does both. For the titles, `SptInv` says that argv and environ are what they
were or copies on the heap (`StringsKept`), that nothing is written before both are out of
the way (`Prepared`), and how far the preparing thread is (`At`): the measured space ends
where the strings stop adjoining each other, so all of it is the process's own. For the
scan, `Arranged` says that the elements before `optind` that were passed over are, in
order, those between `first_nonopt` and `last_nonopt`, and `Rotated` what is true between
two swaps of an exchange: each swap moves its segment into place and leaves a smaller
rotation to do.

That a scan returns what it should (`ScanIsRight`) needs a statement about the middle of a
scan. `Outcomes` gives what the documentation says of the scan that begins at each index of
the command line. `Right` says that what was returned so far, followed by what the scan from
`optind` on comes to, is what the whole comes to, and in the same way for the options
already in front and the operands passed over; `Over` says it of a scan that has ended, when
nothing follows. `RightInv` places these along the steps: in an exchange they are true of argv
as the remaining swaps will leave it, inside a cluster of what was returned before
it (`InCluster`). `OutcomesAre`, that `Outcomes` satisfies its own equation at every index,
is proved from `OutcomeLooksAhead`: each index is computed from larger ones only. One
assumption on the options was needed that the code has as well: `val` of a long option is
not what `LongOptionResult` gives for "no such option".

That a second scan returns the same (`RescanCorrect`, for `RescanAgrees`) compares the
outcomes of two command lines, index by index from the end (`ScansAgain`). The elements of
the first stand in the second in another order, so the statement needs the operands passed
over on the way: `Again(o, w, q, K)` says that where the options in front according to
outcome `o`, then operands `K`, then the operands of `o` stand in `w` from index `q` on, the
scan of `w` from `q` comes to the same returns with `K` before its operands. `OptionShifts`
is the step at an option: it reads the same anywhere the element it is in and the one it
takes stand together, provided it did not lack its argument. At the end argv had no
element left to take, and after the permutation an operand may stand there; this is why
`RescanAgrees` excludes it. `RescanInv` then says of the steps that only `PERMUTE` moves
anything, and that a scan after the first has before it a command line that comes to the
returns of the first.

## 10. Containers

Nothing ties these six together but that each is sequential and small, so one run
checks them all: a behaviour of `Containers` is the life of one of them. `Stores` has
five of them, each with variables of its own; `Containers` extends it with `Argz`, whose steps
leave the variables of `Stores` alone.

* `Obstack` works on a memory of bytes, since its hazards are those of addresses:
  objects that end where a chunk ends, chunks that touch, chunks that are freed and
  used again. `chunks` is the chain from `h->chunk` along `prev`; `Grow` stands for the
  growing macros with `_obstack_newchunk`, `Finish` and `Free` for the macros and
  `__obstack_free`. `objects` and `growing` (history) say what the caller put where;
  `ObjectsSurvive` compares. 13 addresses, chunks of four with a header of one,
  alignment 2: two or three chunks, adjacent or not, at any free place. The 100 bytes of
  slack are scaled down to 1: all that matters is that it covers the header.
* `Hsearch` is the probing of `hsearch_r` with its two hashes; `entered` (history) is
  the map it stands for and `SearchIsMap` the comparison. Keys with the hash values
  1, 9, 30, 51, 72 and 30 of an 8-bit unsigned, in tables of 3, 5 and 11 buckets, so that
  both hashes collide and tables fill; a size that overflows is refused.
* `Argz` is the calls that change a vector, on the bytes of its block, and `argz_len` as
  each call computes it by itself: the sum of `argz_create`, the count of
  `argz_create_sep` and `argz_add_sep`, which goes down by one for a delimiter that is
  passed over (`Cut`), the `-=` of `argz_delete`, the lengths `argz_replace` adds up.
  `ArgzReplace` makes its copy as the code does: nothing until the first match, which takes
  all before it along (`CopyEntry`), each string built by `strstr` and `str_append`
  (`Substituted`). `entries` (history) is the sequence of strings that is meant, computed
  without blocks (`Fields`, `Replaced`, `Joined`), and `VectorIsItsStrings` the comparison of the
  bytes, the length and the walk with it. `argz_insert` before a place inside the first entry goes
  back past the beginning of the block (section 12): `Ahead` is what may lie there, and
  `astray` says that the caller lost the block or got one with bytes that are not its
  own; only `argz_create` is called after that. `*replace_count` is not modelled.
  Strings with the delimiter before, behind, twice and not at all, six bytes in all, up
  to two arguments (`MaxArgc`), each allocation able to fail. Mutants: a cut at every delimiter
  (`CutEach`), and a copy that begins at the first match (`CopyFromMatch`).
* `Dynarray` is the skeleton with its scratch buffer of one, heap blocks from two on and
  the failed state; `SizeMax` is 13 bytes of 2-byte elements, so that the product
  overflows. `ElementsHaveOneOwner`: elements are kept in place, freed once or handed out.
* `NodeSet` is the sorted sets of the regex matcher, united, merged and intersected in one
  array with the space above the elements as a workbench. Each round of a loop of
  `re_node_set_merge`, `_add_intersect`, `_init_union`, `_insert` and `_contains` is a step
  (`loop` is the loop, `i1`, `i2`, `id`, `is` and `sbase` are the code's places); `members`
  (history) is the set that is meant, `beyond` (history) a store outside the block, and
  `ArrayIsTheSet` the comparison between two calls. The other sets are any of four nodes. A
  realloc may fail; a creation that fails, which leaves a set that may only be freed, and
  `re_node_set_compare` are left out.
* `Services` is the walk of `getservent_r` through the services file (its two blocks,
  the vector of aliases that doubles), the lookup of a name and the packing of
  `getservbyname_r` into the caller's buffer: `ServicesAreTheFile`, over five files with
  comments, broken lines, a comma for the slash, "udplite", "sctp" (which the lookup passes
  over), repeated names and four aliases where two have room, buffers of up to 16 bytes and
  pointers of 4. The lookup takes any word of a line for its name (`Words`), the second
  one, "80/tcp", too; the property is about names that are not such a word.

`StoresProofs` proves the five of `Stores` of `StoreSpec`, `ContainersProofs` the sixth and
(`ContainersCorrect`) all of them of the specification of the containers, which implies
`StoreSpec`; for any values of the constants that `StoreAssumption` and `ContainerAssumption`
admit:

* `ElementsCorrect` (`ElementsHaveOneOwner`). The invariant says what lies in the array and
  what has become of every element that was ever added (`Owned`), by where the array is:
  scratch buffer, heap or failed.
* `SearchCorrect` (`SearchIsMap`). `TableInv`: the size is a prime, every taken bucket holds
  an entry under its own hash, and every key that was entered stands at the end of a
  chain of taken buckets of its own probes (`Chain`). That a search ends where it should
  is number theory: a prime that divides a product divides a factor, so the first `size`
  probes are all different and come by every bucket, and the next is the first again
  (`PrimeDividesFactor`, `ProbesComeBy`). The run's mutant, odd sizes that are not prime, is
  the case where this fails.
* `ServicesCorrect` (`ServicesAreTheFile`). `WalkInv`: which of the two blocks the walk has,
  how many of the aliases of the line in hand stand in their vector, and that no entry was
  passed over. That a name is found in its first line is about the loop of the lookup
  (`FirstHit`, `NoHit`), that the caller's buffer suffices about its alignment (`Remainders`).
* `ObjectsCorrect` (`ObjectsSurvive`). `ObInv`: chunks do not overlap and have room behind
  their header (`ChunksApart`), every object lies in a chunk with its bytes, and objects are
  stacked: of two, the later is in the same chunk, behind the first, or in one nearer to
  the top (`Stacked`). That is why freeing down to an object frees none that is older. The
  conjunct that the code's flag is about is `OnTop`: while `maybe_empty_object` is false,
  no object of the top chunk is empty, so an object that begins where the chunk's contents
  begin has the chunk to itself, and `_obstack_newchunk` may free it (`EmptiedIsEmpty`). A chunk
  is found by its base being below the object and its limit not, so an empty object at the
  end of a chunk is not taken for one of the chunk that begins there (`FoundIs`).
* `NodeSetsCorrect` (`ArrayIsTheSet`). `SetInv` has a part for each loop. `Merges` and `Shares`:
  what lies on the workbench is in order, above the elements in place and behind them in
  the block, and is just what the loop has passed of the sources and the elements lack, so
  the estimates of lines 1060 and 1202 suffice. `Slides`: below `id` and from `sbase` to `is`
  lie the elements and the items still to be placed, above `id + delta` what is in its
  place and larger than both. The place written to is `id + delta`, which lies above `id` as
  long as items are left, and below `sbase` because no more of them are left than room:
  so nothing that is still to be read is lost (`ItemPlaced`). `Searching` says that a node that
  is there lies between `idx` and `right`, `Inserting` that what was moved up is larger.

* `VectorsCorrect` (`VectorIsItsStrings`). Assumed of the strings is only that they are
  sequences of characters other than NUL, and that the delimiter is not NUL. `VectorInv` is
  short, since every call makes its block anew: the strings are clean (no NUL in them), and
  unless a call went astray the block is theirs and `argz_len` its length. The work is in what
  the calls compute. `PlaceIs` says where a
  string lies in a block, so that the walk meets the strings (`StringsAreThere`) and going
  back from `before` ends at the beginning of an entry (`BeforeIs`); it also decides how many
  entries come before the new one (`InWhichEntry`). `CutIs` compares the loop of
  `argz_add_sep`, which looks at the byte written last and counts down its own length, with the
  strings between delimiters, which look ahead to the next one. It is an induction from the
  end, a string at a time. `SubstitutedIs`: what `str_append` builds from match to match is
  what a scan from left to right, a character at a time, replaces (`ReplacedIsScan`,
  `ScanGoesToMatch`). `CopyEntryIs` and `BlockCopied` say what the delayed copy is behind each
  entry: nothing as long as there was no match, then all strings so far with theirs replaced,
  and `dst_len` their length; a copy that stays delayed means that nothing was to be
  replaced. `InsertAheadKeeps` is the insertion that goes back past the block: with a NUL right
  ahead of it the entry becomes the first, and otherwise nothing is claimed. `JoinedIs` is
  `argz_stringify`.

The loops of `Hsearch`, `Services` and `Argz` are recursive functions. An induction rule that takes an
operator is out of the provers' reach, but one for the numbers of a set is not: `LeastOf`
(a set of numbers has a least one) follows from the well-foundedness of the finite sets of
numbers, `UpTo` is induction, `Rounds` says that a loop of n rounds has a result, and `Jumps` that one
has whose rounds skip any number of places.

## 11. Regex

Five modules follow the three source files in the order in which data passes through
them: `RegexParse` (tokens, the tree), `RegexCompile` (nodes, closures, the fastmap, the
initial states), `RegexMatch` (the state log with the back-references and what they
cache), `RegexExec` (the sifting, the registers, the loop over the starting places) and
`RegexApi` (the calls on one buffer and one set of registers, as a state machine; a
step is one round of the loop of `re_search_internal`). Functions of the code are
operators here, and what the code computes lazily and caches (states and transitions)
is a function of the node set.

`RegexReference` knows nothing of all that. It says by structure what an expression
means and which ways there are to match. The properties hold the one against the other:
`FindsLeftmostLongest`, `RegistersAreAParse` (all registers come from one way to
match), `NothingIsSkipped` (the fastmap and the anchors rule out no match),
`SyntaxesAgree` (basic and extended syntax give one automaton), `RegistersAreUsable`
(`re_set_registers` and `re_copy_regs` keep or replace both arrays) and
`EveryCallReturns`.

Run `regex`: 27 programs from 19 expressions, in both syntaxes, with REG_ICASE,
REG_NEWLINE and REG_NOSUB where they matter, three of them through
`re_compile_pattern`; all strings over two characters of up to four and seven others;
`nmatch` 0, 1 and 3; RE_DUP_MAX 3. `regexec` begins at the first character and, with
REG_STARTEND, at the third (`Starts`); a start outside the string is refused
(`ReSearchOutside`), the array of the matches and each of the two arrays of registers may find no
memory. The programs are ones for which the promise is kept:
section 12 names expressions for which it is not. Fairness, for `EveryCallReturns`
only: the thread of a call runs. `bufp->lock` is held through a whole search, so the
callers of a buffer come one after another and need no more interleaving than that.

## 12. Divergences from what the sources say

Two runs expect a violation, and show it:

* `sendfile_trailers`: `src/src/sys/socket/sendfile.c:231` says trailers are sent
  "always completely"; a short `writev` at line 233 is not continued, and the call
  returns 0.
* `wordexp_stderr`: `src/src/wordexp/wordexp.c:68-71` says stderr is captured to find
  errors of a shell that exits with success; line 411 reads it once, so an error
  behind a warning that was read alone is missed, and the call succeeds.

Others are in the models as they are in the code, without a run of their own:

* `sendfile.c:244`: the successful return does not pass through `cleanup`, so the
  file offset is not restored (comment at line 253) and the buffer is not freed.
* `sendfile.c:218`: a write error after part of the buffer was sent leaves that part
  out of `*len` (comment at line 247); `BytesAccountedFor` allows exactly this gap.
* `popen.c:194`: closed streams stay on `pidlist`, since nothing here takes them off;
  a later `posix_spawn` then fails with EBADF (comment at lines 187-191 speaks of a race
  only).
* `wordexp.c:155`: with WRDE_APPEND and without WRDE_REUSE the old vector and strings
  are not freed (comment at line 560); the history variable `left` names them.
* `wordexp.c:282`: when the shell cannot be started, SIGCHLD stays blocked; the branch
  for other systems restores the mask at line 296. `NothingLeftBehind` is claimed for
  calls that started a shell.
* `accept4.c:37`: O_CLOEXEC is not among what F_SETFL sets, so SOCK_CLOEXEC has no
  effect (the comment at lines 35-37 speaks of "matching behaviors"): a shell that is
  spawned later holds the socket. `DescriptorsHaveOneOwner` is about this process only.
* `fclose.c:112`: a descriptor taken by `fdclose` out of a stream of popen stays on
  `pidlist`, and the next shell closes whatever has that number.
* `dynarray_resize.c:25`: `resize` on a failed array does not look at `has_failed` (the
  comment at dynarray-skeleton.c:442 relies on "used > 0 implies that the array is the
  non-failed state"); the model's callers look first.
* `argz-replace.c`: `*replace_count` grows by one for each string with a match, also
  when the call then fails; the header says it counts replacements.
* `argz-addsep.c:14`: when realloc fails the vector is lost and `*argz_len` keeps its
  length (`astray`).
* `argz-insert.c:13` lets a `before` inside the first entry through, and lines 16-18 then
  look for a NUL ahead of the block; what is moved and written begins there. The header
  (`src/install-include/string/argz.h:92-93`) says that BEFORE "should be an existing entry", so
  this is outside of what is promised, and `VectorIsItsStrings` claims nothing behind it
  (`astray`) unless the byte ahead of the block is a NUL.
* `lookup_serv.c:79`: `f->_close(f)` closes the file and never frees the FILE;
  line 68 takes "udplite" for "udp"; a line with a comma for the slash is found by
  `getservent_r` and not by the lookup; line 53 takes the second word of a line
  ("80/tcp") for a name.
* `servent_r.c:60`: a line whose realloc fails is lost, and the next call goes on behind it.
* `regexec.c`, `regcomp.c`: `(a)(b*)\2` with `nmatch` 2 finds nothing (lines 1237-1245
  leave a reference to a group behind `nmatch` out of the log); an anchor under a
  repetition as in `(x|^a){2}` loses its constraint in the copy; `$` without REG_NEWLINE
  matches before a newline when `nmatch` is at most 1; an escaped letter under
  REG_ICASE matches neither case; a star of anchors is a recursion of `regcomp` without
  end; `stop` is overrun by a back-reference, against regexec.c:239-241. The run's
  expressions keep clear of these.
* `regex_internal.c`: after a failed `re_node_set_insert` the array is smaller than
  `alloc` says; such a set may only be freed, and the code does no more with it.
* `wordexp.c:441`: with nothing on stderr, `err_buf` is searched without having been
  written; the model lets it hold an error message (`garbage`).

## 13. What is proved and what is checked

Proved, for all values of the constants that the named assumptions of the modules admit
and from nothing else:

| module | about | theorems that state a property of a run |
|---|---|---|
| `NetconfigProofs` | `Netconfig` | `RefcountIsExact`, `HandedOutStaysValid`, `NoPartialTable`, `NotFoundIsTrue`, the refinement `ImplementsDB` |
| `NetpathProofs` | `Netpath` | `ReturnedStaysValid`, `OnlyAbsentIsSkipped`, `UsesDatabaseByItsRules` |
| `StreamsProofs` | `Popen`, `Streams` | `DescriptorsHaveOneOwner`, `ShellIsConnected` |
| `KernelProofs` | `Sendfile`, `Ppoll` | `BytesAccountedFor`, `StreamInOrder`, `CleanupRestoresOffset`, `MaskRestored`, `NoLostSignal`, `ResultIsTrue`, `TimeoutIsExact` |
| `WordexpProofs` | `Wordexp`, `WordexpShell` | `CallerSeesItsWords`, `BlocksHaveOneOwner`, `NothingLeftBehind`, `SuccessIsComplete` |
| `ArgvProofs` | `Getopt`, `Setproctitle`, `Argv` | `ScanIsRight`, `OrdersKept`, `RescanAgrees`, `TitleHarmsNothing` |
| `StoresProofs` | `Stores`: `Dynarray`, `Hsearch`, `Services`, `Obstack`, `NodeSet` | `ElementsHaveOneOwner`, `SearchIsMap`, `ServicesAreTheFile`, `ObjectsSurvive`, `ArrayIsTheSet` |
| `ContainersProofs` | `Containers`: `Argz`, and all six | `VectorIsItsStrings` |

Each of these modules also proves the type invariants of its components, as part of the
inductive invariant or as a theorem; they are not among the properties of the runs.
The theorems of `StoresProofs` are about `StoreSpec`; `ContainersCorrect` has them of the
specification of the run `containers`, which adds the steps of `Argz`.

Only model-checked:

* Liveness (`Returns`, `SignalWakes`, `WaitsOnlyForStderr`, `EveryCallReturns`), which needs
  fairness and ENABLED.
* Everything about regex, for good: parser, closures and matcher are recursive over trees
  and node sets, and no installed prover can do induction over data.

Every property of a passing run has a mutant in PROJECT.json: an operator that
changes one mapped definition as a plausible bug would, under which TLC finds the
property violated. Mutants stand in the component's module, before the definition they
replace, and are not used by the specification.

## 14. Not modelled

Components with status `not_modelled` in PROJECT.json, each with its reason there:
`tsearch` (two plain recursions over a tree of the system), user shells and passwd
scanning (characters of a line), the small wrappers (one call each).

Left out of the parts that are modelled:

* netconfig and netpath: formatting of messages (`nc_sperror`, `nc_perror`), the
  spelling of fields in /etc/netconfig (a line parses or does not), the cutting of NETPATH
  at colons (a path is a sequence of tokens).
* wordexp: the characters of words (`we_check`).
* setproctitle and getopt: the wording of titles and of complaints.
* streams: the buffers of a FILE, the mode string, what a cookie's functions do.
* services: `gethostbyname_r`, which copies what the system returned, so that what could
  go wrong is the system's; lines longer than the buffer of the lookup.
* obstack: what happens when the allocator fails (the program ends), and the functions
  that only look. dynarray: the variant that frees the array as a whole.
* regex: multibyte characters, collation and equivalence classes of several characters
  (`sift_states_iter_mb`, `transit_state_mb`, `check_node_accept_bytes`,
  `find_collation_sequence_value`), `optimize_utf8`, translation tables, the growth of the buffers
  (`extend_buffers`), the hash tables of states and transitions (`re_acquire_state`,
  `build_trtable` appear as the functions they cache), and failures of malloc other than
  those of the registers. `transit_state_sb` is not compiled.

