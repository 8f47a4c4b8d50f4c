------------------------------ MODULE ExecArgs ------------------------------
(***************************************************************************)
(* How a program gets its arguments (execv-args.md): execv copies the      *)
(* words of the caller into arrays of the process (syscall_process.c,      *)
(* process.c), the image is replaced, and the start code of the new        *)
(* program fetches them with getargs and calls main (user.c).              *)
(*                                                                         *)
(* Between the steps other processes run, fork, die and hand on their      *)
(* slots.  A word is a sequence of characters: it is cut to fit its array. *)
(* An exec that runs out of memory is in module Memory.                    *)
(***************************************************************************)
EXTENDS Integers, Sequences

CONSTANTS Procs, AppIds,          \* slots; numbers that stand for a program
          Words, MaxWords,        \* the words given, and how many at most
          PROC_EXEC_ARGV_MAX, PROC_EXEC_ARG_LEN

ASSUME ArgsSizes ==
    {MaxWords, PROC_EXEC_ARGV_MAX, PROC_EXEC_ARG_LEN} \subseteq Nat \ {0}

Rows == 0 .. PROC_EXEC_ARGV_MAX - 1
Columns == 0 .. PROC_EXEC_ARG_LEN - 1
EndOfString == "NUL"
Characters(w) == {w[i] : i \in DOMAIN w}
Letters == (UNION {Characters(w) : w \in Words}) \ {EndOfString}
None == 0                         \* no program: a number resolve_app_image does not know
ASSUME WordsAssumption == Words \subseteq Seq(Letters)

VARIABLES
    name,                         \* of the program, None in a free slot
    exec_argc, exec_argv,
    main,                         \* the arguments main was called with, or Starting
    given                         \* history: the words the program was given

argsVars == <<name, exec_argc, exec_argv, main, given>>

Starting == << <<EndOfString>> >>
Empty == [i \in Rows |-> [j \in Columns |-> EndOfString]]

\* The shell is created at boot.
ArgsInit == \E p \in Procs, app \in AppIds :
    /\ name = [q \in Procs |-> IF q = p THEN app ELSE None]
    /\ exec_argc = [q \in Procs |-> 0]
    /\ exec_argv = [q \in Procs |-> Empty]
    /\ main = [q \in Procs |-> Starting]
    /\ given = [q \in Procs |-> <<>>]

Live(p) == name[p] # None
InMain(p) == Live(p) /\ main[p] # Starting

-----------------------------------------------------------------------------
\* Characters up to the NUL or the size of a row, whose last one is a NUL.
CopiedWord(row, word) ==
    [j \in Columns |-> IF j = PROC_EXEC_ARG_LEN - 1 THEN EndOfString
                       ELSE IF j < Len(word) THEN word[j + 1]
                       ELSE IF j = Len(word) THEN EndOfString
                       ELSE row[j]]

Least(a, b) == IF a < b THEN a ELSE b

\* Zeroed rows first: nothing of the kernel's stack is copied on.
copy_user_argv(argv) ==
    [argc |-> Least(Len(argv), PROC_EXEC_ARGV_MAX),
     argv |-> [i \in Rows |-> IF i < Len(argv) THEN CopiedWord(Empty[i], argv[i + 1]) ELSE Empty[i]]]

\* The characters of a row before its NUL; a row without one would run on.
String(row) ==
    LET ends == {n \in Columns : row[n] = EndOfString} \cup {PROC_EXEC_ARG_LEN}
    IN [j \in 1 .. (CHOOSE n \in ends : \A k \in ends : n <= k) |-> row[j - 1]]

set_exec_args_Keep(p, argc, argv) ==
    IF argc = 0 THEN UNCHANGED <<exec_argc, exec_argv>>
    ELSE /\ exec_argc' = [exec_argc EXCEPT ![p] = argc]
         /\ exec_argv' = [exec_argv EXCEPT ![p] =
                [i \in Rows |-> IF i < argc THEN CopiedWord(@[i], String(argv[i])) ELSE @[i]]]

set_exec_args(p, argc, argv) ==
    /\ exec_argc' = [exec_argc EXCEPT ![p] = Least(argc, PROC_EXEC_ARGV_MAX)]
    /\ exec_argv' = [exec_argv EXCEPT ![p] =
           [i \in Rows |-> IF i < argc THEN CopiedWord(Empty[i], String(argv[i])) ELSE Empty[i]]]

process_exec(p, app, argc, argv, words) ==
    /\ name' = [name EXCEPT ![p] = app]
    /\ set_exec_args(p, argc, argv)
    /\ main' = [main EXCEPT ![p] = Starting]
    /\ given' = [given EXCEPT ![p] = words]

syscall_handle_exec(p, app) ==
    /\ InMain(p)
    /\ process_exec(p, app, 0, Empty, <<>>)

syscall_handle_execv(p, app, words) ==
    LET copy == copy_user_argv(words) IN
    /\ InMain(p)
    /\ process_exec(p, app, copy.argc, copy.argv, words)

\* user_main_entry: main runs on what getargs returns.
syscall_handle_getargs(p) ==
    /\ Live(p) /\ main[p] = Starting
    /\ main' = [main EXCEPT ![p] = [i \in 1 .. exec_argc[p] |-> String(exec_argv[p][i - 1])]]
    /\ UNCHANGED <<name, exec_argc, exec_argv, given>>

-----------------------------------------------------------------------------
(* Slots: clear_exec_args when one is taken and when it is given back.     *)

\* The child goes on in its parent's main, with its own copy of the arguments.
process_fork(p, q) ==
    /\ InMain(p) /\ ~Live(q)
    /\ name' = [name EXCEPT ![q] = name[p]]
    /\ exec_argc' = [exec_argc EXCEPT ![q] = exec_argc[p]]
    /\ exec_argv' = [exec_argv EXCEPT ![q] = exec_argv[p]]
    /\ main' = [main EXCEPT ![q] = main[p]]
    /\ given' = [given EXCEPT ![q] = given[p]]

Cleared(q, app) ==
    /\ name' = [name EXCEPT ![q] = app]
    /\ exec_argc' = [exec_argc EXCEPT ![q] = 0]
    /\ exec_argv' = [exec_argv EXCEPT ![q] = Empty]
    /\ main' = [main EXCEPT ![q] = Starting]
    /\ given' = [given EXCEPT ![q] = <<>>]

syscall_handle_clone(p, q, app) == InMain(p) /\ ~Live(q) /\ Cleared(q, app)

recycle_process_slot(p) == Live(p) /\ (\E q \in Procs \ {p} : Live(q)) /\ Cleared(p, None)

ArgsNext ==
    \E p \in Procs :
        \/ syscall_handle_getargs(p)
        \/ \E app \in AppIds :
              \/ syscall_handle_exec(p, app)
              \/ \E n \in 0 .. MaxWords : \E words \in [1 .. n -> Words] :
                    syscall_handle_execv(p, app, words)
              \/ \E q \in Procs : syscall_handle_clone(p, q, app)
        \/ \E q \in Procs : process_fork(p, q)
        \/ recycle_process_slot(p)

ArgsSpec == ArgsInit /\ [][ArgsNext]_argsVars

-----------------------------------------------------------------------------
\* What main is to get: the first words, each cut to its row (execv-args.md).
Expected(words) ==
    [i \in 1 .. Least(Len(words), PROC_EXEC_ARGV_MAX) |->
        SubSeq(words[i], 1, Least(Len(words[i]), PROC_EXEC_ARG_LEN - 1))]

\* A row of a live process ends with a NUL: no argument runs into the next.
ArgsTypeOK ==
    \A p \in Procs :
        /\ exec_argc[p] \in 0 .. PROC_EXEC_ARGV_MAX
        /\ \A i \in Rows : exec_argv[p][i][PROC_EXEC_ARG_LEN - 1] = EndOfString

\* main gets the words of the exec that started it, and nothing of a program
\* that ran in the process before or that had the slot before it: also in a
\* forked child, and none at all after exec and clone.
ArgsAsGiven == \A p \in Procs : InMain(p) => main[p] = Expected(given[p])

\* getargs answers the same whenever it is asked: a fork that goes on in main
\* holds the arguments of its parent.
ArgsStay ==
    \A p \in Procs : Live(p) =>
        [i \in 1 .. exec_argc[p] |-> String(exec_argv[p][i - 1])] = Expected(given[p])

\* Together: main gets its own words, now and later (set_exec_args, getargs).
ArgsDelivered == ArgsTypeOK /\ ArgsAsGiven /\ ArgsStay
=============================================================================
