------------------------------- MODULE Shell --------------------------------
(***************************************************************************)
(* The command loop of the shell (user/apps/shell/main.c, utils.c): parse  *)
(* a line, bind descriptors 0 and 1 to the files of < and >, run a command *)
(* of its own or a forked child, and take the descriptors back.            *)
(*                                                                         *)
(* A descriptor that is not open means the console for 0 and 1 (fs.c), and *)
(* open returns the lowest free descriptor, which at the prompt is 0.  A   *)
(* line is a sequence of words.  When descriptor 0 is a file the shell     *)
(* reads its lines from there; at its end every getchar() fails, which the *)
(* line editor takes for a character, until the line is too long.          *)
(*                                                                         *)
(* dup2 cannot fail here: both descriptors are in range and the first one  *)
(* has just been opened.                                                   *)
(***************************************************************************)
EXTENDS Integers, Sequences, SequencesExt

CONSTANTS FS_FD_MAX, ARGV_MAX,
          ChildSlots,                  \* process slots for children of the shell
          Lines,                  \* the lines typed, as sequences of words
          Readable, Writable,     \* words that name a file open can read, write
          Apps, Builtins          \* words that name a program, a command of the shell

ASSUME ShellSizes == FS_FD_MAX \in Nat /\ FS_FD_MAX >= 3 /\ ARGV_MAX \in Nat \ {0}
ASSUME SlotsAssumption == 0 \notin ChildSlots

Fds == 0 .. FS_FD_MAX - 1
STDIN == 0
STDOUT == 1
Console == "console"
NoPath == "no path"
ASSUME NotFiles == {Console, NoPath} \cap (Readable \cup Writable) = {}

VARIABLES
    pc,
    cmd,            \* the line, parsed: argv and the paths of < and >; none at the prompt
    fd_table,       \* of the shell: a path, or Console when not open
    redirected,     \* which of STDIN and STDOUT the shell will close
    child,          \* per slot: state, started with &; while it runs its descriptors
                    \* and, as history, the paths of its line
    waits_for,      \* the child of the foreground command; 0 when there is none
    abandoned       \* history: a line was dropped between < and >

shellVars == <<pc, cmd, fd_table, redirected, child, waits_for, abandoned>>

NoCommand == [argv |-> <<>>, in_path |-> NoPath, out_path |-> NoPath, want |-> "word"]
NoChild == [state |-> "free", background |-> FALSE, fds |-> [f \in Fds |-> Console],
            in_path |-> NoPath, out_path |-> NoPath]

ShellInit ==
    /\ pc = "prompt"
    /\ cmd = NoCommand
    /\ fd_table = [f \in Fds |-> Console]
    /\ redirected = {}
    /\ child = [s \in ChildSlots |-> NoChild]
    /\ waits_for = 0
    /\ abandoned = FALSE

-----------------------------------------------------------------------------
(* Parsing.                                                                *)

split_args(line) == SubSeq(line, 1, IF Len(line) < ARGV_MAX THEN Len(line) ELSE ARGV_MAX)

\* The word after < or > is a path whatever it is; the last one counts.
Parsed(c, word) ==
    CASE c.want = "in" -> [c EXCEPT !.in_path = word, !.want = "word"]
      [] c.want = "out" -> [c EXCEPT !.out_path = word, !.want = "word"]
      [] c.want = "word" /\ word = "<" -> [c EXCEPT !.want = "in"]
      [] c.want = "word" /\ word = ">" -> [c EXCEPT !.want = "out"]
      [] OTHER -> [c EXCEPT !.argv = Append(@, word)]

\* A path is missing exactly when something is still wanted at the end.
parse_redirection(argv) == FoldLeft(Parsed, NoCommand, argv)

is_background(argv) == argv[Len(argv)] = "&"

ReadLine(line) ==
    LET c == parse_redirection(split_args(line)) IN
    /\ pc = "prompt"
    /\ IF c.want = "word" /\ c.argv # <<>>
         THEN cmd' = c /\ pc' = "stdin"
         ELSE UNCHANGED <<cmd, pc>>
    /\ UNCHANGED <<fd_table, redirected, child, waits_for, abandoned>>

\* At the end of a file on descriptor 0: "command too long", over and over.
ReadEof ==
    /\ pc = "prompt" /\ fd_table[STDIN] # Console
    /\ UNCHANGED shellVars

-----------------------------------------------------------------------------
(* Redirection.                                                            *)

LowestFree == CHOOSE f \in Fds : fd_table[f] = Console /\ \A g \in 0 .. f - 1 : fd_table[g] # Console

Bind_CloseAlways(path, std) ==
    [[fd_table EXCEPT ![std] = path] EXCEPT ![LowestFree] = Console]

\* open(path), and unless it is std already dup2 to std and close.
Bind(path, std) ==
    [f \in Fds |-> IF f = std THEN path
                   ELSE IF f = LowestFree THEN Console ELSE fd_table[f]]

OpenIn ==
    /\ pc = "stdin"
    /\ \/ /\ cmd.in_path = NoPath
          /\ pc' = "stdout"
          /\ UNCHANGED <<cmd, fd_table, redirected>>
       \/ /\ cmd.in_path \in Readable
          /\ fd_table' = Bind(cmd.in_path, STDIN)
          /\ redirected' = {STDIN}
          /\ pc' = "stdout"
          /\ UNCHANGED cmd
       \/ /\ cmd.in_path \notin Readable \cup {NoPath}
          /\ pc' = "prompt" /\ cmd' = NoCommand
          /\ UNCHANGED <<fd_table, redirected>>
    /\ UNCHANGED <<child, waits_for, abandoned>>

\* When the second open fails the first is not undone.
OpenOut ==
    /\ pc = "stdout"
    /\ \/ /\ cmd.out_path = NoPath
          /\ pc' = "run"
          /\ UNCHANGED <<cmd, fd_table, redirected, abandoned>>
       \/ /\ cmd.out_path \in Writable
          /\ fd_table' = Bind(cmd.out_path, STDOUT)
          /\ redirected' = redirected \cup {STDOUT}
          /\ pc' = "run"
          /\ UNCHANGED <<cmd, abandoned>>
       \/ /\ cmd.out_path \notin Writable \cup {NoPath}
          /\ pc' = "prompt" /\ cmd' = NoCommand
          /\ redirected' = {}
          /\ abandoned' = (abandoned \/ redirected # {})
          /\ UNCHANGED fd_table
    /\ UNCHANGED <<child, waits_for>>

-----------------------------------------------------------------------------
(* The command.                                                            *)

run_builtin ==
    /\ pc = "run" /\ cmd.argv[1] \in Builtins
    /\ pc' = IF cmd.argv = <<"exit">> THEN "off" ELSE "close"
    /\ UNCHANGED <<cmd, fd_table, redirected, child, waits_for, abandoned>>

Free == {s \in ChildSlots : child[s].state = "free"}

\* An unknown command, or no slot for the fork.
run_external_fails ==
    /\ pc = "run" /\ cmd.argv[1] \notin Builtins
    /\ cmd.argv[1] \notin Apps \/ Free = {}
    /\ pc' = "close"
    /\ UNCHANGED <<cmd, fd_table, redirected, child, waits_for, abandoned>>

\* fork copies the descriptors; the child execs and the shell waits for it.
run_external(s) ==
    /\ pc = "run" /\ cmd.argv[1] \notin Builtins /\ cmd.argv[1] \in Apps
    /\ s \in Free
    /\ child' = [child EXCEPT ![s] = [state |-> "runs", background |-> is_background(cmd.argv),
                                      fds |-> fd_table,
                                      in_path |-> cmd.in_path, out_path |-> cmd.out_path]]
    /\ IF is_background(cmd.argv)
         THEN pc' = "close" /\ UNCHANGED waits_for
         ELSE pc' = "wait" /\ waits_for' = s
    /\ UNCHANGED <<cmd, fd_table, redirected, abandoned>>

ChildExits(s) ==
    /\ child[s].state = "runs"
    /\ child' = [child EXCEPT ![s] = [NoChild EXCEPT !.state = "exited", !.background = child[s].background]]
    /\ UNCHANGED <<pc, cmd, fd_table, redirected, waits_for, abandoned>>

\* Only the child of this command is waited for, now or ever.
waitpid ==
    /\ pc = "wait" /\ child[waits_for].state = "exited"
    /\ child' = [child EXCEPT ![waits_for] = NoChild]
    /\ waits_for' = 0
    /\ pc' = "close"
    /\ UNCHANGED <<cmd, fd_table, redirected, abandoned>>

\* A closed descriptor is the console again; < undoes what an earlier line left.
Close ==
    /\ pc = "close"
    /\ fd_table' = [f \in Fds |-> IF f \in redirected THEN Console ELSE fd_table[f]]
    /\ redirected' = {}
    /\ abandoned' = (abandoned /\ STDIN \notin redirected)
    /\ pc' = "prompt" /\ cmd' = NoCommand
    /\ UNCHANGED <<child, waits_for>>

ShellNext ==
    \/ \E line \in Lines : ReadLine(line)
    \/ ReadEof
    \/ OpenIn
    \/ OpenOut
    \/ run_builtin
    \/ run_external_fails
    \/ \E s \in ChildSlots : run_external(s) \/ ChildExits(s)
    \/ waitpid
    \/ Close

ShellSpec == ShellInit /\ [][ShellNext]_shellVars

-----------------------------------------------------------------------------
\* The variables have their types, and the shell waits only in waitpid.
ShellTypeOK ==
    /\ pc \in {"prompt", "stdin", "stdout", "run", "wait", "close", "off"}
    /\ cmd.want = "word"
    /\ redirected \subseteq {STDIN, STDOUT}
    /\ \A s \in ChildSlots : child[s].state \in {"free", "runs", "exited"}
    /\ waits_for \in ChildSlots \cup {0}
    /\ (pc = "wait") <=> (waits_for # 0)

\* At the prompt every descriptor is back at the console, the temporary ones
\* of open included, however the line before ended: except for the input of a
\* line that was dropped because its output could not be opened (main.c).
PromptIsClean ==
    pc = "prompt" =>
        \A f \in Fds : fd_table[f] = Console \/ (f = STDIN /\ abandoned)

\* A program gets the files of its line: its input and output are the last
\* paths given, its output is the console when none is given, and it inherits
\* nothing else (parse_redirection, main.c, fs_fork_copy_fds).
ChildRedirected ==
    \A s \in ChildSlots : child[s].state = "runs" =>
        LET c == child[s] IN
        /\ c.in_path # NoPath => c.fds[STDIN] = c.in_path
        /\ c.fds[STDOUT] = IF c.out_path = NoPath THEN Console ELSE c.out_path
        /\ \A f \in Fds \ {STDIN, STDOUT} : c.fds[f] = Console

\* At the prompt only programs started with & hold a process slot: what the
\* shell waits for is its foreground child, not any child that has exited, so
\* no foreground program is lost or left as a zombie (run_external).
SlotsAreBackground ==
    pc = "prompt" => \A s \in ChildSlots : child[s].state # "free" => child[s].background

\* Together: a line gets the files and the child it asks for and leaves nothing
\* behind but background children (main.c, run_external).
LinesRunAsAsked == ShellTypeOK /\ PromptIsClean /\ ChildRedirected /\ SlotsAreBackground
=============================================================================
