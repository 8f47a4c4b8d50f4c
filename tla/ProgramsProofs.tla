--------------------------- MODULE ProgramsProofs ---------------------------
(***************************************************************************)
(* Proofs about the programs: the command loop of the shell, for any lines,*)
(* files and number of children; the words an exec hands to main, for any  *)
(* words and sizes; the line editor, for any keys, names and sizes, and    *)
(* that it implements the editor of a text; the paths of a session, for    *)
(* any arguments; the command history, for any shells and lines.           *)
(***************************************************************************)
EXTENDS Shell, ExecArgs, LineEdit, UserPath, History, SequenceTheorems,
        FiniteSetTheorems, WellFoundedInduction, TLAPS

Closed(f) == fd_table[f] = Console

\* What the shell's descriptors are at each point of its loop, and which of
\* its children may be there.
Before == pc \in {"prompt", "stdin"}
Running == pc \in {"run", "wait", "close", "off"}

Tables ==
    /\ pc \in {"prompt", "stdin", "stdout", "run", "wait", "close", "off"}
    /\ cmd.want = "word"
    /\ redirected \subseteq {STDIN, STDOUT}
    /\ DOMAIN child = ChildSlots
    /\ \A s \in ChildSlots : child[s].state \in {"free", "runs", "exited"}
    /\ fd_table \in [Fds -> {Console} \cup Readable \cup Writable]
    /\ abandoned \in BOOLEAN

\* The input a line dropped between < and > left behind.
LeftInput == Closed(STDIN) \/ abandoned

Descriptors ==
    /\ \A f \in Fds \ {STDIN, STDOUT} : Closed(f)
    /\ Before => redirected = {} /\ LeftInput /\ Closed(STDOUT)
    /\ ~Before /\ cmd.in_path # NoPath => fd_table[STDIN] = cmd.in_path /\ STDIN \in redirected
    /\ ~Before => LeftInput \/ STDIN \in redirected
    /\ pc = "stdout" => Closed(STDOUT) /\ STDOUT \notin redirected
    /\ Running => fd_table[STDOUT] = IF cmd.out_path = NoPath THEN Console ELSE cmd.out_path
    /\ Running /\ cmd.out_path # NoPath => STDOUT \in redirected

Children ==
    /\ IF pc = "wait" THEN waits_for \in ChildSlots ELSE waits_for = 0
    /\ \A s \in ChildSlots : child[s].state # "free" /\ s # waits_for => child[s].background = TRUE

ShellInv == Tables /\ Descriptors /\ Children /\ ChildRedirected

-----------------------------------------------------------------------------
(* Binding a path to descriptor 0 or 1 changes that descriptor only: the   *)
(* one open returned is at the console again.                              *)

\* The two descriptors of a redirection, and one more for open.
LEMMA StdFds == STDIN \in Fds /\ STDOUT \in Fds /\ STDIN # STDOUT
  BY ShellSizes DEF Fds, STDIN, STDOUT

LEMMA LowestIsFree ==
    ASSUME Closed(STDIN) \/ Closed(STDOUT)
    PROVE  LowestFree \in Fds /\ Closed(LowestFree)
<1> DEFINE P(f) == fd_table[f] = Console /\ \A g \in 0 .. f - 1 : fd_table[g] # Console
<1>1. \E f \in Fds : P(f)
  <2>1. CASE Closed(STDIN)
    <3>1. P(STDIN)
      BY <2>1 DEF Closed, STDIN
    <3>2. QED
      BY <3>1, StdFds
  <2>2. CASE ~Closed(STDIN) /\ Closed(STDOUT)
    <3>1. 0 .. STDOUT - 1 = {STDIN}
      BY DEF STDIN, STDOUT
    <3>2. P(STDOUT)
      BY <3>1, <2>2 DEF Closed
    <3>3. QED
      BY <3>2, StdFds
  <2>3. QED
    BY <2>1, <2>2
<1>2. LowestFree = CHOOSE f \in Fds : P(f)
  BY DEF LowestFree
<1> HIDE DEF P
<1>3. LowestFree \in Fds /\ P(LowestFree)
  BY <1>1, <1>2
<1>4. QED
  BY <1>3 DEF P, Closed

\* What a redirection leaves: STDIN and STDOUT are apart, and every other
\* descriptor is what it was.
LEMMA Binds ==
    ASSUME Tables, NEW path, NEW std \in {STDIN, STDOUT},
           Closed(STDIN) \/ Closed(STDOUT)
    PROVE  Bind(path, std) = [fd_table EXCEPT ![std] = path]
<1>1. LowestFree \in Fds /\ fd_table[LowestFree] = Console
  BY LowestIsFree DEF Closed
<1>2. std \in Fds /\ DOMAIN fd_table = Fds
  BY StdFds DEF Tables
<1>3. fd_table = [f \in Fds |-> fd_table[f]]
  BY DEF Tables
<1>4. QED
  BY <1>1, <1>2, <1>3 DEF Bind

-----------------------------------------------------------------------------
(* Each step of the loop.                                                  *)

LEMMA ShellInitInv == ShellInit => ShellInv
<1> SUFFICES ASSUME ShellInit PROVE ShellInv
  OBVIOUS
<1>1. /\ pc = "prompt" /\ cmd.want = "word" /\ redirected = {} /\ waits_for = 0
      /\ abandoned = FALSE
      /\ \A f \in Fds : fd_table[f] = Console
  BY DEF ShellInit, NoCommand
<1>2. \A s \in ChildSlots : child[s].state = "free"
  BY DEF ShellInit, NoChild
<1>3. Tables
  BY <1>1, <1>2 DEF Tables, ShellInit
<1>4. Descriptors
  BY <1>1, StdFds DEF Descriptors, Before, Running, LeftInput, Closed
<1>5. Children /\ ChildRedirected
  BY <1>1, <1>2 DEF Children, ChildRedirected
<1>6. QED
  BY <1>3, <1>4, <1>5 DEF ShellInv

LEMMA ReadLineInv ==
    ASSUME ShellInv, NEW line, ReadLine(line)
    PROVE  ShellInv'
<1> DEFINE c == parse_redirection(split_args(line))
<1>1. /\ pc = "prompt"
      /\ \/ c.want = "word" /\ cmd' = c /\ pc' = "stdin"
         \/ cmd' = cmd /\ pc' = pc
      /\ UNCHANGED <<fd_table, redirected, child, waits_for, abandoned>>
  BY DEF ReadLine
<1>2. cmd'.want = "word" /\ pc' \in {"prompt", "stdin"}
  BY <1>1 DEF ShellInv, Tables
<1>3. Tables'
  BY <1>1, <1>2 DEF ShellInv, Tables
<1>4. Descriptors'
  BY <1>1, <1>2 DEF ShellInv, Descriptors, Closed, LeftInput, Before, Running
<1>5. Children' /\ ChildRedirected'
  BY <1>1, <1>2 DEF ShellInv, Children, ChildRedirected
<1>6. QED
  BY <1>3, <1>4, <1>5 DEF ShellInv

\* The new table has one more file, and is what it was elsewhere.
LEMMA OpenInInv ==
    ASSUME ShellInv, OpenIn
    PROVE  ShellInv'
<1>1. /\ pc = "stdin" /\ pc' \in {"stdout", "prompt"}
      /\ UNCHANGED <<child, waits_for, abandoned>>
  BY DEF OpenIn
<1>2. Children' /\ ChildRedirected'
  BY <1>1 DEF ShellInv, Children, ChildRedirected
<1>3. redirected = {} /\ LeftInput /\ Closed(STDOUT) /\ \A f \in Fds \ {STDIN, STDOUT} : Closed(f)
  BY <1>1 DEF ShellInv, Descriptors, Before
<1>4. CASE cmd.in_path = NoPath /\ pc' = "stdout" /\ UNCHANGED <<cmd, fd_table, redirected>>
  <2>1. Tables'
    BY <1>1, <1>4 DEF ShellInv, Tables
  <2>2. Descriptors'
    BY <1>1, <1>3, <1>4 DEF Descriptors, Closed, LeftInput, Before, Running
  <2>3. QED
    BY <2>1, <2>2, <1>2 DEF ShellInv
<1>5. CASE /\ cmd.in_path \in Readable /\ fd_table' = Bind(cmd.in_path, STDIN)
           /\ redirected' = {STDIN} /\ pc' = "stdout" /\ UNCHANGED cmd
  <2>1. fd_table' = [fd_table EXCEPT ![STDIN] = cmd.in_path]
    BY <1>3, <1>5, Binds DEF ShellInv
  <2>2. Tables'
    BY <1>1, <1>5, <2>1, StdFds DEF ShellInv, Tables
  <2>3. /\ fd_table'[STDIN] = cmd.in_path
        /\ \A f \in Fds \ {STDIN} : fd_table'[f] = fd_table[f]
    BY <2>1, StdFds DEF ShellInv, Tables
  <2>4. Descriptors'
    BY <1>1, <1>3, <1>5, <2>3, StdFds DEF Descriptors, Closed, LeftInput, Before, Running
  <2>5. QED
    BY <2>2, <2>4, <1>2 DEF ShellInv
<1>6. CASE pc' = "prompt" /\ cmd' = NoCommand /\ UNCHANGED <<fd_table, redirected>>
  <2>1. Tables'
    BY <1>1, <1>6 DEF ShellInv, Tables, NoCommand
  <2>2. Descriptors'
    BY <1>1, <1>3, <1>6 DEF Descriptors, Closed, LeftInput, Before, Running
  <2>3. QED
    BY <2>1, <2>2, <1>2 DEF ShellInv
<1>7. QED
  BY <1>4, <1>5, <1>6 DEF OpenIn

LEMMA OpenOutInv ==
    ASSUME ShellInv, OpenOut
    PROVE  ShellInv'
<1>1. /\ pc = "stdout" /\ pc' \in {"run", "prompt"}
      /\ UNCHANGED <<child, waits_for>>
  BY DEF OpenOut
<1>2. Children' /\ ChildRedirected'
  BY <1>1 DEF ShellInv, Children, ChildRedirected
<1>3. /\ Closed(STDOUT) /\ STDOUT \notin redirected
      /\ \A f \in Fds \ {STDIN, STDOUT} : Closed(f)
      /\ cmd.in_path # NoPath => fd_table[STDIN] = cmd.in_path /\ STDIN \in redirected
      /\ LeftInput \/ STDIN \in redirected
  BY <1>1 DEF ShellInv, Descriptors, Before
<1>4. CASE /\ cmd.out_path = NoPath /\ pc' = "run"
           /\ UNCHANGED <<cmd, fd_table, redirected, abandoned>>
  <2>1. Tables'
    BY <1>1, <1>4 DEF ShellInv, Tables
  <2>2. Descriptors'
    BY <1>1, <1>3, <1>4 DEF Descriptors, Closed, LeftInput, Before, Running
  <2>3. QED
    BY <2>1, <2>2, <1>2 DEF ShellInv
<1>5. CASE /\ cmd.out_path \in Writable /\ fd_table' = Bind(cmd.out_path, STDOUT)
           /\ redirected' = redirected \cup {STDOUT} /\ pc' = "run" /\ UNCHANGED <<cmd, abandoned>>
  <2>1. fd_table' = [fd_table EXCEPT ![STDOUT] = cmd.out_path]
    BY <1>3, <1>5, Binds DEF ShellInv
  <2>2. Tables'
    BY <1>1, <1>5, <2>1, StdFds DEF ShellInv, Tables
  <2>3. /\ fd_table'[STDOUT] = cmd.out_path
        /\ \A f \in Fds \ {STDOUT} : fd_table'[f] = fd_table[f]
    BY <2>1, StdFds DEF ShellInv, Tables
  <2>4. Descriptors'
    BY <1>1, <1>3, <1>5, <2>3, StdFds, NotFiles DEF Descriptors, Closed, LeftInput, Before, Running
  <2>5. QED
    BY <2>2, <2>4, <1>2 DEF ShellInv
<1>6. CASE /\ pc' = "prompt" /\ cmd' = NoCommand /\ redirected' = {}
           /\ abandoned' = (abandoned \/ redirected # {}) /\ UNCHANGED fd_table
  <2>1. Tables'
    BY <1>1, <1>6 DEF ShellInv, Tables, NoCommand
  <2>2. LeftInput'
    BY <1>3, <1>6 DEF LeftInput, Closed
  <2>3. Descriptors'
    BY <1>1, <1>3, <1>6, <2>2 DEF Descriptors, Closed, Before, Running
  <2>4. QED
    BY <2>1, <2>3, <1>2 DEF ShellInv
<1>7. QED
  BY <1>4, <1>5, <1>6 DEF OpenOut

\* A command of the shell itself, or one that cannot be started.
LEMMA RunHereInv ==
    ASSUME ShellInv, run_builtin \/ run_external_fails
    PROVE  ShellInv'
<1>1. /\ pc = "run" /\ pc' \in {"close", "off"}
      /\ UNCHANGED <<cmd, fd_table, redirected, child, waits_for, abandoned>>
  BY DEF run_builtin, run_external_fails
<1>2. Tables'
  BY <1>1 DEF ShellInv, Tables
<1>3. Descriptors'
  BY <1>1 DEF ShellInv, Descriptors, Closed, LeftInput, Before, Running
<1>4. Children' /\ ChildRedirected'
  BY <1>1 DEF ShellInv, Children, ChildRedirected
<1>5. QED
  BY <1>2, <1>3, <1>4 DEF ShellInv

\* The child starts with the descriptors of its line.
LEMMA RunExternalInv ==
    ASSUME ShellInv, NEW s \in ChildSlots, run_external(s)
    PROVE  ShellInv'
<1>1. /\ pc = "run" /\ pc' \in {"close", "wait"}
      /\ UNCHANGED <<cmd, fd_table, redirected, abandoned>>
      /\ waits_for = 0
  BY DEF run_external, ShellInv, Children
<1>2. /\ DOMAIN child' = ChildSlots
      /\ \A t \in ChildSlots \ {s} : child'[t] = child[t]
      /\ child'[s].state = "runs"
      /\ child'[s].background = is_background(cmd.argv)
      /\ child'[s].fds = fd_table
      /\ child'[s].in_path = cmd.in_path /\ child'[s].out_path = cmd.out_path
  BY DEF run_external, ShellInv, Tables
<1>3. Tables'
  BY <1>1, <1>2 DEF ShellInv, Tables
<1>4. Descriptors'
  BY <1>1 DEF ShellInv, Descriptors, Closed, LeftInput, Before, Running
<1>5. Children'
  <2>1. \/ is_background(cmd.argv) = TRUE /\ pc' = "close" /\ waits_for' = waits_for
        \/ pc' = "wait" /\ waits_for' = s
    BY DEF run_external, is_background
  <2>2. \A t \in ChildSlots : child[t].state # "free" => child[t].background = TRUE
    BY <1>1, SlotsAssumption DEF ShellInv, Children
  <2>3. QED
    BY <1>1, <1>2, <2>1, <2>2 DEF Children
<1>6. ChildRedirected'
  <2>1. /\ cmd.in_path # NoPath => fd_table[STDIN] = cmd.in_path
        /\ fd_table[STDOUT] = IF cmd.out_path = NoPath THEN Console ELSE cmd.out_path
        /\ \A f \in Fds \ {STDIN, STDOUT} : fd_table[f] = Console
    BY <1>1 DEF ShellInv, Descriptors, Closed, Before, Running
  <2>2. QED
    BY <1>2, <2>1 DEF ShellInv, ChildRedirected
<1>7. QED
  BY <1>3, <1>4, <1>5, <1>6 DEF ShellInv

LEMMA ChildExitsInv ==
    ASSUME ShellInv, NEW s \in ChildSlots, ChildExits(s)
    PROVE  ShellInv'
<1>1. UNCHANGED <<pc, cmd, fd_table, redirected, waits_for, abandoned>> /\ child[s].state = "runs"
  BY DEF ChildExits
<1>2. /\ DOMAIN child' = ChildSlots
      /\ \A t \in ChildSlots \ {s} : child'[t] = child[t]
      /\ child'[s].state = "exited"
      /\ child'[s].background = child[s].background
  BY DEF ChildExits, NoChild, ShellInv, Tables
<1>3. Tables'
  BY <1>1, <1>2 DEF ShellInv, Tables
<1>4. Descriptors'
  BY <1>1 DEF ShellInv, Descriptors, Closed, LeftInput, Before, Running
<1>5. Children'
  BY <1>1, <1>2 DEF ShellInv, Children
<1>6. ChildRedirected'
  BY <1>2 DEF ShellInv, ChildRedirected
<1>7. QED
  BY <1>3, <1>4, <1>5, <1>6 DEF ShellInv

LEMMA WaitpidInv ==
    ASSUME ShellInv, waitpid
    PROVE  ShellInv'
<1>1. /\ pc = "wait" /\ pc' = "close" /\ waits_for' = 0 /\ waits_for \in ChildSlots
      /\ UNCHANGED <<cmd, fd_table, redirected, abandoned>>
  BY DEF waitpid, ShellInv, Children
<1>2. /\ DOMAIN child' = ChildSlots
      /\ \A t \in ChildSlots \ {waits_for} : child'[t] = child[t]
      /\ child'[waits_for].state = "free"
  BY <1>1 DEF waitpid, NoChild, ShellInv, Tables
<1>3. Tables'
  BY <1>1, <1>2 DEF ShellInv, Tables
<1>4. Descriptors'
  BY <1>1 DEF ShellInv, Descriptors, Closed, LeftInput, Before, Running
<1>5. Children'
  BY <1>1, <1>2 DEF ShellInv, Children
<1>6. ChildRedirected'
  BY <1>2 DEF ShellInv, ChildRedirected
<1>7. QED
  BY <1>3, <1>4, <1>5, <1>6 DEF ShellInv

\* What the line opened is closed, and then nothing but the input of an
\* earlier line that was dropped can be open.
LEMMA CloseInv ==
    ASSUME ShellInv, Close
    PROVE  ShellInv'
<1>1. /\ pc = "close" /\ pc' = "prompt" /\ cmd' = NoCommand /\ redirected' = {}
      /\ abandoned' = (abandoned /\ STDIN \notin redirected)
      /\ UNCHANGED <<child, waits_for>>
      /\ \A f \in Fds : fd_table'[f] = IF f \in redirected THEN Console ELSE fd_table[f]
  BY DEF Close
<1>2. Tables'
  BY <1>1 DEF Close, ShellInv, Tables, NoCommand
<1>3. Children' /\ ChildRedirected'
  BY <1>1 DEF ShellInv, Children, ChildRedirected
<1>4. /\ \A f \in Fds \ {STDIN, STDOUT} : fd_table[f] = Console
      /\ LeftInput \/ STDIN \in redirected
      /\ fd_table[STDOUT] = Console \/ STDOUT \in redirected
  BY <1>1 DEF ShellInv, Descriptors, Before, Running, Closed
<1>5. LeftInput' /\ Closed(STDOUT)'
  BY <1>1, <1>4, StdFds DEF LeftInput, Closed
<1>6. Descriptors'
  BY <1>1, <1>4, <1>5 DEF Descriptors, Closed, Before, Running
<1>7. QED
  BY <1>2, <1>3, <1>6 DEF ShellInv

LEMMA ShellStutterInv ==
    ASSUME ShellInv, UNCHANGED shellVars
    PROVE  ShellInv'
<1>1. UNCHANGED <<pc, cmd, fd_table, redirected, child, waits_for, abandoned>>
  BY DEF shellVars
<1>2. Tables'
  BY <1>1 DEF ShellInv, Tables
<1>3. Descriptors'
  BY <1>1 DEF ShellInv, Descriptors, Closed, LeftInput, Before, Running
<1>4. Children' /\ ChildRedirected'
  BY <1>1 DEF ShellInv, Children, ChildRedirected
<1>5. QED
  BY <1>2, <1>3, <1>4 DEF ShellInv

LEMMA ShellInvImplies == ShellInv => LinesRunAsAsked
<1> SUFFICES ASSUME ShellInv PROVE LinesRunAsAsked
  OBVIOUS
<1>1. ShellTypeOK
  BY SlotsAssumption DEF ShellInv, Tables, Children, ShellTypeOK
<1>2. PromptIsClean
  BY DEF ShellInv, Descriptors, Before, LeftInput, Closed, PromptIsClean
<1>3. SlotsAreBackground
  BY SlotsAssumption DEF ShellInv, Children, SlotsAreBackground
<1>4. QED
  BY <1>1, <1>2, <1>3 DEF ShellInv, LinesRunAsAsked

\* Every line gets the files and the child it asks for, and at the next prompt
\* nothing is left of it but background children and the input of a line that
\* was dropped: whatever is typed, however many descriptors and children there
\* are, and whenever the children exit (main and run_external of the shell).
THEOREM ShellSafe == ShellSpec => []LinesRunAsAsked
<1>1. ShellInit => ShellInv
  BY ShellInitInv
<1>2. ShellInv /\ [ShellNext]_shellVars => ShellInv'
  BY ReadLineInv, OpenInInv, OpenOutInv, RunHereInv, RunExternalInv, ChildExitsInv, WaitpidInv,
     CloseInv, ShellStutterInv DEF ShellNext, ReadEof
<1>3. QED
  BY <1>1, <1>2, ShellInvImplies, PTL DEF ShellSpec

-----------------------------------------------------------------------------
(* The arguments of a program.  A word is cut twice on its way, once into  *)
(* the kernel's copy and once into the row of the process, and read up to  *)
(* its NUL: what comes out is the word, cut once.                          *)

Cut(w) == SubSeq(w, 1, Least(Len(w), PROC_EXEC_ARG_LEN - 1))
EmptyRow == [j \in Columns |-> EndOfString]
Fetched(p) == [i \in 1 .. exec_argc[p] |-> String(exec_argv[p][i - 1])]

ArgsInv ==
    /\ DOMAIN name = Procs /\ DOMAIN exec_argc = Procs /\ DOMAIN exec_argv = Procs
    /\ DOMAIN main = Procs /\ DOMAIN given = Procs
    /\ \A p \in Procs :
        /\ exec_argc[p] \in 0 .. PROC_EXEC_ARGV_MAX
        /\ \A i \in Rows : exec_argv[p][i][PROC_EXEC_ARG_LEN - 1] = EndOfString
        /\ Fetched(p) = Expected(given[p])
        /\ main[p] \in {Starting, Expected(given[p])}

LEMMA SizesNat ==
    /\ PROC_EXEC_ARGV_MAX \in Nat /\ PROC_EXEC_ARGV_MAX > 0
    /\ PROC_EXEC_ARG_LEN \in Nat /\ PROC_EXEC_ARG_LEN > 0
  BY ArgsSizes

\* A string ends at the first NUL of its row.
LEMMA StringEnds ==
    ASSUME NEW row, NEW k \in Columns, row[k] = EndOfString,
           \A j \in 0 .. k - 1 : row[j] # EndOfString
    PROVE  String(row) = [j \in 1 .. k |-> row[j - 1]]
<1> DEFINE ends == {n \in Columns : row[n] = EndOfString} \cup {PROC_EXEC_ARG_LEN}
           P(n) == \A l \in ends : n <= l
<1>1. k \in ends /\ P(k)
  BY SizesNat DEF Columns
<1>2. \A n \in ends : P(n) => n = k
  BY <1>1, SizesNat DEF Columns
<1>3. (CHOOSE n \in ends : P(n)) = k
  BY <1>1, <1>2
<1>4. QED
  BY <1>3 DEF String

LEMMA CutWord ==
    ASSUME NEW w \in Seq(Letters)
    PROVE  LET k == Least(Len(w), PROC_EXEC_ARG_LEN - 1) IN
           /\ k \in Columns /\ k \in Nat /\ k <= Len(w)
           /\ Cut(w) \in Seq(Letters) /\ Len(Cut(w)) = k
           /\ Cut(w) = [j \in 1 .. k |-> w[j]]
<1> DEFINE k == Least(Len(w), PROC_EXEC_ARG_LEN - 1)
<1>1. k \in Columns /\ k \in Nat /\ k <= Len(w)
  BY SizesNat DEF Least, Columns
<1> HIDE DEF k
<1>2. SubSeq(w, 1, k) = [j \in 1 .. k |-> w[j]]
  BY <1>1
<1>3. SubSeq(w, 1, k) \in Seq(Letters) /\ Len(SubSeq(w, 1, k)) = k
  BY <1>1
<1>4. Cut(w) = SubSeq(w, 1, k)
  BY DEF Cut, k
<1>5. QED
  BY <1>1, <1>2, <1>3, <1>4 DEF k

\* Copied into an empty row and read again, a word is cut and else the same.
LEMMA CopyReads ==
    ASSUME NEW w \in Seq(Letters)
    PROVE  String(CopiedWord(EmptyRow, w)) = Cut(w)
<1> DEFINE k == Least(Len(w), PROC_EXEC_ARG_LEN - 1)
           row == CopiedWord(EmptyRow, w)
<1>1. k \in Columns /\ k \in Nat /\ k <= Len(w) /\ Cut(w) = [j \in 1 .. k |-> w[j]]
  BY CutWord
<1>2. k <= PROC_EXEC_ARG_LEN - 1 /\ (k = PROC_EXEC_ARG_LEN - 1 \/ k = Len(w))
  BY SizesNat DEF Least
<1>3. row[k] = EndOfString
  BY <1>1, <1>2, SizesNat DEF CopiedWord, EmptyRow
<1>4. \A j \in 0 .. k - 1 : j \in Columns /\ row[j] = w[j + 1]
  BY <1>1, <1>2, SizesNat DEF CopiedWord, Columns
<1>5. \A j \in 0 .. k - 1 : row[j] # EndOfString
  <2>1. \A j \in 1 .. Len(w) : w[j] \in Letters
    OBVIOUS
  <2>2. EndOfString \notin Letters
    BY DEF Letters
  <2>3. \A j \in 0 .. k - 1 : j + 1 \in 1 .. Len(w)
    BY <1>1
  <2>4. QED
    BY <1>4, <2>1, <2>2, <2>3
<1> HIDE DEF k, row
<1>6. String(row) = [j \in 1 .. k |-> row[j - 1]]
  BY <1>1, <1>3, <1>5, StringEnds
<1>7. \A j \in 1 .. k : row[j - 1] = w[j]
  <2>1. \A j \in 1 .. k : j - 1 \in 0 .. k - 1 /\ (j - 1) + 1 = j
    BY <1>1
  <2>2. QED
    BY <2>1, <1>4
<1>8. QED
  BY <1>1, <1>6, <1>7 DEF row

LEMMA CutTwice ==
    ASSUME NEW w \in Seq(Letters)
    PROVE  Cut(Cut(w)) = Cut(w)
<1> DEFINE v == Cut(w)
           k == Least(Len(w), PROC_EXEC_ARG_LEN - 1)
<1>1. v \in Seq(Letters) /\ Len(v) = k /\ k \in Nat
  BY CutWord
<1>2. Least(Len(v), PROC_EXEC_ARG_LEN - 1) = k
  BY <1>1, SizesNat DEF Least
<1> HIDE DEF v, k
<1>3. Cut(v) = [j \in 1 .. k |-> v[j]]
  BY <1>1, <1>2, CutWord
<1>4. v = [j \in 1 .. k |-> v[j]]
  BY <1>1
<1>5. QED
  BY <1>3, <1>4 DEF v

\* A row of an array always ends in a NUL.
LEMMA RowEnds ==
    ASSUME NEW row, NEW w
    PROVE  CopiedWord(row, w)[PROC_EXEC_ARG_LEN - 1] = EndOfString
  BY SizesNat DEF CopiedWord, Columns

\* The rows of a process after an exec, of which argc are in use.
LEMMA SetArgs ==
    ASSUME ArgsInv, NEW p \in Procs, NEW app, NEW argc \in 0 .. PROC_EXEC_ARGV_MAX, NEW argv, NEW words,
           argc = Least(Len(words), PROC_EXEC_ARGV_MAX),
           \A i \in 0 .. argc - 1 :
               words[i + 1] \in Seq(Letters) /\ argv[i] = CopiedWord(EmptyRow, words[i + 1]),
           process_exec(p, app, argc, argv, words)
    PROVE  ArgsInv'
<1>1. /\ name' = [name EXCEPT ![p] = app]
      /\ main' = [main EXCEPT ![p] = Starting]
      /\ given' = [given EXCEPT ![p] = words]
  BY DEF process_exec
<1>2. Least(argc, PROC_EXEC_ARGV_MAX) = argc
  BY SizesNat DEF Least
<1>3. exec_argc' = [exec_argc EXCEPT ![p] = argc]
  BY <1>2 DEF process_exec, set_exec_args
<1> DEFINE rows == [i \in Rows |-> IF i < argc THEN CopiedWord(Empty[i], String(argv[i])) ELSE Empty[i]]
<1>4. exec_argv' = [exec_argv EXCEPT ![p] = rows]
  BY DEF process_exec, set_exec_args
<1>5. \A i \in Rows : Empty[i] = EmptyRow
  BY DEF Empty, EmptyRow
<1>6. \A i \in Rows : rows[i][PROC_EXEC_ARG_LEN - 1] = EndOfString
  <2>1. EmptyRow[PROC_EXEC_ARG_LEN - 1] = EndOfString
    BY SizesNat DEF EmptyRow, Columns
  <2>2. QED
    BY <1>5, <2>1, RowEnds
<1>7. \A i \in 0 .. argc - 1 : i \in Rows /\ String(rows[i]) = Cut(words[i + 1])
  <2> SUFFICES ASSUME NEW i \in 0 .. argc - 1 PROVE i \in Rows /\ String(rows[i]) = Cut(words[i + 1])
    OBVIOUS
  <2>1. i \in Rows /\ i < argc
    BY SizesNat DEF Rows
  <2> DEFINE w == words[i + 1]
  <2>2. w \in Seq(Letters) /\ argv[i] = CopiedWord(EmptyRow, w)
    OBVIOUS
  <2>3. rows[i] = CopiedWord(EmptyRow, String(argv[i]))
    BY <2>1, <1>5
  <2> HIDE DEF w, rows
  <2>4. String(argv[i]) = Cut(w)
    BY <2>2, CopyReads
  <2>5. Cut(w) \in Seq(Letters)
    BY <2>2, CutWord
  <2>6. String(rows[i]) = Cut(Cut(w))
    BY <2>3, <2>4, <2>5, CopyReads
  <2>7. QED
    BY <2>1, <2>2, <2>6, CutTwice DEF w
<1>8. [i \in 1 .. argc |-> String(rows[i - 1])] = Expected(words)
  <2>1. Expected(words) = [i \in 1 .. argc |-> Cut(words[i])]
    BY DEF Expected, Cut
  <2>2. \A i \in 1 .. argc : i - 1 \in 0 .. argc - 1 /\ (i - 1) + 1 = i
    OBVIOUS
  <2> HIDE DEF rows
  <2>3. \A i \in 1 .. argc : String(rows[i - 1]) = Cut(words[i])
    BY <2>2, <1>7
  <2>4. QED
    BY <2>1, <2>3
<1> HIDE DEF rows
<1>9. /\ exec_argc'[p] = argc /\ exec_argv'[p] = rows /\ main'[p] = Starting /\ given'[p] = words
      /\ \A q \in Procs \ {p} :
            /\ exec_argc'[q] = exec_argc[q] /\ exec_argv'[q] = exec_argv[q]
            /\ main'[q] = main[q] /\ given'[q] = given[q]
      /\ DOMAIN name' = Procs /\ DOMAIN exec_argc' = Procs /\ DOMAIN exec_argv' = Procs
      /\ DOMAIN main' = Procs /\ DOMAIN given' = Procs
  BY <1>1, <1>3, <1>4 DEF ArgsInv
<1>10. Fetched(p)' = Expected(given'[p])
  BY <1>8, <1>9 DEF Fetched
<1>11. \A q \in Procs \ {p} : Fetched(q)' = Fetched(q)
  BY <1>9 DEF Fetched
<1>12. QED
  BY <1>6, <1>9, <1>10, <1>11 DEF ArgsInv

\* A slot that is taken or given back, and one that a child gets.
LEMMA ClearedArgs ==
    ASSUME ArgsInv, NEW p \in Procs, NEW app, Cleared(p, app)
    PROVE  ArgsInv'
<1>1. /\ exec_argc'[p] = 0 /\ exec_argv'[p] = Empty /\ main'[p] = Starting /\ given'[p] = <<>>
      /\ \A q \in Procs \ {p} :
            /\ exec_argc'[q] = exec_argc[q] /\ exec_argv'[q] = exec_argv[q]
            /\ main'[q] = main[q] /\ given'[q] = given[q]
      /\ DOMAIN name' = Procs /\ DOMAIN exec_argc' = Procs /\ DOMAIN exec_argv' = Procs
      /\ DOMAIN main' = Procs /\ DOMAIN given' = Procs
  BY DEF ArgsInv, Cleared
<1>2. \A i \in Rows : Empty[i][PROC_EXEC_ARG_LEN - 1] = EndOfString
  BY SizesNat DEF Empty, Columns
<1>3. Fetched(p)' = Expected(<<>>)
  <2>1. Least(Len(<<>>), PROC_EXEC_ARGV_MAX) = 0
    BY SizesNat DEF Least
  <2>2. QED
    BY <1>1, <2>1 DEF Fetched, Expected
<1>4. \A q \in Procs \ {p} : Fetched(q)' = Fetched(q)
  BY <1>1 DEF Fetched
<1>5. QED
  BY <1>1, <1>2, <1>3, <1>4, SizesNat DEF ArgsInv

LEMMA ForkArgs ==
    ASSUME ArgsInv, NEW p \in Procs, NEW q \in Procs, process_fork(p, q)
    PROVE  ArgsInv'
<1>1. /\ exec_argc'[q] = exec_argc[p] /\ exec_argv'[q] = exec_argv[p]
      /\ main'[q] = main[p] /\ given'[q] = given[p]
      /\ \A r \in Procs \ {q} :
            /\ exec_argc'[r] = exec_argc[r] /\ exec_argv'[r] = exec_argv[r]
            /\ main'[r] = main[r] /\ given'[r] = given[r]
      /\ DOMAIN name' = Procs /\ DOMAIN exec_argc' = Procs /\ DOMAIN exec_argv' = Procs
      /\ DOMAIN main' = Procs /\ DOMAIN given' = Procs
  BY DEF ArgsInv, process_fork
<1>2. Fetched(q)' = Fetched(p) /\ \A r \in Procs \ {q} : Fetched(r)' = Fetched(r)
  BY <1>1 DEF Fetched
<1>3. QED
  BY <1>1, <1>2 DEF ArgsInv

LEMMA GetargsArgs ==
    ASSUME ArgsInv, NEW p \in Procs, syscall_handle_getargs(p)
    PROVE  ArgsInv'
<1>1. /\ UNCHANGED <<name, exec_argc, exec_argv, given>>
      /\ main' = [main EXCEPT ![p] = Fetched(p)]
  BY DEF syscall_handle_getargs, Fetched
<1>2. \A q \in Procs : Fetched(q)' = Fetched(q)
  BY <1>1 DEF Fetched
<1>3. QED
  BY <1>1, <1>2 DEF ArgsInv

LEMMA ExecvArgs ==
    ASSUME ArgsInv, NEW p \in Procs, NEW app, NEW n \in Nat, NEW words \in [1 .. n -> Words],
           syscall_handle_execv(p, app, words)
    PROVE  ArgsInv'
<1> DEFINE argc == Least(Len(words), PROC_EXEC_ARGV_MAX)
           argv == copy_user_argv(words).argv
<1>1. Len(words) = n
  OBVIOUS
<1>2. argc \in 0 .. PROC_EXEC_ARGV_MAX /\ argc <= n
  BY <1>1, SizesNat DEF Least
<1>3. \A i \in 0 .. argc - 1 : i \in Rows /\ i < Len(words) /\ i + 1 \in 1 .. n
  BY <1>1, <1>2, SizesNat DEF Rows
<1>4. \A i \in 0 .. argc - 1 : words[i + 1] \in Seq(Letters)
  BY <1>3, WordsAssumption
<1>5. \A i \in Rows : Empty[i] = EmptyRow
  BY DEF Empty, EmptyRow
<1>6. argv = [i \in Rows |-> IF i < Len(words) THEN CopiedWord(Empty[i], words[i + 1]) ELSE Empty[i]]
  BY DEF copy_user_argv
<1>7. process_exec(p, app, argc, argv, words)
  BY DEF syscall_handle_execv, copy_user_argv
<1> HIDE DEF argv
<1>8. \A i \in 0 .. argc - 1 : argv[i] = CopiedWord(EmptyRow, words[i + 1])
  BY <1>3, <1>5, <1>6
<1>9. argc = Least(Len(words), PROC_EXEC_ARGV_MAX)
  OBVIOUS
<1> HIDE DEF argc
<1>10. QED
  BY <1>2, <1>4, <1>7, <1>8, <1>9, SetArgs

LEMMA ExecArgsInv ==
    ASSUME ArgsInv, NEW p \in Procs, NEW app, syscall_handle_exec(p, app)
    PROVE  ArgsInv'
<1>1. 0 = Least(Len(<<>>), PROC_EXEC_ARGV_MAX) /\ 0 \in 0 .. PROC_EXEC_ARGV_MAX
  BY SizesNat DEF Least
<1>2. process_exec(p, app, 0, Empty, <<>>)
  BY DEF syscall_handle_exec
<1>3. 0 .. 0 - 1 = {}
  OBVIOUS
<1>4. QED
  BY <1>1, <1>2, <1>3, SetArgs

LEMMA ArgsInitInv == ArgsInit => ArgsInv
<1> SUFFICES ASSUME ArgsInit PROVE ArgsInv
  OBVIOUS
<1>1. /\ DOMAIN name = Procs /\ DOMAIN exec_argc = Procs /\ DOMAIN exec_argv = Procs
      /\ DOMAIN main = Procs /\ DOMAIN given = Procs
      /\ \A p \in Procs :
            exec_argc[p] = 0 /\ exec_argv[p] = Empty /\ main[p] = Starting /\ given[p] = <<>>
  BY DEF ArgsInit
<1>2. \A i \in Rows : Empty[i][PROC_EXEC_ARG_LEN - 1] = EndOfString
  BY SizesNat DEF Empty, Columns
<1>3. Least(Len(<<>>), PROC_EXEC_ARGV_MAX) = 0
  BY SizesNat DEF Least
<1>4. \A p \in Procs : Fetched(p) = Expected(<<>>)
  BY <1>1, <1>3 DEF Fetched, Expected
<1>5. QED
  BY <1>1, <1>2, <1>4, SizesNat DEF ArgsInv

LEMMA ArgsStutter ==
    ASSUME ArgsInv, UNCHANGED argsVars
    PROVE  ArgsInv'
<1>1. UNCHANGED <<name, exec_argc, exec_argv, main, given>>
  BY DEF argsVars
<1>2. \A p \in Procs : Fetched(p)' = Fetched(p)
  BY <1>1 DEF Fetched
<1>3. QED
  BY <1>1, <1>2 DEF ArgsInv

\* main is called with the words of the exec that started the program, each
\* cut to its row, and getargs keeps answering them: whatever ran in the slot
\* before, and across fork, clone and exec without arguments, for every size
\* of the arrays (copy_user_argv, set_exec_args, clear_exec_args, getargs).
THEOREM ArgsSafe == ArgsSpec => []ArgsDelivered
<1>1. ArgsInit => ArgsInv
  BY ArgsInitInv
<1>2. ArgsInv /\ [ArgsNext]_argsVars => ArgsInv'
  <2> SUFFICES ASSUME ArgsInv, [ArgsNext]_argsVars PROVE ArgsInv'
    OBVIOUS
  <2>1. CASE UNCHANGED argsVars
    BY <2>1, ArgsStutter
  <2>2. CASE ArgsNext
    <3>1. PICK p \in Procs :
            \/ syscall_handle_getargs(p)
            \/ \E app \in AppIds :
                  \/ syscall_handle_exec(p, app)
                  \/ \E n \in 0 .. MaxWords : \E words \in [1 .. n -> Words] :
                        syscall_handle_execv(p, app, words)
                  \/ \E q \in Procs : syscall_handle_clone(p, q, app)
            \/ \E q \in Procs : process_fork(p, q)
            \/ recycle_process_slot(p)
      BY <2>2 DEF ArgsNext
    <3>2. \A n \in 0 .. MaxWords : n \in Nat
      BY ArgsSizes
    <3>3. QED
      BY <3>1, <3>2, GetargsArgs, ExecArgsInv, ExecvArgs, ForkArgs, ClearedArgs
         DEF syscall_handle_clone, recycle_process_slot
  <2>3. QED
    BY <2>1, <2>2
<1>3. ArgsInv => ArgsDelivered
  BY DEF ArgsInv, ArgsDelivered, ArgsTypeOK, ArgsAsGiven, ArgsStay, InMain, Fetched
<1>4. QED
  BY <1>1, <1>2, <1>3, PTL DEF ArgsSpec

-----------------------------------------------------------------------------
(* The line editor.  Besides its types the array holds no NUL before its   *)
(* length: what is typed, copied from the history or completed has none.   *)

Stored == Chars \cup AppChars
Storable == {s \in Seq(Stored) : Len(s) < CMDLINE_MAX}
FullBefore(n) == \A i \in 0 .. n - 1 : cmdline[i] \in Stored

LineInv ==
    /\ LineTypeOK
    /\ FullBefore(len)
    /\ lines \in Seq(Storable) /\ draft \in Storable
    /\ Len(screen) \in Nat /\ ScreenStartsWithLine

\* A set of numbers that is not empty has a least one.
LEMMA HasLeast ==
    ASSUME NEW S \in SUBSET Nat, S # {}
    PROVE  \E n \in S : \A m \in S : n <= m
<1> DEFINE R == OpToRel(<, Nat)
<1>1. IsWellFoundedOn(R, Nat)
  BY NatLessThanWellFounded
<1>2. \A x, y \in Nat : x < y => <<x, y>> \in R
  BY DEF OpToRel
<1> HIDE DEF R
<1>3. PICK n \in S : \A m \in S : ~(<<m, n>> \in R)
  BY <1>1, WFMin
<1>4. \A m \in S : ~(m < n)
  BY <1>2, <1>3
<1>5. QED
  BY <1>4

LEMMA SmallestIs ==
    ASSUME NEW S \in SUBSET Nat, S # {}
    PROVE  Smallest(S) \in S /\ \A m \in S : Smallest(S) <= m
<1> DEFINE P(n) == \A m \in S : n <= m
<1>1. \E n \in S : P(n)
  BY HasLeast
<1>2. Smallest(S) = CHOOSE n \in S : P(n)
  BY DEF Smallest
<1> HIDE DEF P
<1>3. Smallest(S) \in S /\ P(Smallest(S))
  BY <1>1, <1>2
<1>4. QED
  BY <1>3 DEF P

LEMMA LimitsNat == CMDLINE_MAX \in Nat /\ CMDLINE_MAX > 1 /\ HISTORY_MAX \in Nat /\ HISTORY_MAX > 0
  BY ShellLimitsAssumption

LEMMA NoNul == NUL \notin Stored
  BY NamesAssumption DEF Stored

\* An array with a NUL in it ends there, not before a place that no NUL precedes.
LEMMA StrLenIs ==
    ASSUME NEW c, Ends(c) # {}
    PROVE  str_len(c) \in Ends(c) /\ \A j \in Ends(c) : str_len(c) <= j
<1> DEFINE P(i) == \A j \in Ends(c) : i <= j
<1>1. Ends(c) \in SUBSET Nat
  BY LimitsNat DEF Ends, Cells
<1>2. \E i \in Ends(c) : P(i)
  BY <1>1, HasLeast
<1>3. str_len(c) = CHOOSE i \in Ends(c) : P(i)
  BY DEF str_len
<1> HIDE DEF P
<1>4. str_len(c) \in Ends(c) /\ P(str_len(c))
  BY <1>2, <1>3
<1>5. QED
  BY <1>4 DEF P

\* What the console shows after an array has been printed.
Redrawn(c, s) ==
    IF Ends(c) # {} THEN s = Text(c, str_len(c))
    ELSE \E beyond \in {<<>>, <<Junk>>} : s = Text(c, CMDLINE_MAX) \o beyond

LEMMA RedrawnShows ==
    ASSUME NEW c, NEW s, NEW n \in 0 .. CMDLINE_MAX - 1, c \in [Cells -> Stored \cup {NUL}],
           \A i \in 0 .. n - 1 : c[i] \in Stored,
           Redrawn(c, s)
    PROVE  /\ Len(s) \in Nat /\ Len(s) >= n
           /\ \A i \in 1 .. n : s[i] = c[i - 1]
<1>1. CASE Ends(c) # {}
  <2> DEFINE l == str_len(c)
  <2>1. l \in Cells /\ c[l] = NUL
    BY <1>1, StrLenIs DEF Ends
  <2>2. l \in Nat /\ l >= n
    <3>1. l \in Nat
      BY <2>1, LimitsNat DEF Cells
    <3>2. l \notin 0 .. n - 1
      BY <2>1, NoNul
    <3>3. QED
      BY <3>1, <3>2
  <2>3. s = [i \in 1 .. l |-> c[i - 1]]
    BY <1>1 DEF Redrawn, Text
  <2> HIDE DEF l
  <2>4. Len(s) = l
    BY <2>2, <2>3
  <2>5. QED
    BY <2>2, <2>3, <2>4
<1>2. CASE Ends(c) = {}
  <2> DEFINE t == Text(c, CMDLINE_MAX)
  <2>1. PICK beyond \in {<<>>, <<Junk>>} : s = t \o beyond
    BY <1>2 DEF Redrawn
  <2>2. \A i \in 1 .. CMDLINE_MAX : i - 1 \in Cells
    BY LimitsNat DEF Cells
  <2> DEFINE All == Stored \cup {NUL, Junk}
  <2>3. t \in Seq(All) /\ Len(t) = CMDLINE_MAX /\ \A i \in 1 .. CMDLINE_MAX : t[i] = c[i - 1]
    <3>1. t = [i \in 1 .. CMDLINE_MAX |-> c[i - 1]]
      BY DEF Text
    <3>2. \A i \in 1 .. CMDLINE_MAX : c[i - 1] \in All
      BY <2>2
    <3> HIDE DEF t, All
    <3>3. t \in [1 .. CMDLINE_MAX -> All]
      BY <3>1, <3>2
    <3>4. QED
      BY <3>1, <3>3, LimitsNat
  <2>4. beyond \in Seq(All) /\ Len(beyond) \in Nat
    <3>1. Junk \in All
      OBVIOUS
    <3> HIDE DEF All
    <3>2. <<>> \in Seq(All) /\ <<Junk>> \in Seq(All)
      BY <3>1
    <3>3. beyond \in Seq(All)
      BY <2>1, <3>2
    <3>4. QED
      BY <3>3
  <2> HIDE DEF t, All
  <2>5. Len(s) = CMDLINE_MAX + Len(beyond) /\ \A i \in 1 .. CMDLINE_MAX : s[i] = t[i]
    <3>1. Len(t \o beyond) = Len(t) + Len(beyond)
      BY <2>3, <2>4, ConcatProperties
    <3>2. \A i \in 1 .. Len(t) : (t \o beyond)[i] = t[i]
      BY <2>3, <2>4
    <3>3. QED
      BY <2>1, <2>3, <3>1, <3>2
  <2>6. QED
    BY <2>3, <2>4, <2>5, LimitsNat
<1>3. QED
  BY <1>1, <1>2

\* A step that prints the array again.
LEMMA RedrawInv ==
    ASSUME cmdline' \in [Cells -> Stored \cup {NUL}], len' \in 0 .. CMDLINE_MAX - 1,
           FullBefore(len)', Redrawn(cmdline', screen')
    PROVE  Len(screen') \in Nat /\ ScreenStartsWithLine'
<1>1. PICK c, s, n : c = cmdline' /\ s = screen' /\ n = len'
  OBVIOUS
<1>2. n \in 0 .. CMDLINE_MAX - 1 /\ c \in [Cells -> Stored \cup {NUL}]
  BY <1>1
<1>3. \A i \in 0 .. n - 1 : c[i] \in Stored
  BY <1>1 DEF FullBefore
<1>4. Redrawn(c, s)
  BY <1>1 DEF Redrawn
<1>5. Len(s) \in Nat /\ Len(s) >= n /\ \A i \in 1 .. n : s[i] = c[i - 1]
  BY <1>2, <1>3, <1>4, RedrawnShows
<1>6. QED
  BY <1>1, <1>5 DEF ScreenStartsWithLine

LEMMA LineFacts ==
    ASSUME LineInv
    PROVE  /\ cmdline \in [Cells -> Stored \cup {NUL}]
           /\ len \in 0 .. CMDLINE_MAX - 1 /\ cursor \in 0 .. len
           /\ \A i \in 0 .. len - 1 : cmdline[i] \in Stored
           /\ history_cursor \in -1 .. Len(lines) - 1 /\ Len(lines) <= HISTORY_MAX
           /\ lines \in Seq(Storable) /\ draft \in Storable
  BY DEF LineInv, LineTypeOK, FullBefore, Stored

\* The array as a key leaves it, which is then printed.
LEMMA PrintedInv ==
    ASSUME cmdline' \in [Cells -> Stored \cup {NUL}],
           len' \in 0 .. CMDLINE_MAX - 1, cursor' \in 0 .. len',
           \A i \in 0 .. len' - 1 : cmdline'[i] \in Stored,
           history_cursor' \in -1 .. Len(lines') - 1, Len(lines') <= HISTORY_MAX,
           lines' \in Seq(Storable), draft' \in Storable,
           Redrawn(cmdline', screen')
    PROVE  LineInv'
<1>1. FullBefore(len)'
  BY DEF FullBefore
<1>2. Len(screen') \in Nat /\ ScreenStartsWithLine'
  BY <1>1, RedrawInv
<1>3. LineTypeOK'
  BY DEF LineTypeOK, Stored
<1>4. QED
  BY <1>1, <1>2, <1>3 DEF LineInv

LEMMA LineInitInv == LineInit => LineInv
<1> SUFFICES ASSUME LineInit PROVE LineInv
  OBVIOUS
<1>1. LineTypeOK
  BY LimitsNat DEF LineInit, LineTypeOK
<1>2. FullBefore(len)
  BY DEF LineInit, FullBefore
<1>3. <<>> \in Storable
  BY LimitsNat DEF Storable
<1>4. Len(screen) \in Nat /\ ScreenStartsWithLine
  BY DEF LineInit, ScreenStartsWithLine
<1>5. QED
  BY <1>1, <1>2, <1>3, <1>4 DEF LineInit, LineInv

\* A new prompt: nothing is typed yet.
LEMMA PromptInv ==
    ASSUME Prompt, cmdline' \in [Cells -> Stored \cup {NUL}],
           lines' \in Seq(Storable), Len(lines') <= HISTORY_MAX
    PROVE  LineInv'
<1>1. len' = 0 /\ cursor' = 0 /\ draft' = <<>> /\ history_cursor' = -1 /\ screen' = <<>>
  BY DEF Prompt
<1>2. <<>> \in Storable
  BY LimitsNat DEF Storable
<1>3. LineTypeOK'
  BY <1>1, LimitsNat DEF LineTypeOK, Stored
<1>4. FullBefore(len)'
  BY <1>1 DEF FullBefore
<1>5. Len(screen') \in Nat /\ ScreenStartsWithLine'
  BY <1>1 DEF ScreenStartsWithLine
<1>6. QED
  BY <1>1, <1>2, <1>3, <1>4, <1>5 DEF LineInv

\* The line as a sequence of characters.
LEMMA TextStorable ==
    ASSUME NEW c, NEW n \in 0 .. CMDLINE_MAX - 1, \A i \in 0 .. n - 1 : c[i] \in Stored
    PROVE  Text(c, n) \in Storable /\ Len(Text(c, n)) = n
<1>1. n \in Nat /\ n < CMDLINE_MAX
  BY LimitsNat
<1>2. \A i \in 1 .. n : i - 1 \in 0 .. n - 1
  BY <1>1
<1>3. Text(c, n) = [i \in 1 .. n |-> c[i - 1]]
  BY DEF Text
<1>4. Text(c, n) \in [1 .. n -> Stored]
  BY <1>2, <1>3
<1> HIDE DEF Text
<1>5. Text(c, n) \in Seq(Stored) /\ Len(Text(c, n)) = n
  BY <1>1, <1>4
<1>6. QED
  BY <1>1, <1>5 DEF Storable

LEMMA PushInv ==
    ASSUME NEW line \in Storable, lines \in Seq(Storable), Len(lines) <= HISTORY_MAX,
           history_push_line(line)
    PROVE  lines' \in Seq(Storable) /\ Len(lines') <= HISTORY_MAX
<1>1. CASE line = <<>>
  BY <1>1 DEF history_push_line
<1>2. CASE line # <<>> /\ Len(lines) < HISTORY_MAX
  <2>1. lines' = Append(lines, line)
    BY <1>2 DEF history_push_line
  <2>2. QED
    BY <2>1, <1>2, LimitsNat
<1>3. CASE line # <<>> /\ ~(Len(lines) < HISTORY_MAX)
  <2>1. lines' = Append(Tail(lines), line)
    BY <1>3 DEF history_push_line
  <2>2. Len(lines) \in Nat /\ Len(lines) = HISTORY_MAX /\ lines # <<>>
    BY <1>3, LimitsNat
  <2>3. Tail(lines) \in Seq(Storable) /\ Len(Tail(lines)) = Len(lines) - 1
    BY <2>2
  <2>4. QED
    BY <2>1, <2>2, <2>3, LimitsNat
<1>4. QED
  BY <1>1, <1>2, <1>3

LEMMA EnterInv ==
    ASSUME LineInv, Enter
    PROVE  LineInv'
<1> DEFINE c == [cmdline EXCEPT ![len] = NUL]
           n == str_len(c)
<1>1. /\ cmdline \in [Cells -> Stored \cup {NUL}] /\ len \in 0 .. CMDLINE_MAX - 1
      /\ \A i \in 0 .. len - 1 : cmdline[i] \in Stored
      /\ lines \in Seq(Storable) /\ Len(lines) <= HISTORY_MAX
  BY LineFacts
<1>2. len \in Cells
  BY <1>1 DEF Cells
<1>3. c \in [Cells -> Stored \cup {NUL}] /\ c[len] = NUL /\ \A i \in Cells \ {len} : c[i] = cmdline[i]
  BY <1>1, <1>2
<1>4. \A i \in 0 .. len - 1 : c[i] \in Stored
  <2>1. \A i \in 0 .. len - 1 : i \in Cells \ {len}
    BY <1>1, LimitsNat DEF Cells
  <2>2. QED
    BY <2>1, <1>1, <1>3
<1>5. n = len
  <2> HIDE DEF c
  <2>1. len \in Ends(c)
    BY <1>2, <1>3 DEF Ends
  <2>2. n \in Cells /\ c[n] = NUL /\ n <= len
    BY <2>1, StrLenIs DEF Ends
  <2>3. n \notin 0 .. len - 1
    BY <2>2, <1>4, NoNul
  <2>4. QED
    BY <2>2, <2>3, <1>1, LimitsNat DEF Cells
<1>6. /\ history_push_line(Text(c, n))
      /\ cmdline' = [i \in Cells |-> IF i < n /\ c[i] = Blank THEN NUL ELSE c[i]]
      /\ Prompt
  BY DEF Enter
<1> HIDE DEF c, n
<1>7. cmdline' \in [Cells -> Stored \cup {NUL}]
  BY <1>3, <1>6
<1>8. PICK line : line = Text(c, n)
  OBVIOUS
<1>9. line \in Storable
  <2>1. PICK d, m : d = c /\ m = n
    OBVIOUS
  <2>2. Text(d, m) \in Storable
    BY <2>1, <1>1, <1>4, <1>5, TextStorable
  <2>3. QED
    BY <2>1, <2>2, <1>8
<1>10. history_push_line(line)
  BY <1>6, <1>8
<1>11. lines' \in Seq(Storable) /\ Len(lines') <= HISTORY_MAX
  BY <1>1, <1>9, <1>10, PushInv
<1>12. QED
  BY <1>6, <1>7, <1>11, PromptInv

LEMMA TooLongInv ==
    ASSUME LineInv, TooLong
    PROVE  LineInv'
<1>1. cmdline \in [Cells -> Stored \cup {NUL}] /\ lines \in Seq(Storable) /\ Len(lines) <= HISTORY_MAX
  BY LineFacts
<1>2. Prompt /\ cmdline' = cmdline /\ lines' = lines
  BY DEF TooLong
<1>3. QED
  BY <1>1, <1>2, PromptInv

LEMMA MoveInv ==
    ASSUME LineInv, Left \/ Right
    PROVE  LineInv'
<1>1. /\ cmdline \in [Cells -> Stored \cup {NUL}]
      /\ len \in 0 .. CMDLINE_MAX - 1 /\ cursor \in 0 .. len
      /\ \A i \in 0 .. len - 1 : cmdline[i] \in Stored
      /\ history_cursor \in -1 .. Len(lines) - 1 /\ Len(lines) <= HISTORY_MAX
      /\ lines \in Seq(Storable) /\ draft \in Storable
  BY LineFacts
<1>2. UNCHANGED <<cmdline, len, draft, history_cursor, lines>> /\ redraw_cmdline(cmdline)
  BY DEF Left, Right
<1>3. cursor' \in 0 .. len
  BY <1>1 DEF Left, Right
<1>4. Redrawn(cmdline', screen')
  BY <1>2 DEF redraw_cmdline, Redrawn
<1>5. QED
  BY <1>1, <1>2, <1>3, <1>4, PrintedInv

\* The characters of the line without one of them.
LEMMA RemovedIs ==
    ASSUME LineInv, len > 0, NEW pos \in 0 .. len - 1
    PROVE  /\ Removed(pos) \in [Cells -> Stored \cup {NUL}]
           /\ \A i \in 0 .. len - 2 : Removed(pos)[i] \in Stored
<1>1. /\ cmdline \in [Cells -> Stored \cup {NUL}] /\ len \in 0 .. CMDLINE_MAX - 1
      /\ \A i \in 0 .. len - 1 : cmdline[i] \in Stored
  BY LineFacts
<1> DEFINE r == [i \in Cells |-> IF i = len - 1 THEN NUL
                                 ELSE IF i \in pos .. len - 2 THEN cmdline[i + 1]
                                 ELSE cmdline[i]]
<1>2. Removed(pos) = r
  BY DEF Removed
<1>3. \A i \in 0 .. len - 2 : /\ i \in Cells /\ i # len - 1
                              /\ i \in 0 .. len - 1 /\ i + 1 \in 0 .. len - 1
  BY <1>1, LimitsNat DEF Cells
<1>4. \A i \in pos .. len - 2 : i + 1 \in 0 .. len - 1
  BY <1>1
<1>5. \A i \in 0 .. len - 2 : r[i] \in Stored
  BY <1>1, <1>3
<1>6. r \in [Cells -> Stored \cup {NUL}]
  BY <1>1, <1>4
<1>7. QED
  BY <1>2, <1>5, <1>6

LEMMA EraseInv ==
    ASSUME LineInv, Delete \/ Backspace
    PROVE  LineInv'
<1>1. /\ cmdline \in [Cells -> Stored \cup {NUL}]
      /\ len \in 0 .. CMDLINE_MAX - 1 /\ cursor \in 0 .. len
      /\ history_cursor \in -1 .. Len(lines) - 1 /\ Len(lines) <= HISTORY_MAX
      /\ lines \in Seq(Storable) /\ draft \in Storable
  BY LineFacts
<1>2. /\ UNCHANGED <<draft, history_cursor, lines>> /\ redraw_cmdline(cmdline')
      /\ len' = len - 1 /\ len > 0
      /\ \/ cursor < len /\ cursor' = cursor /\ cmdline' = Removed(cursor)
         \/ cursor > 0 /\ cursor' = cursor - 1 /\ cmdline' = Removed(cursor - 1)
  BY <1>1 DEF Delete, Backspace
<1>3. PICK pos \in 0 .. len - 1 : cmdline' = Removed(pos)
  BY <1>1, <1>2
<1>4. /\ cmdline' \in [Cells -> Stored \cup {NUL}]
      /\ \A i \in 0 .. len' - 1 : cmdline'[i] \in Stored
  <2>1. len' - 1 = len - 2
    BY <1>1, <1>2
  <2>2. QED
    BY <1>2, <1>3, <2>1, RemovedIs
<1>5. len' \in 0 .. CMDLINE_MAX - 1 /\ cursor' \in 0 .. len'
  BY <1>1, <1>2, LimitsNat
<1>6. Redrawn(cmdline', screen')
  BY <1>2 DEF redraw_cmdline, Redrawn
<1>7. QED
  BY <1>1, <1>2, <1>4, <1>5, <1>6, PrintedInv

\* A character more: at the end of the line it is echoed, inside it the line is
\* printed again.
LEMMA TypeAtEndInv ==
    ASSUME LineInv, NEW ch \in Chars, TypeAtEnd(ch)
    PROVE  LineInv'
<1>1. /\ cmdline \in [Cells -> Stored \cup {NUL}] /\ len \in 0 .. CMDLINE_MAX - 1
      /\ \A i \in 0 .. len - 1 : cmdline[i] \in Stored
      /\ history_cursor \in -1 .. Len(lines) - 1 /\ Len(lines) <= HISTORY_MAX
      /\ lines \in Seq(Storable) /\ draft \in Storable
  BY LineFacts
<1>2. /\ len < CMDLINE_MAX - 1 /\ cursor = len
      /\ cmdline' = [cmdline EXCEPT ![len] = ch]
      /\ len' = len + 1 /\ cursor' = len + 1
      /\ screen' = Echoed(ch)
      /\ UNCHANGED <<draft, history_cursor, lines>>
  BY DEF TypeAtEnd
<1>3. len \in Nat /\ len \in Cells /\ len' \in 0 .. CMDLINE_MAX - 1 /\ cursor' \in 0 .. len'
  BY <1>1, <1>2, LimitsNat DEF Cells
<1>4. ch \in Stored
  BY DEF Stored
<1>5. cmdline' \in [Cells -> Stored \cup {NUL}]
  BY <1>1, <1>2, <1>3, <1>4
<1>6. cmdline'[len] = ch /\ \A i \in 0 .. len - 1 : i \in Cells /\ cmdline'[i] = cmdline[i]
  <2>1. \A i \in 0 .. len - 1 : i \in Cells /\ i # len
    BY <1>1, LimitsNat DEF Cells
  <2>2. QED
    BY <1>1, <1>2, <1>3, <2>1
<1>7. FullBefore(len)'
  <2>1. \A i \in 0 .. len' - 1 : i = len \/ i \in 0 .. len - 1
    BY <1>2, <1>3
  <2>2. QED
    BY <1>1, <1>4, <1>6, <2>1 DEF FullBefore
<1>8. LineTypeOK'
  BY <1>1, <1>2, <1>3, <1>5 DEF LineTypeOK, Stored
<1>9. Len(screen') \in Nat /\ ScreenStartsWithLine'
  <2>1. Len(screen) \in Nat /\ Len(screen) >= len /\ \A i \in 1 .. len : screen[i] = cmdline[i - 1]
    BY DEF LineInv, ScreenStartsWithLine
  <2>2. PICK k \in Nat : k = (IF Len(screen) > cursor THEN Len(screen) ELSE cursor + 1)
    BY <1>2, <1>3, <2>1
  <2>3. screen' = [i \in 1 .. k |-> IF i = len + 1 THEN ch ELSE screen[i]]
    BY <1>2, <2>2 DEF Echoed
  <2>4. Len(screen') = k
    BY <2>3
  <2>5. k >= len + 1
    BY <1>2, <1>3, <2>1, <2>2
  <2>6. ASSUME NEW i \in 1 .. len' PROVE screen'[i] = cmdline'[i - 1]
    <3>1. i \in 1 .. k /\ i - 1 \in 0 .. len
      BY <1>2, <1>3, <2>5
    <3>2. CASE i = len + 1
      <4>1. i - 1 = len
        BY <1>3, <3>2
      <4>2. QED
        BY <3>1, <3>2, <4>1, <2>3, <1>6
    <3>3. CASE i # len + 1
      <4>1. i \in 1 .. len /\ i - 1 \in 0 .. len - 1
        BY <1>2, <1>3, <3>3
      <4>2. QED
        BY <3>1, <3>3, <4>1, <2>1, <2>3, <1>6
    <3>4. QED
      BY <3>2, <3>3
  <2>7. QED
    BY <2>4, <2>5, <2>6, <1>2, <1>3 DEF ScreenStartsWithLine
<1>10. QED
  BY <1>1, <1>2, <1>7, <1>8, <1>9 DEF LineInv

LEMMA TypeInsideInv ==
    ASSUME LineInv, NEW ch \in Chars, TypeInside(ch)
    PROVE  LineInv'
<1>1. /\ cmdline \in [Cells -> Stored \cup {NUL}]
      /\ len \in 0 .. CMDLINE_MAX - 1 /\ cursor \in 0 .. len
      /\ \A i \in 0 .. len - 1 : cmdline[i] \in Stored
      /\ history_cursor \in -1 .. Len(lines) - 1 /\ Len(lines) <= HISTORY_MAX
      /\ lines \in Seq(Storable) /\ draft \in Storable
  BY LineFacts
<1>2. /\ len < CMDLINE_MAX - 1 /\ cursor < len
      /\ cmdline' = Inserted(ch)
      /\ len' = len + 1 /\ cursor' = cursor + 1
      /\ redraw_cmdline(cmdline')
      /\ UNCHANGED <<draft, history_cursor, lines>>
  BY DEF TypeInside
<1>3. len' \in 0 .. CMDLINE_MAX - 1 /\ cursor' \in 0 .. len'
  BY <1>1, <1>2, LimitsNat
<1>4. ch \in Stored
  BY DEF Stored
<1>5. cmdline' = [i \in Cells |-> IF i = cursor THEN ch
                                  ELSE IF i \in cursor + 1 .. len + 1 THEN cmdline[i - 1]
                                  ELSE cmdline[i]]
  BY <1>2 DEF Inserted
<1>6. \A i \in cursor + 1 .. len + 1 : i - 1 \in Cells
  BY <1>1, <1>2, LimitsNat DEF Cells
<1>7. cmdline' \in [Cells -> Stored \cup {NUL}]
  BY <1>1, <1>4, <1>5, <1>6
<1>8. \A i \in 0 .. len' - 1 : cmdline'[i] \in Stored
  <2> SUFFICES ASSUME NEW i \in 0 .. len' - 1 PROVE cmdline'[i] \in Stored
    OBVIOUS
  <2>1. i \in Cells
    BY <1>1, <1>2, LimitsNat DEF Cells
  <2>2. CASE i = cursor
    BY <2>1, <2>2, <1>4, <1>5
  <2>3. CASE i \in cursor + 1 .. len + 1
    <3>1. i # cursor /\ i - 1 \in 0 .. len - 1
      BY <1>1, <1>2, <2>3
    <3>2. QED
      BY <3>1, <2>1, <2>3, <1>1, <1>5
  <2>4. CASE i # cursor /\ i \notin cursor + 1 .. len + 1
    <3>1. i \in 0 .. len - 1
      BY <1>1, <1>2, <2>4
    <3>2. QED
      BY <3>1, <2>1, <2>4, <1>1, <1>5
  <2>5. QED
    BY <2>2, <2>3, <2>4
<1>9. Redrawn(cmdline', screen')
  BY <1>2 DEF redraw_cmdline, Redrawn
<1>10. QED
  BY <1>1, <1>2, <1>3, <1>7, <1>8, <1>9, PrintedInv

\* A line of the history, or the draft, replaces what was typed.
LEMMA ShowInv ==
    ASSUME LineInv, NEW s \in Storable, Show(s), draft' \in Storable,
           history_cursor' \in -1 .. Len(lines) - 1
    PROVE  LineInv'
<1>1. /\ cmdline \in [Cells -> Stored \cup {NUL}]
      /\ Len(lines) <= HISTORY_MAX /\ lines \in Seq(Storable)
  BY LineFacts
<1>2. /\ cmdline' = Copied(s) /\ len' = Len(s) /\ cursor' = Len(s)
      /\ redraw_cmdline(cmdline') /\ lines' = lines
  BY DEF Show
<1>3. s \in Seq(Stored) /\ Len(s) \in Nat /\ Len(s) < CMDLINE_MAX
  BY DEF Storable
<1>4. len' \in 0 .. CMDLINE_MAX - 1 /\ cursor' \in 0 .. len'
  BY <1>2, <1>3, LimitsNat
<1>5. cmdline' = [i \in Cells |-> IF i < Len(s) THEN s[i + 1] ELSE IF i = Len(s) THEN NUL ELSE cmdline[i]]
  BY <1>2 DEF Copied
<1>6. \A i \in Cells : i < Len(s) => s[i + 1] \in Stored
  <2>1. \A i \in Cells : i < Len(s) => i + 1 \in 1 .. Len(s)
    BY <1>3, LimitsNat DEF Cells
  <2>2. QED
    BY <2>1, <1>3
<1>7. cmdline' \in [Cells -> Stored \cup {NUL}]
  BY <1>1, <1>5, <1>6
<1>8. \A i \in 0 .. len' - 1 : cmdline'[i] \in Stored
  <2>1. \A i \in 0 .. len' - 1 : i \in Cells /\ i < Len(s)
    BY <1>2, <1>3, LimitsNat DEF Cells
  <2>2. QED
    BY <2>1, <1>5, <1>6
<1>9. Redrawn(cmdline', screen')
  BY <1>2 DEF redraw_cmdline, Redrawn
<1>10. QED
  BY <1>1, <1>2, <1>4, <1>7, <1>8, <1>9, PrintedInv

LEMMA BrowseInv ==
    ASSUME LineInv, Up \/ Down
    PROVE  LineInv'
<1>1. /\ len \in 0 .. CMDLINE_MAX - 1 /\ \A i \in 0 .. len - 1 : cmdline[i] \in Stored
      /\ history_cursor \in -1 .. Len(lines) - 1
      /\ lines \in Seq(Storable) /\ draft \in Storable /\ Len(lines) \in Nat
  BY LineFacts
<1>2. Text(cmdline, len) \in Storable
  <2>1. PICK c, n : c = cmdline /\ n = len
    OBVIOUS
  <2>2. Text(c, n) \in Storable
    BY <2>1, <1>1, TextStorable
  <2>3. QED
    BY <2>1, <2>2
<1>3. <<>> \in Storable
  BY LimitsNat DEF Storable
<1>4. lines # <<>> => Len(lines) > 0
  BY <1>1
<1>5. draft' \in Storable /\ history_cursor' \in -1 .. Len(lines) - 1
  <2>1. CASE Up
    BY <2>1, <1>1, <1>2, <1>4 DEF Up
  <2>2. CASE Down
    BY <2>2, <1>1, <1>3, <1>4 DEF Down
  <2>3. QED
    BY <2>1, <2>2
<1>6. \/ history_cursor' + 1 \in 1 .. Len(lines) /\ Show(lines[history_cursor' + 1])
      \/ Show(draft)
  <2>1. CASE Up
    <3>1. Show(lines[history_cursor' + 1])
      BY <2>1 DEF Up
    <3>2. history_cursor' + 1 \in 1 .. Len(lines)
      BY <2>1, <1>1, <1>4 DEF Up
    <3>3. QED
      BY <3>1, <3>2
  <2>2. CASE Down
    <3>1. CASE /\ history_cursor # -1 /\ history_cursor < Len(lines) - 1
               /\ history_cursor' = history_cursor + 1 /\ Show(lines[history_cursor' + 1])
      <4>1. history_cursor' + 1 \in 1 .. Len(lines)
        BY <3>1, <1>1
      <4>2. QED
        BY <3>1, <4>1
    <3>2. QED
      BY <2>2, <3>1 DEF Down
  <2>3. QED
    BY <2>1, <2>2
<1>7. PICK s \in Storable : Show(s)
  <2>1. CASE history_cursor' + 1 \in 1 .. Len(lines) /\ Show(lines[history_cursor' + 1])
    <3>1. PICK s : s = lines[history_cursor' + 1]
      OBVIOUS
    <3>2. s \in Storable
      BY <3>1, <2>1, <1>1
    <3>3. Show(s)
      BY <3>1, <2>1 DEF Show, Copied
    <3>4. QED
      BY <3>2, <3>3
  <2>2. CASE Show(draft)
    <3>1. PICK s : s = draft
      OBVIOUS
    <3>2. Show(s)
      BY <3>1, <2>2 DEF Show, Copied
    <3>3. QED
      BY <3>1, <3>2, <1>1
  <2>3. QED
    BY <1>6, <2>1, <2>2
<1>8. QED
  BY <1>5, <1>7, ShowInv

\* The first word gives way to a name that is longer or shorter.
LEMMA ReplaceInv ==
    ASSUME LineInv, NEW old \in 0 .. len, NEW word \in Seq(AppChars),
           replace_first_token(old, word), redraw_cmdline(cmdline'),
           UNCHANGED <<draft, history_cursor, lines>>
    PROVE  LineInv'
<1>1. /\ cmdline \in [Cells -> Stored \cup {NUL}]
      /\ len \in 0 .. CMDLINE_MAX - 1 /\ cursor \in 0 .. len
      /\ \A i \in 0 .. len - 1 : cmdline[i] \in Stored
      /\ history_cursor \in -1 .. Len(lines) - 1 /\ Len(lines) <= HISTORY_MAX
      /\ lines \in Seq(Storable) /\ draft \in Storable
  BY LineFacts
<1>2. Redrawn(cmdline', screen')
  BY DEF redraw_cmdline, Redrawn
<1> DEFINE k == Len(word)
           by == k - old
<1>3. CASE UNCHANGED <<cmdline, len, cursor>>
  BY <1>1, <1>2, <1>3, PrintedInv
<1>4. CASE /\ len + by < CMDLINE_MAX
           /\ cmdline' = [i \in Cells |-> IF i < k THEN word[i + 1]
                                          ELSE IF i = len + by THEN NUL
                                          ELSE IF i \in k .. len + by THEN cmdline[i - by]
                                          ELSE cmdline[i]]
           /\ len' = len + by /\ cursor' = k
  <2>1. k \in Nat /\ old \in Nat /\ len \in Nat /\ old <= len
    BY <1>1
  <2>2. \A i \in 1 .. k : word[i] \in Stored
    BY DEF Stored
  <2> HIDE DEF k
  <2>3. len' \in 0 .. CMDLINE_MAX - 1 /\ cursor' \in 0 .. len'
    BY <1>4, <2>1, LimitsNat
  <2>4. \A i \in Cells : i < k => i + 1 \in 1 .. k
    BY <2>1, LimitsNat DEF Cells
  <2>5. \A i \in Cells : i >= k /\ i # len + by /\ i \in k .. len + by => i - by \in 0 .. len - 1
    BY <2>1, LimitsNat DEF Cells
  <2>6. cmdline' \in [Cells -> Stored \cup {NUL}]
    <3> SUFFICES ASSUME NEW i \in Cells PROVE cmdline'[i] \in Stored \cup {NUL}
      BY <1>4
    <3>1. CASE i < k
      BY <3>1, <1>4, <2>2, <2>4
    <3>2. CASE ~(i < k)
      <4>1. i >= k
        BY <3>2, <2>1, LimitsNat DEF Cells
      <4>2. CASE i # len + by /\ i \in k .. len + by
        <5>1. i - by \in 0 .. len - 1
          BY <4>1, <4>2, <2>5
        <5>2. cmdline'[i] = cmdline[i - by]
          BY <1>4, <3>2, <4>2
        <5>3. QED
          BY <5>1, <5>2, <1>1
      <4>3. CASE i = len + by
        BY <1>4, <3>2, <4>3
      <4>4. CASE i # len + by /\ i \notin k .. len + by
        <5>1. cmdline'[i] = cmdline[i]
          BY <1>4, <3>2, <4>4
        <5>2. QED
          BY <5>1, <1>1
      <4>5. QED
        BY <4>2, <4>3, <4>4
    <3>3. QED
      BY <3>1, <3>2
  <2>7. \A i \in 0 .. len' - 1 : cmdline'[i] \in Stored
    <3> SUFFICES ASSUME NEW i \in 0 .. len' - 1 PROVE cmdline'[i] \in Stored
      OBVIOUS
    <3>1. i \in Cells /\ i # len + by
      BY <1>4, <2>1, <2>3, LimitsNat DEF Cells
    <3>2. CASE i < k
      BY <3>1, <3>2, <1>4, <2>2, <2>4
    <3>3. CASE ~(i < k)
      <4>1. i >= k /\ i \in k .. len + by
        BY <3>3, <2>1, <1>4
      <4>2. i - by \in 0 .. len - 1
        BY <4>1, <3>1, <2>5
      <4>3. cmdline'[i] = cmdline[i - by]
        BY <1>4, <3>1, <3>3, <4>1
      <4>4. QED
        BY <4>2, <4>3, <1>1
    <3>4. QED
      BY <3>2, <3>3
  <2>8. QED
    BY <1>1, <1>2, <2>3, <2>6, <2>7, PrintedInv
<1>5. k \in Nat /\ old \in Int /\ len \in Int
  BY <1>1
<1>6. QED
  BY <1>1, <1>3, <1>4, <1>5, LimitsNat DEF replace_first_token

\* What two names have in common is no longer than the first.
LEMMA CommonPrefix ==
    ASSUME NEW a \in Seq(AppChars), NEW b
    PROVE  common_prefix_len(a, b) \in Nat
<1> DEFINE S == {i \in 0 .. Len(a) : i = Len(a) \/ i = Len(b)} \cup
                {i \in 0 .. Len(a) - 1 : i < Len(b) /\ a[i + 1] # b[i + 1]}
<1>1. Len(a) \in Nat
  OBVIOUS
<1>2. S \in SUBSET Nat /\ Len(a) \in S
  BY <1>1
<1>3. common_prefix_len(a, b) = Smallest(S)
  BY DEF common_prefix_len
<1> HIDE DEF S
<1>4. QED
  BY <1>2, <1>3, SmallestIs

LEMMA CompleteInv ==
    ASSUME LineInv, complete_app_name
    PROVE  LineInv'
<1>1. /\ len \in 0 .. CMDLINE_MAX - 1 /\ len \in Nat /\ cursor \in 0 .. len
  BY LineFacts, LimitsNat
<1> DEFINE first == AppNames[Smallest(Matches)]
           S == {Len(first)} \cup {common_prefix_len(first, AppNames[n]) : n \in Matches}
           lcp == Smallest(S)
<1>2. first_token_end \in 0 .. len
  <2> DEFINE T == {i \in 0 .. len - 1 : cmdline[i] = Blank} \cup {len}
  <2>1. T \in SUBSET Nat /\ len \in T /\ \A i \in T : i \in 0 .. len
    BY <1>1
  <2>2. PICK U : U = T
    OBVIOUS
  <2>3. Smallest(U) \in U
    BY <2>1, <2>2, SmallestIs
  <2>4. first_token_end = Smallest(T)
    BY DEF first_token_end
  <2> HIDE DEF T
  <2>5. Smallest(T) = Smallest(U)
    BY <2>2
  <2>6. QED
    BY <2>1, <2>2, <2>3, <2>4, <2>5
<1>3. first \in Seq(AppChars)
  <2>1. PICK M : M = Matches
    OBVIOUS
  <2>2. M # {} /\ M \in SUBSET DOMAIN AppNames
    BY <2>1 DEF complete_app_name, Matches
  <2>3. DOMAIN AppNames \subseteq Nat /\ \A n \in DOMAIN AppNames : AppNames[n] \in Seq(AppChars)
    BY NamesAssumption
  <2>4. Smallest(M) \in M
    BY <2>2, <2>3, SmallestIs
  <2>5. Smallest(M) = Smallest(Matches)
    BY <2>1
  <2>6. QED
    BY <2>2, <2>3, <2>4, <2>5
<1>4. lcp \in 0 .. Len(first)
  <2>1. PICK a, U : a = first /\ U = S
    OBVIOUS
  <2>2. a \in Seq(AppChars) /\ Len(a) \in Nat
    BY <2>1, <1>3
  <2>3. U = {Len(a)} \cup {common_prefix_len(a, AppNames[n]) : n \in Matches}
    BY <2>1
  <2>4. U \in SUBSET Nat /\ Len(a) \in U
    BY <2>2, <2>3, CommonPrefix
  <2>5. Smallest(U) \in U /\ Smallest(U) <= Len(a)
    BY <2>4, SmallestIs
  <2> HIDE DEF S, first
  <2>6. lcp = Smallest(U)
    BY <2>1
  <2>7. PICK l : l = Smallest(U)
    OBVIOUS
  <2>8. l \in 0 .. Len(a)
    <3>1. l \in U /\ l <= Len(a)
      BY <2>5, <2>7
    <3>2. l \in Nat
      BY <2>4, <3>1
    <3>3. QED
      BY <2>2, <3>1, <3>2
  <2> HIDE DEF lcp
  <2>9. lcp = l /\ Len(first) = Len(a)
    BY <2>1, <2>6, <2>7
  <2>10. QED
    BY <2>8, <2>9
<1>5. /\ \/ replace_first_token(first_token_end, first)
         \/ replace_first_token(first_token_end, SubSeq(first, 1, lcp))
      /\ redraw_cmdline(cmdline')
      /\ UNCHANGED <<draft, history_cursor, lines>>
  BY DEF complete_app_name
<1> HIDE DEF first, lcp
<1>6. SubSeq(first, 1, lcp) \in Seq(AppChars)
  BY <1>3, <1>4
<1>7. PICK old, v, w : old = first_token_end /\ v = first /\ w = SubSeq(first, 1, lcp)
  OBVIOUS
<1>8. replace_first_token(old, v) \/ replace_first_token(old, w)
  BY <1>5, <1>7 DEF replace_first_token
<1>9. QED
  BY <1>2, <1>3, <1>5, <1>6, <1>7, <1>8, ReplaceInv

LEMMA LineStutterInv ==
    ASSUME LineInv, UNCHANGED lineVars
    PROVE  LineInv'
<1>1. UNCHANGED <<cmdline, len, cursor, draft, history_cursor, lines, screen>>
  BY DEF lineVars
<1>2. QED
  BY <1>1 DEF LineInv, LineTypeOK, FullBefore, ScreenStartsWithLine

LEMMA LineStepInv == LineInv /\ [LineNext]_lineVars => LineInv'
  BY EnterInv, TooLongInv, MoveInv, EraseInv, BrowseInv, TypeAtEndInv, TypeInsideInv,
     CompleteInv, LineStutterInv DEF LineNext

\* Whatever was in the array before, and whatever is typed, erased, fetched
\* from the history or completed, the cursor stays in the line, the line with
\* its NUL in the array, and the console shows the line from its beginning:
\* for every size of the line and of the history, and any names (main,
\* redraw_cmdline, replace_first_token, complete_app_name).
THEOREM LineSafe == LineSpec => []LineShown
<1>1. LineInit => LineInv
  BY LineInitInv
<1>2. LineInv /\ [LineNext]_lineVars => LineInv'
  BY LineStepInv
<1>3. LineInv => LineShown
  BY DEF LineInv, LineShown
<1>4. QED
  BY <1>1, <1>2, <1>3, PTL DEF LineSpec

-----------------------------------------------------------------------------
(* The editor implements its specification: the text is what the array     *)
(* holds before its length, and every key does to it what module Editor    *)
(* says.                                                                   *)

LEMMA TextIs ==
    ASSUME NEW c, NEW n \in Nat, NEW S, \A i \in 0 .. n - 1 : c[i] \in S
    PROVE  /\ Text(c, n) \in Seq(S) /\ Len(Text(c, n)) = n
           /\ \A i \in 1 .. n : Text(c, n)[i] = c[i - 1]
<1>1. \A i \in 1 .. n : i - 1 \in 0 .. n - 1
  OBVIOUS
<1>2. Text(c, n) = [i \in 1 .. n |-> c[i - 1]]
  BY DEF Text
<1>3. Text(c, n) \in [1 .. n -> S]
  BY <1>1, <1>2
<1>4. QED
  BY <1>2, <1>3

LEMMA TextEmpty ==
    ASSUME NEW c
    PROVE  Text(c, 0) = <<>>
<1>1. Text(c, 0) \in Seq({}) /\ Len(Text(c, 0)) = 0
  BY TextIs
<1>2. QED
  BY <1>1, EmptySeq

\* Two arrays with the same characters before n hold the same text.
LEMMA TextSame ==
    ASSUME NEW c, NEW d, NEW n \in Nat, \A i \in 0 .. n - 1 : d[i] = c[i]
    PROVE  Text(d, n) = Text(c, n)
<1>1. \A i \in 1 .. n : d[i - 1] = c[i - 1]
  OBVIOUS
<1>2. QED
  BY <1>1 DEF Text

LEMMA InsertIs ==
    ASSUME NEW S, NEW s \in Seq(S), NEW i \in 1 .. Len(s) + 1, NEW e \in S
    PROVE  LET t == Abstract!InsertAt(s, i, e) IN
           /\ t \in Seq(S) /\ Len(t) = Len(s) + 1
           /\ \A j \in 1 .. Len(s) + 1 : t[j] = IF j < i THEN s[j] ELSE IF j = i THEN e ELSE s[j - 1]
<1> DEFINE a == SubSeq(s, 1, i - 1)
           b == SubSeq(s, i, Len(s))
           u == a \o <<e>>
           t == u \o b
<1>1. Len(s) \in Nat /\ i \in Nat /\ \A j \in 1 .. Len(s) : s[j] \in S
  OBVIOUS
<1>2. a \in Seq(S) /\ Len(a) = i - 1 /\ \A j \in 1 .. i - 1 : a[j] = s[j]
  <2>1. \A j \in 1 .. i - 1 : s[j] \in S
    BY <1>1
  <2>2. /\ a \in Seq(S) /\ Len(a) = (IF 1 <= i - 1 THEN (i - 1) - 1 + 1 ELSE 0)
        /\ \A j \in 1 .. (i - 1) - 1 + 1 : a[j] = s[1 + j - 1]
    BY <1>1, <2>1, SubSeqProperties
  <2> HIDE DEF a
  <2>3. QED
    BY <1>1, <2>2
<1>3. b \in Seq(S) /\ Len(b) = Len(s) + 1 - i /\ \A j \in 1 .. Len(s) + 1 - i : b[j] = s[i + j - 1]
  <2>1. \A j \in i .. Len(s) : s[j] \in S
    BY <1>1
  <2>2. /\ b \in Seq(S) /\ Len(b) = (IF i <= Len(s) THEN Len(s) - i + 1 ELSE 0)
        /\ \A j \in 1 .. Len(s) - i + 1 : b[j] = s[i + j - 1]
    BY <1>1, <2>1, SubSeqProperties
  <2> HIDE DEF b
  <2>3. QED
    BY <1>1, <2>2
<1>4. <<e>> \in Seq(S) /\ Len(<<e>>) = 1 /\ <<e>>[1] = e
  OBVIOUS
<1> HIDE DEF a, b
<1>5. /\ u \in Seq(S) /\ Len(u) = i
      /\ \A j \in 1 .. i : u[j] = IF j < i THEN s[j] ELSE e
  <2>1. u \in Seq(S) /\ Len(u) = Len(a) + 1
    BY <1>2, <1>4, ConcatProperties
  <2>2. \A j \in 1 .. Len(a) + 1 : u[j] = IF j <= Len(a) THEN a[j] ELSE <<e>>[j - Len(a)]
    BY <1>2, <1>4, ConcatProperties
  <2> HIDE DEF u
  <2>3. QED
    BY <1>1, <1>2, <1>4, <2>1, <2>2
<1> HIDE DEF u
<1>6. t \in Seq(S) /\ Len(t) = Len(s) + 1
  <2>1. t \in Seq(S) /\ Len(t) = Len(u) + Len(b)
    BY <1>3, <1>5, ConcatProperties
  <2> HIDE DEF t
  <2>2. QED
    BY <2>1, <1>1, <1>3, <1>5
<1>7. \A j \in 1 .. Len(s) + 1 : t[j] = IF j < i THEN s[j] ELSE IF j = i THEN e ELSE s[j - 1]
  <2>1. \A j \in 1 .. Len(u) + Len(b) : t[j] = IF j <= Len(u) THEN u[j] ELSE b[j - Len(u)]
    BY <1>3, <1>5, ConcatProperties
  <2> HIDE DEF t
  <2> SUFFICES ASSUME NEW j \in 1 .. Len(s) + 1
               PROVE  t[j] = IF j < i THEN s[j] ELSE IF j = i THEN e ELSE s[j - 1]
    OBVIOUS
  <2>2. t[j] = IF j <= i THEN u[j] ELSE b[j - i]
    BY <2>1, <1>1, <1>3, <1>5
  <2>3. CASE j <= i
    BY <2>2, <2>3, <1>1, <1>5
  <2>4. CASE ~(j <= i)
    <3>1. j - i \in 1 .. Len(s) + 1 - i /\ i + (j - i) - 1 = j - 1 /\ ~(j < i) /\ j # i
      BY <2>4, <1>1
    <3>2. b[j - i] = s[i + (j - i) - 1]
      BY <3>1, <1>3
    <3>3. QED
      BY <2>2, <2>4, <3>1, <3>2
  <2>5. QED
    BY <2>3, <2>4
<1>8. Abstract!InsertAt(s, i, e) = t
  BY DEF Abstract!InsertAt, t, u, a, b
<1> HIDE DEF t
<1>9. QED
  BY <1>6, <1>7, <1>8

LEMMA RemoveIs ==
    ASSUME NEW S, NEW s \in Seq(S), NEW i \in 1 .. Len(s)
    PROVE  LET t == Abstract!RemoveAt(s, i) IN
           /\ t \in Seq(S) /\ Len(t) = Len(s) - 1
           /\ \A j \in 1 .. Len(s) - 1 : t[j] = IF j < i THEN s[j] ELSE s[j + 1]
<1> DEFINE a == SubSeq(s, 1, i - 1)
           b == SubSeq(s, i + 1, Len(s))
           t == a \o b
<1>1. Len(s) \in Nat /\ i \in Nat /\ \A j \in 1 .. Len(s) : s[j] \in S
  OBVIOUS
<1>2. a \in Seq(S) /\ Len(a) = i - 1 /\ \A j \in 1 .. i - 1 : a[j] = s[j]
  <2>1. \A j \in 1 .. i - 1 : s[j] \in S
    BY <1>1
  <2>2. /\ a \in Seq(S) /\ Len(a) = (IF 1 <= i - 1 THEN (i - 1) - 1 + 1 ELSE 0)
        /\ \A j \in 1 .. (i - 1) - 1 + 1 : a[j] = s[1 + j - 1]
    BY <1>1, <2>1, SubSeqProperties
  <2> HIDE DEF a
  <2>3. QED
    BY <1>1, <2>2
<1>3. b \in Seq(S) /\ Len(b) = Len(s) - i /\ \A j \in 1 .. Len(s) - i : b[j] = s[i + j]
  <2>1. \A j \in i + 1 .. Len(s) : s[j] \in S
    BY <1>1
  <2>2. /\ b \in Seq(S) /\ Len(b) = (IF i + 1 <= Len(s) THEN Len(s) - (i + 1) + 1 ELSE 0)
        /\ \A j \in 1 .. Len(s) - (i + 1) + 1 : b[j] = s[(i + 1) + j - 1]
    BY <1>1, <2>1, SubSeqProperties
  <2> HIDE DEF b
  <2>3. \A j \in 1 .. Len(s) - i : j \in 1 .. Len(s) - (i + 1) + 1 /\ (i + 1) + j - 1 = i + j
    BY <1>1
  <2>4. QED
    BY <1>1, <2>2, <2>3
<1> HIDE DEF a, b
<1>4. t \in Seq(S) /\ Len(t) = Len(s) - 1
  <2>1. t \in Seq(S) /\ Len(t) = Len(a) + Len(b)
    BY <1>2, <1>3, ConcatProperties
  <2> HIDE DEF t
  <2>2. QED
    BY <2>1, <1>1, <1>2, <1>3
<1>5. \A j \in 1 .. Len(s) - 1 : t[j] = IF j < i THEN s[j] ELSE s[j + 1]
  <2>1. \A j \in 1 .. Len(a) + Len(b) : t[j] = IF j <= Len(a) THEN a[j] ELSE b[j - Len(a)]
    BY <1>2, <1>3, ConcatProperties
  <2> HIDE DEF t
  <2> SUFFICES ASSUME NEW j \in 1 .. Len(s) - 1
               PROVE  t[j] = IF j < i THEN s[j] ELSE s[j + 1]
    OBVIOUS
  <2>2. t[j] = IF j <= i - 1 THEN a[j] ELSE b[j - (i - 1)]
    BY <2>1, <1>1, <1>2, <1>3
  <2>3. CASE j < i
    BY <2>2, <2>3, <1>1, <1>2
  <2>4. CASE ~(j < i)
    <3>1. j - (i - 1) \in 1 .. Len(s) - i /\ i + (j - (i - 1)) = j + 1 /\ ~(j <= i - 1)
      BY <2>4, <1>1
    <3>2. b[j - (i - 1)] = s[i + (j - (i - 1))]
      BY <3>1, <1>3
    <3>3. QED
      BY <2>2, <2>4, <3>1, <3>2
  <2>5. QED
    BY <2>3, <2>4
<1>6. Abstract!RemoveAt(s, i) = t
  BY DEF Abstract!RemoveAt, t, a, b
<1> HIDE DEF t
<1>7. QED
  BY <1>4, <1>5, <1>6

LEMMA EditorInit == LineInit => Abstract!Init
<1> SUFFICES ASSUME LineInit PROVE Abstract!Init
  OBVIOUS
<1>1. len = 0 /\ cursor = 0 /\ lines = <<>> /\ history_cursor = -1 /\ draft = <<>>
  BY DEF LineInit
<1>2. Text(cmdline, len) = <<>>
  <2>1. PICK c : c = cmdline
    OBVIOUS
  <2>2. Text(c, 0) = <<>>
    BY TextEmpty
  <2>3. QED
    BY <1>1, <2>1, <2>2 DEF Text
<1>3. QED
  BY <1>1, <1>2 DEF Abstract!Init

\* After a prompt the text is empty.
LEMMA PromptEmpty ==
    ASSUME len' = 0
    PROVE  Text(cmdline', len') = <<>>
<1>1. PICK c : c = cmdline'
  OBVIOUS
<1>2. Text(c, 0) = <<>>
  BY TextEmpty
<1>3. QED
  BY <1>1, <1>2 DEF Text

\* The text as a sequence without NULs, of the length of the line.
LEMMA TextFacts ==
    ASSUME LineInv
    PROVE  /\ Text(cmdline, len) \in Seq(Stored) /\ Len(Text(cmdline, len)) = len
           /\ \A i \in 1 .. len : Text(cmdline, len)[i] = cmdline[i - 1]
<1>1. len \in Nat /\ \A i \in 0 .. len - 1 : cmdline[i] \in Stored
  BY LineFacts, LimitsNat
<1>2. PICK c, n : c = cmdline /\ n = len
  OBVIOUS
<1>3. /\ Text(c, n) \in Seq(Stored) /\ Len(Text(c, n)) = n
      /\ \A i \in 1 .. n : Text(c, n)[i] = c[i - 1]
  BY <1>1, <1>2, TextIs
<1>4. QED
  BY <1>2, <1>3

LEMMA EditorTooLong ==
    ASSUME LineInv, TooLong
    PROVE  Abstract!TooLong
<1>1. Len(Text(cmdline, len)) = CMDLINE_MAX - 1
  BY TextFacts DEF TooLong
<1>2. len' = 0 /\ cursor' = 0 /\ history_cursor' = -1 /\ draft' = <<>> /\ lines' = lines
  BY DEF TooLong, Prompt
<1>3. Text(cmdline', len') = <<>>
  BY <1>2, PromptEmpty
<1>4. QED
  BY <1>1, <1>2, <1>3 DEF Abstract!TooLong

LEMMA EditorMove ==
    ASSUME LineInv, Left \/ Right
    PROVE  Abstract!Move
<1>1. len \in Nat /\ cursor \in 0 .. len
  BY LineFacts, LimitsNat
<1>2. Len(Text(cmdline, len)) = len
  BY TextFacts
<1>3. cursor' \in {cursor - 1, cursor + 1} \cap (0 .. len)
  BY <1>1 DEF Left, Right
<1>4. UNCHANGED <<cmdline, len, lines, history_cursor, draft>>
  BY DEF Left, Right
<1>5. Text(cmdline', len') = Text(cmdline, len)
  BY <1>4
<1>6. QED
  BY <1>2, <1>3, <1>4, <1>5 DEF Abstract!Move

\* The array with a character more, seen as a text.
LEMMA TextInserted ==
    ASSUME NEW c, NEW d, NEW n \in Nat, NEW k \in 0 .. n, NEW ch \in Stored,
           \A i \in 0 .. n - 1 : c[i] \in Stored,
           \A i \in 0 .. n : d[i] = IF i < k THEN c[i] ELSE IF i = k THEN ch ELSE c[i - 1]
    PROVE  Text(d, n + 1) = Abstract!InsertAt(Text(c, n), k + 1, ch)
<1> DEFINE s == Text(c, n)
           t == Abstract!InsertAt(s, k + 1, ch)
           u == Text(d, n + 1)
<1>1. s \in Seq(Stored) /\ Len(s) = n /\ \A i \in 1 .. n : s[i] = c[i - 1]
  BY TextIs
<1> HIDE DEF s
<1>2. k \in Nat /\ k + 1 \in 1 .. Len(s) + 1 /\ n + 1 \in Nat
  BY <1>1
<1>3. /\ t \in Seq(Stored) /\ Len(t) = n + 1
      /\ \A j \in 1 .. n + 1 : t[j] = IF j < k + 1 THEN s[j] ELSE IF j = k + 1 THEN ch ELSE s[j - 1]
  <2>1. PICK m, r : m = k + 1 /\ r = s
    OBVIOUS
  <2>2. r \in Seq(Stored) /\ m \in 1 .. Len(r) + 1
    BY <1>1, <1>2, <2>1
  <2> DEFINE v == Abstract!InsertAt(r, m, ch)
  <2>3. /\ v \in Seq(Stored) /\ Len(v) = Len(r) + 1
        /\ \A j \in 1 .. Len(r) + 1 :
              v[j] = IF j < m THEN r[j] ELSE IF j = m THEN ch ELSE r[j - 1]
    BY <2>2, InsertIs
  <2>4. v = t
    BY <2>1
  <2> HIDE DEF t, v
  <2>5. QED
    BY <1>1, <2>1, <2>3, <2>4
<1> HIDE DEF t
<1>4. ASSUME NEW i \in 0 .. n PROVE d[i] = t[i + 1]
  <2>1. i \in Nat /\ i + 1 \in 1 .. n + 1
    OBVIOUS
  <2>2. CASE i < k
    <3>1. i + 1 \in 1 .. n /\ i + 1 < k + 1 /\ (i + 1) - 1 = i
      BY <1>2, <2>1, <2>2
    <3>2. QED
      BY <1>1, <1>3, <2>1, <2>2, <3>1
  <2>3. CASE i = k
    BY <1>2, <1>3, <2>1, <2>3
  <2>4. CASE ~(i < k) /\ i # k
    <3>1. i \in 1 .. n /\ ~(i + 1 < k + 1) /\ i + 1 # k + 1 /\ (i + 1) - 1 = i
      BY <1>2, <2>1, <2>4
    <3>2. QED
      BY <1>1, <1>3, <2>1, <2>4, <3>1
  <2>5. QED
    BY <2>2, <2>3, <2>4
<1>5. \A i \in 0 .. (n + 1) - 1 : d[i] \in Stored
  <2>1. \A i \in 0 .. (n + 1) - 1 : i \in 0 .. n /\ i + 1 \in 1 .. Len(t)
    BY <1>3
  <2>2. QED
    BY <1>3, <1>4, <2>1
<1>6. u \in Seq(Stored) /\ Len(u) = n + 1 /\ \A i \in 1 .. n + 1 : u[i] = d[i - 1]
  BY <1>2, <1>5, TextIs
<1> HIDE DEF u
<1>7. \A i \in 1 .. n + 1 : u[i] = t[i]
  <2>1. \A i \in 1 .. n + 1 : i - 1 \in 0 .. n /\ (i - 1) + 1 = i
    OBVIOUS
  <2>2. QED
    BY <1>4, <1>6, <2>1
<1>8. u = t
  BY <1>3, <1>6, <1>7, SeqEqual
<1>9. QED
  BY <1>8 DEF u, t, s

LEMMA EditorType ==
    ASSUME LineInv, NEW ch \in Chars, TypeAtEnd(ch) \/ TypeInside(ch)
    PROVE  Abstract!Type(ch)
<1>1. /\ len \in Nat /\ cursor \in 0 .. len /\ ch \in Stored
      /\ cmdline \in [Cells -> Stored \cup {NUL}]
      /\ \A i \in 0 .. len - 1 : cmdline[i] \in Stored
  BY LineFacts, LimitsNat DEF Stored
<1>2. /\ len < CMDLINE_MAX - 1 /\ len' = len + 1 /\ cursor' = cursor + 1
      /\ UNCHANGED <<draft, history_cursor, lines>>
  BY DEF TypeAtEnd, TypeInside
<1>3. \A i \in 0 .. len : i \in Cells
  BY <1>1, <1>2, LimitsNat DEF Cells
<1>4. \A i \in 0 .. len :
          cmdline'[i] = IF i < cursor THEN cmdline[i] ELSE IF i = cursor THEN ch ELSE cmdline[i - 1]
  <2>1. CASE TypeAtEnd(ch)
    <3>1. cursor = len /\ cmdline' = [cmdline EXCEPT ![len] = ch]
      BY <2>1 DEF TypeAtEnd
    <3>2. \A i \in 0 .. len : i < len \/ i = len
      BY <1>1
    <3>3. QED
      BY <1>1, <1>3, <3>1, <3>2
  <2>2. CASE TypeInside(ch)
    <3>1. cmdline' = [i \in Cells |-> IF i = cursor THEN ch
                                      ELSE IF i \in cursor + 1 .. len + 1 THEN cmdline[i - 1]
                                      ELSE cmdline[i]]
      BY <2>2 DEF TypeInside, Inserted
    <3>2. \A i \in 0 .. len : /\ (i < cursor => i # cursor /\ i \notin cursor + 1 .. len + 1)
                              /\ (~(i < cursor) /\ i # cursor => i \in cursor + 1 .. len + 1)
      BY <1>1
    <3>3. QED
      BY <1>3, <3>1, <3>2
  <2>3. QED
    BY <2>1, <2>2
<1>5. PICK c, d, n, k : c = cmdline /\ d = cmdline' /\ n = len /\ k = cursor
  OBVIOUS
<1>6. Text(d, n + 1) = Abstract!InsertAt(Text(c, n), k + 1, ch)
  BY <1>1, <1>4, <1>5, TextInserted
<1>7. Text(cmdline', len') = Abstract!InsertAt(Text(cmdline, len), cursor + 1, ch)
  BY <1>2, <1>5, <1>6
<1>8. Len(Text(cmdline, len)) = len
  BY TextFacts
<1>9. QED
  BY <1>2, <1>7, <1>8 DEF Abstract!Type

\* The array with a character less.
LEMMA TextRemoved ==
    ASSUME NEW c, NEW d, NEW n \in Nat \ {0}, NEW k \in 0 .. n - 1,
           \A i \in 0 .. n - 1 : c[i] \in Stored,
           \A i \in 0 .. n - 2 : d[i] = IF i < k THEN c[i] ELSE c[i + 1]
    PROVE  Text(d, n - 1) = Abstract!RemoveAt(Text(c, n), k + 1)
<1>1. PICK s : s = Text(c, n)
  OBVIOUS
<1>2. s \in Seq(Stored) /\ Len(s) = n /\ \A i \in 1 .. n : s[i] = c[i - 1]
  BY <1>1, TextIs
<1>3. PICK m : m = k + 1
  OBVIOUS
<1>4. k \in Nat /\ m \in 1 .. Len(s) /\ n - 1 \in Nat
  BY <1>2, <1>3
<1> DEFINE t == Abstract!RemoveAt(s, m)
           u == Text(d, n - 1)
<1>5. /\ t \in Seq(Stored) /\ Len(t) = Len(s) - 1
      /\ \A j \in 1 .. Len(s) - 1 : t[j] = IF j < m THEN s[j] ELSE s[j + 1]
  BY <1>2, <1>4, RemoveIs
<1>6. t = Abstract!RemoveAt(Text(c, n), k + 1)
  BY <1>1, <1>3
<1> HIDE DEF t
<1>7. ASSUME NEW i \in 0 .. n - 2 PROVE i + 1 \in 1 .. Len(t) /\ d[i] = t[i + 1]
  <2>1. i \in Nat /\ i + 1 \in 1 .. n - 1 /\ i + 1 \in 1 .. Len(t)
    BY <1>2, <1>5
  <2>2. CASE i < k
    <3>1. i + 1 \in 1 .. n /\ i + 1 < m /\ (i + 1) - 1 = i
      BY <1>3, <1>4, <2>1, <2>2
    <3>2. QED
      BY <1>2, <1>5, <2>1, <2>2, <3>1
  <2>3. CASE ~(i < k)
    <3>1. (i + 1) + 1 \in 1 .. n /\ ~(i + 1 < m) /\ ((i + 1) + 1) - 1 = i + 1
      BY <1>3, <1>4, <2>1, <2>3
    <3>2. t[i + 1] = s[(i + 1) + 1]
      BY <1>2, <1>5, <2>1, <3>1
    <3>3. s[(i + 1) + 1] = c[i + 1]
      BY <1>2, <3>1
    <3>4. QED
      BY <2>1, <2>3, <3>2, <3>3
  <2>4. QED
    BY <2>2, <2>3
<1>8. \A i \in 0 .. (n - 1) - 1 : d[i] \in Stored
  <2>1. \A i \in 0 .. (n - 1) - 1 : i \in 0 .. n - 2
    OBVIOUS
  <2>2. QED
    BY <1>5, <1>7, <2>1
<1>9. u \in Seq(Stored) /\ Len(u) = n - 1 /\ \A i \in 1 .. n - 1 : u[i] = d[i - 1]
  <2>1. PICK l \in Nat : l = n - 1
    BY <1>4
  <2>2. \A i \in 0 .. l - 1 : d[i] \in Stored
    BY <1>8, <2>1
  <2>3. Text(d, l) \in Seq(Stored) /\ Len(Text(d, l)) = l /\ \A i \in 1 .. l : Text(d, l)[i] = d[i - 1]
    BY <2>2, TextIs
  <2>4. QED
    BY <2>1, <2>3
<1> HIDE DEF u
<1>10. \A i \in 1 .. n - 1 : u[i] = t[i]
  <2>1. \A i \in 1 .. n - 1 : i - 1 \in 0 .. n - 2 /\ (i - 1) + 1 = i
    OBVIOUS
  <2>2. QED
    BY <1>7, <1>9, <2>1
<1>11. Len(t) = n - 1
  BY <1>2, <1>5
<1>12. u = t
  BY <1>5, <1>9, <1>10, <1>11, SeqEqual
<1>13. QED
  BY <1>6, <1>12 DEF u

LEMMA EditorErase ==
    ASSUME LineInv, Delete \/ Backspace
    PROVE  Abstract!Delete \/ Abstract!Backspace
<1>1. /\ len \in 0 .. CMDLINE_MAX - 1 /\ len \in Nat /\ cursor \in 0 .. len
      /\ \A i \in 0 .. len - 1 : cmdline[i] \in Stored
  BY LineFacts, LimitsNat
<1>2. UNCHANGED <<draft, history_cursor, lines>> /\ len' = len - 1
  BY DEF Delete, Backspace
<1>3. Len(Text(cmdline, len)) = len
  BY TextFacts
<1>4. ASSUME NEW pos \in 0 .. len - 1, cmdline' = Removed(pos)
      PROVE  Text(cmdline', len') = Abstract!RemoveAt(Text(cmdline, len), pos + 1)
  <2>1. \A i \in 0 .. len - 2 : i \in Cells /\ i # len - 1 /\ (~(i < pos) => i \in pos .. len - 2)
                                /\ (i < pos => i \notin pos .. len - 2)
    BY <1>1, LimitsNat DEF Cells
  <2>2. cmdline' = [i \in Cells |-> IF i = len - 1 THEN NUL
                                    ELSE IF i \in pos .. len - 2 THEN cmdline[i + 1]
                                    ELSE cmdline[i]]
    BY <1>4 DEF Removed
  <2>3. \A i \in 0 .. len - 2 : cmdline'[i] = IF i < pos THEN cmdline[i] ELSE cmdline[i + 1]
    BY <2>1, <2>2
  <2>4. PICK c, d, n : c = cmdline /\ d = cmdline' /\ n = len
    OBVIOUS
  <2>5. n \in Nat \ {0} /\ pos \in 0 .. n - 1
    BY <1>1, <1>4, <2>4
  <2>6. Text(d, n - 1) = Abstract!RemoveAt(Text(c, n), pos + 1)
    BY <1>1, <2>3, <2>4, <2>5, TextRemoved
  <2>7. QED
    BY <1>2, <2>4, <2>6
<1>5. CASE Delete
  <2>1. cursor < len /\ cmdline' = Removed(cursor) /\ cursor' = cursor
    BY <1>5 DEF Delete
  <2>2. PICK pos : pos = cursor
    OBVIOUS
  <2>3. pos \in 0 .. len - 1 /\ cmdline' = Removed(pos)
    BY <1>1, <2>1, <2>2 DEF Removed
  <2>4. Text(cmdline', len') = Abstract!RemoveAt(Text(cmdline, len), pos + 1)
    BY <1>4, <2>3
  <2>5. Text(cmdline', len') = Abstract!RemoveAt(Text(cmdline, len), cursor + 1)
    BY <2>2, <2>4
  <2>6. Abstract!Delete
    BY <1>2, <1>3, <2>1, <2>5 DEF Abstract!Delete
  <2>7. QED
    BY <2>6
<1>6. CASE Backspace
  <2>1. cursor > 0 /\ cmdline' = Removed(cursor - 1) /\ cursor' = cursor - 1
    BY <1>6 DEF Backspace
  <2>2. PICK pos : pos = cursor - 1
    OBVIOUS
  <2>3. pos \in 0 .. len - 1 /\ cmdline' = Removed(pos) /\ pos + 1 = cursor
    BY <1>1, <2>1, <2>2 DEF Removed
  <2>4. Text(cmdline', len') = Abstract!RemoveAt(Text(cmdline, len), pos + 1)
    BY <1>4, <2>3
  <2>5. Text(cmdline', len') = Abstract!RemoveAt(Text(cmdline, len), cursor)
    BY <2>3, <2>4
  <2>6. Abstract!Backspace
    BY <1>2, <2>1, <2>5 DEF Abstract!Backspace
  <2>7. QED
    BY <2>6
<1>7. QED
  BY <1>5, <1>6

\* A line at the end of the history, which drops its oldest one when full.
LEMMA PushedIs ==
    ASSUME NEW ls \in Seq(Storable), NEW line \in Storable
    PROVE  /\ SubSeq(Append(ls, line), 1, Len(ls) + 1) = Append(ls, line)
           /\ ls # <<>> => SubSeq(Append(ls, line), 2, Len(ls) + 1) = Append(Tail(ls), line)
<1>1. PICK a : a = Append(ls, line)
  OBVIOUS
<1>2. a \in Seq(Storable) /\ Len(a) = Len(ls) + 1 /\ Len(ls) \in Nat
      /\ \A i \in 1 .. Len(ls) + 1 : a[i] = IF i <= Len(ls) THEN ls[i] ELSE line
  BY <1>1
<1>3. SubSeq(a, 1, Len(a)) = a
  BY <1>2, SubSeqFull
<1>4. ASSUME ls # <<>> PROVE SubSeq(a, 2, Len(ls) + 1) = Append(Tail(ls), line)
  <2>1. PICK t : t = Tail(ls)
    OBVIOUS
  <2>2. t \in Seq(Storable) /\ Len(t) = Len(ls) - 1 /\ \A i \in 1 .. Len(t) : t[i] = ls[i + 1]
    BY <1>4, <2>1, HeadTailProperties
  <2>3. a # <<>>
    BY <1>2
  <2>4. SubSeq(a, 2, Len(a)) = Tail(a)
    BY <1>2, <2>3, TailIsSubSeq
  <2>5. Tail(a) \in Seq(Storable) /\ Len(Tail(a)) = Len(a) - 1 /\ \A i \in 1 .. Len(Tail(a)) : Tail(a)[i] = a[i + 1]
    BY <1>2, <2>3, HeadTailProperties
  <2>6. PICK b : b = Append(t, line)
    OBVIOUS
  <2>7. b \in Seq(Storable) /\ Len(b) = Len(t) + 1
        /\ \A i \in 1 .. Len(t) + 1 : b[i] = IF i <= Len(t) THEN t[i] ELSE line
    BY <2>2, <2>6
  <2>8. PICK e : e = Tail(a)
    OBVIOUS
  <2>9. e \in Seq(Storable) /\ Len(e) = Len(ls) /\ \A i \in 1 .. Len(ls) : e[i] = a[i + 1]
    BY <1>2, <2>5, <2>8
  <2>10. Len(b) = Len(ls) /\ \A i \in 1 .. Len(ls) : b[i] = a[i + 1]
    <3>1. Len(b) = Len(ls)
      BY <1>2, <2>2, <2>7
    <3>2. ASSUME NEW i \in 1 .. Len(ls) PROVE b[i] = a[i + 1]
      <4>1. i + 1 \in 1 .. Len(ls) + 1 /\ i \in 1 .. Len(t) + 1 /\ (i <= Len(t) <=> i + 1 <= Len(ls))
        BY <1>2, <2>2
      <4>2. b[i] = IF i <= Len(t) THEN t[i] ELSE line
        BY <2>7, <4>1
      <4>3. a[i + 1] = IF i + 1 <= Len(ls) THEN ls[i + 1] ELSE line
        BY <1>2, <4>1
      <4>4. i <= Len(t) => t[i] = ls[i + 1]
        BY <2>2
      <4>5. QED
        BY <4>1, <4>2, <4>3, <4>4
    <3>3. QED
      BY <3>1, <3>2
  <2>11. e = b
    BY <2>7, <2>9, <2>10, SeqEqual
  <2>12. QED
    BY <1>2, <2>1, <2>4, <2>6, <2>8, <2>11
<1>5. QED
  BY <1>1, <1>2, <1>3, <1>4

\* The line entered is the text: it ends at the NUL just put there.
LEMMA EnteredLine ==
    ASSUME LineInv, Enter
    PROVE  history_push_line(Text(cmdline, len)) /\ Prompt
<1>1. /\ cmdline \in [Cells -> Stored \cup {NUL}] /\ len \in 0 .. CMDLINE_MAX - 1 /\ len \in Nat
      /\ \A i \in 0 .. len - 1 : cmdline[i] \in Stored
  BY LineFacts, LimitsNat
<1>2. PICK c : c = [cmdline EXCEPT ![len] = NUL]
  OBVIOUS
<1>3. len \in Cells /\ \A i \in 0 .. len - 1 : i \in Cells \ {len}
  BY <1>1, LimitsNat DEF Cells
<1>4. c[len] = NUL /\ \A i \in 0 .. len - 1 : c[i] = cmdline[i]
  BY <1>1, <1>2, <1>3
<1>5. str_len(c) = len
  <2>1. len \in Ends(c)
    BY <1>3, <1>4 DEF Ends
  <2>2. str_len(c) \in Cells /\ c[str_len(c)] = NUL /\ str_len(c) <= len
    BY <2>1, StrLenIs DEF Ends
  <2>3. str_len(c) \notin 0 .. len - 1
    BY <2>2, <1>1, <1>4, NoNul
  <2>4. QED
    BY <2>2, <2>3, <1>1, LimitsNat DEF Cells
<1>6. Text(c, len) = Text(cmdline, len)
  <2>1. PICK d, n : d = cmdline /\ n = len
    OBVIOUS
  <2>2. Text(c, n) = Text(d, n)
    BY <1>1, <1>4, <2>1, TextSame
  <2>3. QED
    BY <2>1, <2>2
<1>7. history_push_line(Text(c, str_len(c))) /\ Prompt
  BY <1>2 DEF Enter
<1>8. QED
  BY <1>5, <1>6, <1>7

LEMMA EditorEnter ==
    ASSUME LineInv, Enter
    PROVE  Abstract!Enter
<1>1. lines \in Seq(Storable) /\ Len(lines) <= HISTORY_MAX /\ Len(lines) \in Nat
  BY LineFacts
<1>2. len' = 0 /\ cursor' = 0 /\ history_cursor' = -1 /\ draft' = <<>>
  BY EnteredLine DEF Prompt
<1>3. Text(cmdline', len') = <<>>
  BY <1>2, PromptEmpty
<1>4. PICK ls, line, all : ls = lines /\ line = Text(cmdline, len) /\ all = Append(ls, line)
  OBVIOUS
<1>5. line \in Storable
  <2>1. line \in Seq(Stored) /\ Len(line) = len /\ len < CMDLINE_MAX
    BY <1>4, TextFacts, LineFacts, LimitsNat
  <2>2. QED
    BY <2>1 DEF Storable
<1>6. Len(all) = Len(lines) + 1
  BY <1>1, <1>4, <1>5
<1>7. /\ SubSeq(all, 1, Len(lines) + 1) = all
      /\ lines # <<>> => SubSeq(all, 2, Len(lines) + 1) = Append(Tail(lines), line)
  BY <1>1, <1>4, <1>5, PushedIs
<1>8. lines' = IF line = <<>> THEN lines
               ELSE IF Len(lines) < HISTORY_MAX THEN all ELSE Append(Tail(lines), line)
  BY <1>4, EnteredLine DEF history_push_line
<1>9. lines' = IF line = <<>> THEN lines
               ELSE SubSeq(all, IF Len(all) > HISTORY_MAX THEN 2 ELSE 1, Len(all))
  <2>1. CASE line = <<>>
    BY <2>1, <1>8
  <2>2. CASE line # <<>> /\ Len(lines) < HISTORY_MAX
    <3>1. ~(Len(all) > HISTORY_MAX)
      BY <2>2, <1>1, <1>6, LimitsNat
    <3>2. QED
      BY <2>2, <3>1, <1>6, <1>7, <1>8
  <2>3. CASE line # <<>> /\ ~(Len(lines) < HISTORY_MAX)
    <3>1. Len(all) > HISTORY_MAX /\ Len(lines) # 0
      BY <2>3, <1>1, <1>6, LimitsNat
    <3>2. lines # <<>>
      BY <3>1
    <3>3. QED
      BY <2>3, <3>1, <3>2, <1>6, <1>7, <1>8
  <2>4. QED
    BY <2>1, <2>2, <2>3
<1>10. lines' = Abstract!Pushed(Text(cmdline, len))
  BY <1>4, <1>9 DEF Abstract!Pushed
<1>11. QED
  BY <1>2, <1>3, <1>10 DEF Abstract!Enter

\* What is copied into the array is the text afterwards.
LEMMA TextShown ==
    ASSUME NEW s \in Storable, Show(s)
    PROVE  Text(cmdline', len') = s /\ cursor' = Len(s)
<1>1. /\ cmdline' = Copied(s) /\ len' = Len(s) /\ cursor' = Len(s)
  BY DEF Show
<1>2. s \in Seq(Stored) /\ Len(s) \in Nat /\ Len(s) < CMDLINE_MAX
  BY DEF Storable
<1>3. cmdline' = [i \in Cells |-> IF i < Len(s) THEN s[i + 1] ELSE IF i = Len(s) THEN NUL ELSE cmdline[i]]
  BY <1>1 DEF Copied
<1>4. \A i \in 0 .. Len(s) - 1 : i \in Cells /\ i < Len(s) /\ i + 1 \in 1 .. Len(s)
  BY <1>2, LimitsNat DEF Cells
<1>5. \A i \in 0 .. Len(s) - 1 : cmdline'[i] = s[i + 1] /\ s[i + 1] \in Stored
  BY <1>2, <1>3, <1>4
<1>6. PICK d, n : d = cmdline' /\ n = Len(s)
  OBVIOUS
<1>7. \A i \in 0 .. n - 1 : d[i] \in Stored
  BY <1>5, <1>6
<1>8. /\ Text(d, n) \in Seq(Stored) /\ Len(Text(d, n)) = n
      /\ \A i \in 1 .. n : Text(d, n)[i] = d[i - 1]
  BY <1>2, <1>6, <1>7, TextIs
<1>9. \A i \in 1 .. n : d[i - 1] = s[i]
  <2>1. \A i \in 1 .. n : i - 1 \in 0 .. Len(s) - 1 /\ (i - 1) + 1 = i
    BY <1>2, <1>6
  <2>2. QED
    BY <1>5, <1>6, <2>1
<1>10. Text(d, n) = s
  BY <1>2, <1>6, <1>8, <1>9, SeqEqual
<1>11. QED
  BY <1>1, <1>6, <1>10

\* A line of the history is shown: b is its number.
LEMMA EditorShows ==
    ASSUME LineInv, NEW b \in 0 .. Len(lines) - 1, history_cursor' = b,
           draft' = IF history_cursor = -1 THEN Text(cmdline, len) ELSE draft,
           Show(lines[b + 1])
    PROVE  Abstract!Browse(b)
<1>1. lines \in Seq(Storable) /\ Len(lines) \in Nat /\ b \in Nat
  BY LineFacts
<1>2. PICK s : s = lines[b + 1]
  OBVIOUS
<1>3. s \in Storable
  BY <1>1, <1>2
<1>4. Show(s)
  BY <1>2
<1>5. Text(cmdline', len') = s /\ cursor' = Len(s)
  BY <1>3, <1>4, TextShown
<1>6. lines' = lines
  BY DEF Show
<1>7. b # -1
  BY <1>1
<1>8. QED
  BY <1>2, <1>5, <1>6, <1>7 DEF Abstract!Browse

LEMMA EditorBrowse ==
    ASSUME LineInv, Up \/ Down
    PROVE  Abstract!Up \/ Abstract!Down
<1>1. /\ history_cursor \in -1 .. Len(lines) - 1 /\ history_cursor \in Int
      /\ lines \in Seq(Storable) /\ draft \in Storable /\ Len(lines) \in Nat
  BY LineFacts
<1>2. lines # <<>> => Len(lines) > 0
  BY <1>1
<1>3. CASE Up
  <2>1. PICK b : b = history_cursor'
    OBVIOUS
  <2>2. /\ lines # <<>> /\ Show(lines[b + 1])
        /\ draft' = IF history_cursor = -1 THEN Text(cmdline, len) ELSE draft
    BY <1>3, <2>1 DEF Up
  <2>3. b = IF history_cursor = -1 THEN Len(lines) - 1
            ELSE IF history_cursor > 0 THEN history_cursor - 1 ELSE 0
    BY <1>1, <1>3, <2>1 DEF Up
  <2>4. b \in 0 .. Len(lines) - 1
    BY <1>1, <1>2, <2>2, <2>3
  <2>5. Abstract!Browse(b)
    BY <2>1, <2>2, <2>4, EditorShows
  <2>6. Abstract!Up
    BY <2>2, <2>3, <2>5 DEF Abstract!Up
  <2>7. QED
    BY <2>6
<1>4. CASE Down
  <2>1. history_cursor # -1
    BY <1>4 DEF Down
  <2>2. CASE /\ history_cursor < Len(lines) - 1 /\ history_cursor' = history_cursor + 1
             /\ draft' = draft /\ Show(lines[history_cursor' + 1])
    <3>1. PICK b : b = history_cursor'
      OBVIOUS
    <3>2. b \in 0 .. Len(lines) - 1
      BY <1>1, <2>1, <2>2, <3>1
    <3>3. Show(lines[b + 1])
      BY <2>2, <3>1
    <3>4. Abstract!Browse(b)
      BY <2>1, <2>2, <3>1, <3>2, <3>3, EditorShows
    <3>5. b = IF history_cursor < Len(lines) - 1 THEN history_cursor + 1 ELSE -1
      BY <2>2, <3>1
    <3>6. Abstract!Down
      BY <2>1, <3>4, <3>5 DEF Abstract!Down
    <3>7. QED
      BY <3>6
  <2>3. CASE /\ history_cursor = Len(lines) - 1 /\ history_cursor' = -1
             /\ draft' = <<>> /\ Show(draft)
    <3>1. PICK s : s = draft
      OBVIOUS
    <3>2. Show(s) /\ s \in Storable
      BY <1>1, <2>3, <3>1
    <3>3. Text(cmdline', len') = s /\ cursor' = Len(s)
      BY <3>2, TextShown
    <3>4. lines' = lines
      BY <2>3 DEF Show
    <3>5. Abstract!Browse(-1)
      BY <2>3, <3>1, <3>3, <3>4 DEF Abstract!Browse
    <3>6. ~(history_cursor < Len(lines) - 1)
      BY <1>1, <2>3
    <3>7. Abstract!Down
      BY <2>1, <3>5, <3>6 DEF Abstract!Down
    <3>8. QED
      BY <3>7
  <2>4. QED
    BY <1>4, <2>2, <2>3 DEF Down
<1>5. QED
  BY <1>3, <1>4

\* The parts of a completion, as module Editor defines them.
AllNames == {AppNames[i] : i \in DOMAIN AppNames}
Blanks(t) == {i \in 1 .. Len(t) : t[i] = Blank}
FirstWord(t) ==
    IF Blanks(t) = {} THEN Len(t) ELSE (CHOOSE i \in Blanks(t) : \A j \in Blanks(t) : i <= j) - 1
NamesWith(t, k) == {n \in AllNames : Abstract!IsPrefix(SubSeq(t, 1, k), n)}

\* The same parts, as complete_app_name finds them in the array.
NumbersWith(c, k) ==
    {m \in DOMAIN AppNames : Len(AppNames[m]) >= k /\ \A j \in 0 .. k - 1 : AppNames[m][j + 1] = c[j]}
NamesAt(M) == {AppNames[i] : i \in M}
CommonLen(a, M) == Smallest({Len(a)} \cup {common_prefix_len(a, AppNames[n]) : n \in M})

LEMMA PrefixIs ==
    ASSUME NEW S, NEW s \in Seq(S), NEW u \in Seq(S)
    PROVE  Abstract!IsPrefix(s, u) <=> Len(s) <= Len(u) /\ \A j \in 1 .. Len(s) : s[j] = u[j]
<1>1. Len(s) \in Nat /\ Len(u) \in Nat
  OBVIOUS
<1>2. SubSeq(s, 1, Len(s)) = s
  BY SubSeqFull
<1>3. ASSUME Len(s) <= Len(u)
      PROVE  SubSeq(u, 1, Len(s)) = s <=> \A j \in 1 .. Len(s) : s[j] = u[j]
  <2>1. PICK v, l : v = SubSeq(u, 1, Len(s)) /\ l = Len(s)
    OBVIOUS
  <2>2. l \in Nat /\ \A j \in 1 .. l : u[j] \in S
    BY <1>1, <1>3, <2>1
  <2>3. v \in Seq(S) /\ Len(v) = l /\ \A j \in 1 .. l : v[j] = u[j]
    <3>1. /\ v \in Seq(S) /\ Len(v) = (IF 1 <= l THEN l - 1 + 1 ELSE 0)
          /\ \A j \in 1 .. l - 1 + 1 : v[j] = u[1 + j - 1]
      BY <2>1, <2>2, SubSeqProperties
    <3>2. QED
      BY <2>2, <3>1
  <2>4. (\A j \in 1 .. l : s[j] = u[j]) => v = s
    BY <2>1, <2>3, SeqEqual
  <2>5. QED
    BY <2>1, <2>3, <2>4
<1>4. QED
  BY <1>2, <1>3 DEF Abstract!IsPrefix

\* The first blank of the text ends its first word, as in first_token_end.
LEMMA FirstWordIs ==
    ASSUME NEW c, NEW n \in Nat, NEW t, Len(t) = n, \A i \in 1 .. n : t[i] = c[i - 1]
    PROVE  FirstWord(t) = Smallest({i \in 0 .. n - 1 : c[i] = Blank} \cup {n})
<1>1. PICK T : T = {i \in 0 .. n - 1 : c[i] = Blank} \cup {n}
  OBVIOUS
<1>2. T \in SUBSET Nat /\ n \in T
  BY <1>1
<1>3. PICK m : m = Smallest(T)
  OBVIOUS
<1>4. m \in T /\ m \in Nat /\ \A i \in T : m <= i
  BY <1>2, <1>3, SmallestIs
<1>5. PICK B : B = Blanks(t)
  OBVIOUS
<1>6. B = {i \in 1 .. n : c[i - 1] = Blank}
  BY <1>5 DEF Blanks
<1>7. \A i \in B : i - 1 \in T /\ i - 1 < n
  BY <1>1, <1>6
<1>8. m = n \/ m + 1 \in B
  <2>1. m = n \/ (m \in 0 .. n - 1 /\ c[m] = Blank)
    BY <1>1, <1>4
  <2>2. ASSUME m \in 0 .. n - 1, c[m] = Blank PROVE m + 1 \in B
    <3>1. m + 1 \in 1 .. n /\ (m + 1) - 1 = m
      BY <2>2
    <3>2. QED
      BY <1>6, <2>2, <3>1
  <2>3. QED
    BY <2>1, <2>2
<1>9. CASE B = {}
  BY <1>1, <1>3, <1>5, <1>8, <1>9 DEF FirstWord
<1>10. CASE B # {}
  <2>1. B \in SUBSET Nat
    BY <1>6
  <2>2. m + 1 \in B /\ \A i \in B : m + 1 <= i
    <3>1. \A i \in B : m <= i - 1 /\ i \in Nat /\ i - 1 < n
      BY <1>4, <1>7, <2>1
    <3>2. m # n
      BY <1>4, <1>10, <3>1
    <3>3. QED
      BY <1>4, <1>8, <3>1, <3>2
  <2>3. \A k \in B : (\A j \in B : k <= j) => k = m + 1
    BY <1>4, <2>1, <2>2
  <2>4. (CHOOSE k \in B : \A j \in B : k <= j) = m + 1
    <3> DEFINE P(k) == \A j \in B : k <= j
    <3>1. P(m + 1) /\ \A k \in B : P(k) => k = m + 1
      BY <2>2, <2>3
    <3> HIDE DEF P
    <3>2. (CHOOSE k \in B : P(k)) = m + 1
      BY <2>2, <3>1
    <3>3. QED
      BY <3>2 DEF P
  <2>5. FirstWord(t) = (m + 1) - 1
    BY <1>5, <1>10, <2>4 DEF FirstWord
  <2>6. QED
    BY <1>1, <1>3, <1>4, <2>5
<1>11. QED
  BY <1>9, <1>10

\* The names that go on from what is before the cursor.
LEMMA NamesWithIs ==
    ASSUME NEW c, NEW n \in Nat, NEW t \in Seq(Stored), Len(t) = n,
           \A i \in 1 .. n : t[i] = c[i - 1], NEW k \in 0 .. n
    PROVE  NamesWith(t, k) = NamesAt(NumbersWith(c, k))
<1>1. PICK s : s = SubSeq(t, 1, k)
  OBVIOUS
<1>2. k \in Nat /\ \A i \in 1 .. k : t[i] \in Stored /\ t[i] = c[i - 1]
  OBVIOUS
<1>3. s \in Seq(Stored) /\ Len(s) = k /\ \A i \in 1 .. k : s[i] = c[i - 1]
  <2>1. /\ s \in Seq(Stored) /\ Len(s) = (IF 1 <= k THEN k - 1 + 1 ELSE 0)
        /\ \A j \in 1 .. k - 1 + 1 : s[j] = t[1 + j - 1]
    BY <1>1, <1>2, SubSeqProperties
  <2>2. QED
    BY <1>2, <2>1
<1>4. ASSUME NEW m \in DOMAIN AppNames
      PROVE  Abstract!IsPrefix(s, AppNames[m]) <=>
                 Len(AppNames[m]) >= k /\ \A j \in 0 .. k - 1 : AppNames[m][j + 1] = c[j]
  <2>1. PICK u : u = AppNames[m]
    OBVIOUS
  <2>2. u \in Seq(Stored) /\ Len(u) \in Nat
    <3>1. u \in Seq(AppChars) /\ AppChars \subseteq Stored
      BY <2>1, NamesAssumption DEF Stored
    <3>2. QED
      BY <3>1, SeqMonotonic
  <2>3. Abstract!IsPrefix(s, u) <=> Len(s) <= Len(u) /\ \A j \in 1 .. Len(s) : s[j] = u[j]
    BY <1>3, <2>2, PrefixIs
  <2>4. (\A j \in 1 .. k : s[j] = u[j]) <=> (\A j \in 0 .. k - 1 : u[j + 1] = c[j])
    <3>1. ASSUME \A j \in 1 .. k : s[j] = u[j], NEW j \in 0 .. k - 1 PROVE u[j + 1] = c[j]
      <4>1. j + 1 \in 1 .. k /\ (j + 1) - 1 = j
        BY <1>2
      <4>2. QED
        BY <1>3, <3>1, <4>1
    <3>2. ASSUME \A j \in 0 .. k - 1 : u[j + 1] = c[j], NEW j \in 1 .. k PROVE s[j] = u[j]
      <4>1. j - 1 \in 0 .. k - 1 /\ (j - 1) + 1 = j
        BY <1>2
      <4>2. QED
        BY <1>3, <3>2, <4>1
    <3>3. QED
      BY <3>1, <3>2
  <2>5. QED
    BY <1>2, <1>3, <2>1, <2>2, <2>3, <2>4
<1>5. NamesWith(t, k) = {u \in AllNames : Abstract!IsPrefix(s, u)}
  BY <1>1 DEF NamesWith
<1> DEFINE Q(m) == Len(AppNames[m]) >= k /\ \A j \in 0 .. k - 1 : AppNames[m][j + 1] = c[j]
<1>6. \A m \in DOMAIN AppNames : Abstract!IsPrefix(s, AppNames[m]) <=> Q(m)
  BY <1>4
<1> HIDE DEF Q
<1>7. {u \in AllNames : Abstract!IsPrefix(s, u)} = {AppNames[i] : i \in {m \in DOMAIN AppNames : Q(m)}}
  BY <1>6 DEF AllNames
<1>8. QED
  BY <1>5, <1>7 DEF Q, NamesAt, NumbersWith

\* The names N agree with a on the first l characters, and not all on more.
AgreeUpTo(N, a, l) ==
    /\ l \in 0 .. Len(a)
    /\ \A u \in N : Len(u) >= l /\ \A j \in 1 .. l : u[j] = a[j]
    /\ l = Len(a) \/ \E u \in N : Len(u) = l \/ (l < Len(u) /\ u[l + 1] # a[l + 1])

\* The longest common prefix of a set of names, one of which is a.
LEMMA LongestIs ==
    ASSUME NEW S, NEW N \in SUBSET Seq(S), NEW a \in N, NEW l, AgreeUpTo(N, a, l)
    PROVE  Abstract!LongestCommonPrefix(N) = SubSeq(a, 1, l)
<1> USE DEF AgreeUpTo
<1>1. PICK b : b = SubSeq(a, 1, l)
  OBVIOUS
<1>2. a \in Seq(S) /\ Len(a) \in Nat /\ l \in Nat /\ \A j \in 1 .. l : a[j] \in S
  OBVIOUS
<1>3. b \in Seq(S) /\ Len(b) = l /\ \A j \in 1 .. l : b[j] = a[j]
  <2>1. /\ b \in Seq(S) /\ Len(b) = (IF 1 <= l THEN l - 1 + 1 ELSE 0)
        /\ \A j \in 1 .. l - 1 + 1 : b[j] = a[1 + j - 1]
    BY <1>1, <1>2, SubSeqProperties
  <2>2. QED
    BY <1>2, <2>1
<1>4. PICK C : C = Abstract!CommonPrefixes(N)
  OBVIOUS
<1>5. \A p : p \in C <=> /\ \E u \in N : p \in Abstract!Prefixes(u)
                         /\ \A u \in N : Abstract!IsPrefix(p, u)
  <2>1. C = {p \in UNION {Abstract!Prefixes(u) : u \in N} : \A u \in N : Abstract!IsPrefix(p, u)}
    BY <1>4, Zenon DEF Abstract!CommonPrefixes
  <2>2. QED
    BY <2>1
<1>6. b \in C
  <2>1. b \in Abstract!Prefixes(a)
    BY <1>1 DEF Abstract!Prefixes
  <2>2. \A u \in N : Abstract!IsPrefix(b, u)
    BY <1>2, <1>3, PrefixIs
  <2>3. QED
    BY <1>5, <2>1, <2>2
<1>7. ASSUME NEW p \in C PROVE p \in Seq(S) /\ Len(p) \in Nat /\ Len(p) <= l /\ (Len(p) = l => p = b)
  <2>1. p \in Seq(S)
    <3>1. PICK u \in N : p \in Abstract!Prefixes(u)
      BY <1>5
    <3>2. PICK k \in 0 .. Len(u) : p = SubSeq(u, 1, k)
      BY <3>1 DEF Abstract!Prefixes
    <3>3. u \in Seq(S) /\ Len(u) \in Nat /\ k \in Nat /\ \A j \in 1 .. k : u[j] \in S
      OBVIOUS
    <3>4. QED
      BY <3>2, <3>3, SubSeqProperties
  <2>2. Len(p) \in Nat
    BY <2>1
  <2>3. \A u \in N : Len(p) <= Len(u) /\ \A j \in 1 .. Len(p) : p[j] = u[j]
    BY <1>5, <2>1, PrefixIs
  <2>4. Len(p) <= l
    <3>1. CASE l = Len(a)
      BY <2>3, <3>1
    <3>2. ASSUME NEW u \in N, Len(u) = l \/ (l < Len(u) /\ u[l + 1] # a[l + 1]), ~(Len(p) <= l)
          PROVE  FALSE
      <4>1. l + 1 \in 1 .. Len(p)
        BY <1>2, <2>2, <3>2
      <4>2. p[l + 1] = u[l + 1] /\ p[l + 1] = a[l + 1]
        BY <2>3, <4>1
      <4>3. Len(p) <= Len(u)
        BY <2>3
      <4>4. QED
        BY <1>2, <2>2, <3>2, <4>2, <4>3
    <3>3. QED
      BY <3>1, <3>2
  <2>5. Len(p) = l => p = b
    BY <1>3, <2>1, <2>3, SeqEqual
  <2>6. QED
    BY <2>1, <2>2, <2>4, <2>5
<1> DEFINE P(p) == \A q \in C : Len(q) <= Len(p)
<1>8. P(b)
  BY <1>3, <1>7
<1>9. \A p \in C : P(p) => p = b
  <2> SUFFICES ASSUME NEW p \in C, P(p) PROVE p = b
    OBVIOUS
  <2>1. Len(b) <= Len(p)
    BY <1>6
  <2>2. Len(p) \in Nat /\ Len(p) <= l
    BY <1>7
  <2>3. Len(p) = l
    BY <1>2, <1>3, <2>1, <2>2
  <2>4. QED
    BY <1>7, <2>3
<1>10. Abstract!LongestCommonPrefix(N) = CHOOSE p \in C : P(p)
  BY <1>4 DEF Abstract!LongestCommonPrefix
<1> HIDE DEF P
<1>11. (CHOOSE p \in C : P(p)) = b
  BY <1>6, <1>8, <1>9
<1>12. QED
  BY <1>1, <1>10, <1>11

\* Two names agree as far as common_prefix_len says, and not further.
LEMMA CommonPrefixIs ==
    ASSUME NEW a \in Seq(AppChars), NEW b \in Seq(AppChars)
    PROVE  LET l == common_prefix_len(a, b) IN
           /\ l \in 0 .. Len(a) /\ l <= Len(b)
           /\ \A j \in 1 .. l : b[j] = a[j]
           /\ l = Len(a) \/ l = Len(b) \/ (l < Len(b) /\ b[l + 1] # a[l + 1])
<1>1. PICK S : S = {i \in 0 .. Len(a) : i = Len(a) \/ i = Len(b)} \cup
                   {i \in 0 .. Len(a) - 1 : i < Len(b) /\ a[i + 1] # b[i + 1]}
  OBVIOUS
<1>2. Len(a) \in Nat /\ Len(b) \in Nat
  OBVIOUS
<1>3. S \in SUBSET Nat /\ Len(a) \in S
  BY <1>1, <1>2
<1>4. PICK l : l = Smallest(S)
  OBVIOUS
<1>5. l \in S /\ l \in Nat /\ \A i \in S : l <= i
  BY <1>3, <1>4, SmallestIs
<1>6. l <= Len(a)
  BY <1>3, <1>5
<1>7. l <= Len(b)
  <2>1. CASE Len(b) <= Len(a)
    <3>1. Len(b) \in S
      BY <1>1, <1>2, <2>1
    <3>2. QED
      BY <1>5, <3>1
  <2>2. CASE ~(Len(b) <= Len(a))
    BY <1>2, <1>5, <1>6, <2>2
  <2>3. QED
    BY <2>1, <2>2
<1>8. ASSUME NEW j \in 1 .. l PROVE b[j] = a[j]
  <2>1. j - 1 \in 0 .. Len(a) - 1 /\ j - 1 < Len(b) /\ (j - 1) + 1 = j /\ ~(l <= j - 1)
    BY <1>2, <1>5, <1>6, <1>7
  <2>2. j - 1 \notin S
    BY <1>5, <2>1
  <2>3. ~(a[(j - 1) + 1] # b[(j - 1) + 1])
    BY <1>1, <2>1, <2>2
  <2>4. QED
    BY <2>1, <2>3
<1>9. l = Len(a) \/ l = Len(b) \/ (l < Len(b) /\ b[l + 1] # a[l + 1])
  BY <1>1, <1>5
<1>10. common_prefix_len(a, b) = l
  BY <1>1, <1>4 DEF common_prefix_len
<1>11. l \in 0 .. Len(a)
  BY <1>2, <1>5, <1>6
<1>12. QED
  BY <1>7, <1>8, <1>9, <1>10, <1>11

\* When k members take the place of the first old of n.
LEMMA RestIndex ==
    ASSUME NEW n \in Nat, NEW k \in Nat, NEW old \in Nat, old <= n, NEW by \in Int, by = k - old
    PROVE  /\ k + (n - old) = n + by /\ n + by \in Nat
           /\ \A i \in 0 .. n + by - 1 :
                 /\ i \in Nat /\ i + 1 \in 1 .. n + by
                 /\ i < k => i \in 0 .. k - 1 /\ i + 1 <= k
                 /\ ~(i < k) => /\ i \in k .. n + by - 1 /\ ~(i + 1 <= k)
                                /\ i + 1 - k \in 1 .. n - old /\ i - by \in 0 .. n - 1
                                /\ old + (i + 1 - k) = (i - by) + 1
OBVIOUS

\* The members of v are those of t behind the first old, those of w are k of
\* word and then those of v; so they are of word and of t.
BehindOf(v, t, old, m) == \A j \in 1 .. m : v[j] = t[old + j]
JoinOf(w, word, v, k, m) ==
    \A j \in 1 .. m : /\ j <= k => w[j] = word[j]
                      /\ ~(j <= k) => w[j] = v[j - k]
ReplacedOf(w, word, t, k, by, m) ==
    \A i \in 0 .. m - 1 : /\ i < k => w[i + 1] = word[i + 1]
                          /\ ~(i < k) => w[i + 1] = t[(i - by) + 1]

LEMMA RestAt ==
    ASSUME NEW n \in Nat, NEW k \in Nat, NEW old \in Nat, old <= n, NEW by \in Int, by = k - old,
           NEW w, NEW word, NEW v, NEW t,
           JoinOf(w, word, v, k, n + by), BehindOf(v, t, old, n - old)
    PROVE  ReplacedOf(w, word, t, k, by, n + by)
<1> SUFFICES ASSUME NEW i \in 0 .. n + by - 1
             PROVE  /\ i < k => w[i + 1] = word[i + 1]
                    /\ ~(i < k) => w[i + 1] = t[(i - by) + 1]
  BY DEF ReplacedOf
<1>1. PICK j \in 1 .. n + by : /\ j = i + 1
                               /\ i < k => j <= k
                               /\ ~(i < k) => /\ ~(j <= k) /\ j - k \in 1 .. n - old
                                              /\ old + (j - k) = (i - by) + 1
  BY RestIndex
<1>2. /\ j <= k => w[j] = word[j]
      /\ ~(j <= k) => w[j] = v[j - k]
  BY <1>1, Zenon DEF JoinOf
<1>3. j - k \in 1 .. n - old => v[j - k] = t[old + (j - k)]
  BY Zenon DEF BehindOf
<1>4. QED
  BY <1>1, <1>2, <1>3, Zenon

LEMMA RestIs ==
    ASSUME NEW S, NEW t \in Seq(S), NEW old \in 0 .. Len(t)
    PROVE  /\ SubSeq(t, old + 1, Len(t)) \in Seq(S)
           /\ Len(SubSeq(t, old + 1, Len(t))) = Len(t) - old
           /\ BehindOf(SubSeq(t, old + 1, Len(t)), t, old, Len(t) - old)
<1>1. PICK n \in Nat : n = Len(t)
  OBVIOUS
<1>2. PICK m \in Int : m = old + 1
  BY <1>1
<1>3. \A i \in m .. n : t[i] \in S
  BY <1>1, <1>2
<1>4. PICK v : v = SubSeq(t, m, n)
  OBVIOUS
<1>5. /\ v \in Seq(S) /\ Len(v) = (IF m <= n THEN n - m + 1 ELSE 0)
      /\ \A i \in 1 .. n - m + 1 : v[i] = t[m + i - 1]
  BY <1>3, <1>4, SubSeqProperties
<1>6. /\ (IF m <= n THEN n - m + 1 ELSE 0) = n - old /\ n - m + 1 = n - old
      /\ \A i \in 1 .. n - old : m + i - 1 = old + i
  BY <1>1, <1>2
<1>7. BehindOf(v, t, old, n - old)
  BY <1>5, <1>6 DEF BehindOf
<1>8. QED
  BY <1>1, <1>2, <1>4, <1>5, <1>6, <1>7, Zenon

LEMMA JoinIs ==
    ASSUME NEW S, NEW word \in Seq(S), NEW v \in Seq(S)
    PROVE  /\ word \o v \in Seq(S) /\ Len(word \o v) = Len(word) + Len(v)
           /\ JoinOf(word \o v, word, v, Len(word), Len(word) + Len(v))
<1>1. PICK w : w = word \o v
  OBVIOUS
<1>2. /\ w \in Seq(S) /\ Len(w) = Len(word) + Len(v)
      /\ \A i \in 1 .. Len(word) + Len(v) : w[i] = IF i <= Len(word) THEN word[i] ELSE v[i - Len(word)]
  BY <1>1, ConcatProperties
<1>3. QED
  BY <1>1, <1>2, Zenon DEF JoinOf

\* What is at each place of a sequence whose first old members word replaced.
LEMMA RestJoined ==
    ASSUME NEW S, NEW word \in Seq(S), NEW t \in Seq(S), NEW old \in 0 .. Len(t)
    PROVE  \E w \in Seq(S) :
               /\ w = word \o SubSeq(t, old + 1, Len(t))
               /\ Len(w) = Len(t) + (Len(word) - old)
               /\ ReplacedOf(w, word, t, Len(word), Len(word) - old, Len(t) + (Len(word) - old))
<1>1. PICK v : v = SubSeq(t, old + 1, Len(t))
  OBVIOUS
<1>2. v \in Seq(S) /\ Len(v) = Len(t) - old /\ BehindOf(v, t, old, Len(t) - old)
  BY <1>1, RestIs, Zenon
<1>3. PICK w : w = word \o v
  OBVIOUS
<1>4. /\ w \in Seq(S) /\ Len(w) = Len(word) + Len(v)
      /\ JoinOf(w, word, v, Len(word), Len(word) + Len(v))
  BY <1>2, <1>3, JoinIs, Zenon
<1>5. PICK n \in Nat : n = Len(t)
  OBVIOUS
<1>6. PICK k \in Nat : k = Len(word)
  OBVIOUS
<1>7. old \in Nat /\ old <= n
  BY <1>5
<1>8. PICK by \in Int : by = k - old
  BY <1>7
<1>9. k + (n - old) = n + by
  BY <1>7, <1>8, RestIndex
<1>10. Len(w) = n + by /\ JoinOf(w, word, v, k, n + by) /\ BehindOf(v, t, old, n - old)
  BY <1>2, <1>4, <1>5, <1>6, <1>9, Zenon
<1>11. ReplacedOf(w, word, t, k, by, n + by)
  BY <1>7, <1>8, <1>10, RestAt
<1>12. QED
  BY <1>1, <1>3, <1>4, <1>5, <1>6, <1>8, <1>10, <1>11, Zenon

\* An array that holds a sequence from its beginning.
LEMMA TextEquals ==
    ASSUME NEW S, NEW w \in Seq(S), NEW d, \A i \in 0 .. Len(w) - 1 : d[i] = w[i + 1]
    PROVE  Text(d, Len(w)) = w
<1>1. PICK m \in Nat : m = Len(w)
  OBVIOUS
<1>2. \A i \in 0 .. m - 1 : d[i] \in S
  <2>1. \A i \in 0 .. m - 1 : i + 1 \in 1 .. Len(w)
    BY <1>1
  <2>2. QED
    BY <1>1, <2>1
<1>3. PICK x \in Seq(S) : x = Text(d, m) /\ Len(x) = m /\ \A i \in 1 .. m : x[i] = d[i - 1]
  BY <1>2, TextIs
<1>4. \A i \in 1 .. m : x[i] = w[i]
  <2>1. \A i \in 1 .. m : i - 1 \in 0 .. m - 1 /\ (i - 1) + 1 = i
    OBVIOUS
  <2>2. QED
    BY <1>1, <1>3, <2>1
<1>5. QED
  BY <1>1, <1>3, <1>4, SeqEqual

\* The array d is c, of n characters, after word took the place of the first old.
Replaced(c, n, old, word, d) ==
    /\ \A i \in 0 .. n - 1 : c[i] \in Stored
    /\ \A i \in 0 .. Len(word) - 1 : d[i] = word[i + 1]
    /\ \A i \in Len(word) .. n + (Len(word) - old) - 1 : d[i] = c[i - (Len(word) - old)]

LEMMA TextReplaced ==
    ASSUME NEW c, NEW n \in Nat, NEW old \in 0 .. n, NEW word \in Seq(Stored), NEW d,
           Replaced(c, n, old, word, d)
    PROVE  /\ Text(d, n + (Len(word) - old)) = word \o SubSeq(Text(c, n), old + 1, n)
           /\ Len(word \o SubSeq(Text(c, n), old + 1, n)) = n + (Len(word) - old)
<1>1. \A i \in 0 .. n - 1 : c[i] \in Stored
  BY DEF Replaced
<1>2. PICK t \in Seq(Stored) : t = Text(c, n) /\ Len(t) = n /\ \A i \in 1 .. n : t[i] = c[i - 1]
  BY <1>1, TextIs
<1>3. \A j \in 0 .. n - 1 : t[j + 1] = c[j]
  <2>1. \A j \in 0 .. n - 1 : j + 1 \in 1 .. n /\ (j + 1) - 1 = j
    OBVIOUS
  <2>2. QED
    BY <1>2, <2>1
<1>4. old \in 0 .. Len(t)
  BY <1>2, Zenon
<1>5. PICK w \in Seq(Stored) :
          /\ w = word \o SubSeq(t, old + 1, Len(t))
          /\ Len(w) = Len(t) + (Len(word) - old)
          /\ ReplacedOf(w, word, t, Len(word), Len(word) - old, Len(t) + (Len(word) - old))
  BY <1>4, RestJoined, Zenon
<1>6. PICK k \in Nat : k = Len(word)
  OBVIOUS
<1>7. PICK by \in Int : by = k - old
  OBVIOUS
<1>8. Len(w) = n + by /\ ReplacedOf(w, word, t, k, by, n + by)
  BY <1>2, <1>5, <1>6, <1>7, Zenon
<1>9. /\ \A i \in 0 .. k - 1 : d[i] = word[i + 1]
      /\ \A i \in k .. n + by - 1 : d[i] = c[i - by]
  BY <1>6, <1>7, Zenon DEF Replaced
<1>10. ASSUME NEW i \in 0 .. Len(w) - 1 PROVE d[i] = w[i + 1]
  <2>1. i \in 0 .. n + by - 1
    BY <1>8
  <2>2. /\ i < k => i \in 0 .. k - 1
        /\ ~(i < k) => i \in k .. n + by - 1 /\ i - by \in 0 .. n - 1
    <3>1. old \in Nat /\ old <= n
      OBVIOUS
    <3>2. QED
      BY <1>7, <2>1, <3>1, RestIndex
  <2>3. /\ i < k => w[i + 1] = word[i + 1]
        /\ ~(i < k) => w[i + 1] = t[(i - by) + 1]
    BY <1>8, <2>1 DEF ReplacedOf
  <2>4. CASE i < k
    BY <1>9, <2>2, <2>3, <2>4, Zenon
  <2>5. CASE ~(i < k)
    BY <1>3, <1>9, <2>2, <2>3, <2>5, Zenon
  <2>6. QED
    BY <2>4, <2>5
<1>11. Text(d, Len(w)) = w
  BY <1>10, TextEquals
<1>12. QED
  BY <1>2, <1>5, <1>11, Zenon

LEMMA EditorReplaces ==
    ASSUME LineInv, NEW old \in 0 .. len, NEW word \in Seq(AppChars), NEW t, t = Text(cmdline, len),
           replace_first_token(old, word)
    PROVE  \/ UNCHANGED <<cmdline, len, cursor>>
           \/ /\ Len(word \o SubSeq(t, old + 1, len)) < CMDLINE_MAX
              /\ Text(cmdline', len') = word \o SubSeq(t, old + 1, len)
              /\ cursor' = Len(word)
<1>1. /\ len \in Nat /\ \A i \in 0 .. len - 1 : cmdline[i] \in Stored
  BY LineFacts, LimitsNat
<1>2. PICK k, by : k = Len(word) /\ by = Len(word) - old
  OBVIOUS
<1>3. k \in Nat /\ old \in Nat /\ old <= len /\ by = k - old
  BY <1>1, <1>2
<1>4. word \in Seq(Stored)
  <2>1. AppChars \subseteq Stored
    BY DEF Stored
  <2>2. QED
    BY <2>1, SeqMonotonic
<1>5. CASE ~(len + by >= CMDLINE_MAX)
  <2>1. /\ cmdline' = [i \in Cells |-> IF i < k THEN word[i + 1]
                                       ELSE IF i = len + by THEN NUL
                                       ELSE IF i \in k .. len + by THEN cmdline[i - by]
                                       ELSE cmdline[i]]
        /\ len' = len + by /\ cursor' = k
    BY <1>2, <1>5 DEF replace_first_token
  <2>2. \A i \in 0 .. k - 1 : i \in Cells /\ i < k
    BY <1>1, <1>3, <1>5, LimitsNat DEF Cells
  <2>3. \A i \in k .. len + by - 1 : i \in Cells /\ ~(i < k) /\ i # len + by /\ i \in k .. len + by
    BY <1>1, <1>3, <1>5, LimitsNat DEF Cells
  <2>4. /\ \A i \in 0 .. k - 1 : cmdline'[i] = word[i + 1]
        /\ \A i \in k .. len + by - 1 : cmdline'[i] = cmdline[i - by]
    BY <2>1, <2>2, <2>3
  <2>5. PICK c, n, d : c = cmdline /\ n = len /\ d = cmdline'
    OBVIOUS
  <2>6. n \in Nat /\ old \in 0 .. n /\ Replaced(c, n, old, word, d)
    BY <1>1, <1>2, <2>4, <2>5 DEF Replaced
  <2>7. /\ Text(d, n + (Len(word) - old)) = word \o SubSeq(Text(c, n), old + 1, n)
        /\ Len(word \o SubSeq(Text(c, n), old + 1, n)) = n + (Len(word) - old)
    BY <1>4, <2>6, TextReplaced, Zenon
  <2>8. t = Text(c, n)
    BY <2>5
  <2>9. /\ Text(d, n + by) = word \o SubSeq(t, old + 1, n)
        /\ Len(word \o SubSeq(t, old + 1, n)) = n + by
    BY <1>2, <2>7, <2>8
  <2>10. Text(cmdline', len') = Text(d, n + by)
    BY <2>1, <2>5
  <2>11. len + by < CMDLINE_MAX
    BY <1>1, <1>3, <1>5, LimitsNat
  <2>12. QED
    BY <1>2, <2>1, <2>5, <2>9, <2>10, <2>11
<1>6. QED
  BY <1>2, <1>5 DEF replace_first_token

\* What is written over the first word is the longest prefix the matching
\* names have in common, M being their numbers.
LEMMA LongestOfMatches ==
    ASSUME NEW M \in SUBSET DOMAIN AppNames, NEW m \in M, NEW a, a = AppNames[m], NEW l,
           l = CommonLen(a, M)
    PROVE  l \in 0 .. Len(a) /\ Abstract!LongestCommonPrefix(NamesAt(M)) = SubSeq(a, 1, l)
<1>1. \A n \in M : AppNames[n] \in Seq(AppChars)
  BY NamesAssumption
<1>2. a \in Seq(AppChars) /\ Len(a) \in Nat
  BY <1>1
<1>3. PICK S : S = {Len(a)} \cup {common_prefix_len(a, AppNames[n]) : n \in M}
  OBVIOUS
<1>4. \A n \in M : common_prefix_len(a, AppNames[n]) \in Nat
  BY <1>1, <1>2, CommonPrefix
<1>5. S \in SUBSET Nat /\ Len(a) \in S
  BY <1>2, <1>3, <1>4
<1>6. l \in S /\ l \in Nat /\ \A i \in S : l <= i
  <2>1. l = Smallest(S)
    BY <1>3 DEF CommonLen
  <2>2. Smallest(S) \in S /\ \A i \in S : Smallest(S) <= i
    BY <1>5, SmallestIs
  <2>3. QED
    BY <1>5, <2>1, <2>2
<1>7. l \in 0 .. Len(a)
  BY <1>2, <1>5, <1>6
<1>8. PICK N : N = NamesAt(M)
  OBVIOUS
<1>9. N \in SUBSET Seq(AppChars) /\ a \in N
  BY <1>1, <1>8 DEF NamesAt
<1>10. ASSUME NEW u \in N PROVE Len(u) >= l /\ \A j \in 1 .. l : u[j] = a[j]
  <2>1. PICK n \in M : u = AppNames[n]
    BY <1>8 DEF NamesAt
  <2>2. PICK k : k = common_prefix_len(a, u)
    OBVIOUS
  <2>3. k \in S
    BY <1>3, <2>1, <2>2
  <2>4. k \in Nat /\ l <= k
    BY <1>5, <1>6, <2>3
  <2>5. u \in Seq(AppChars) /\ Len(u) \in Nat
    BY <1>1, <2>1
  <2>6. k <= Len(u) /\ \A j \in 1 .. k : u[j] = a[j]
    BY <1>2, <2>2, <2>5, CommonPrefixIs
  <2>7. \A j \in 1 .. l : j \in 1 .. k
    BY <1>6, <2>4
  <2>8. QED
    BY <1>6, <2>4, <2>5, <2>6, <2>7
<1>11. l = Len(a) \/ \E u \in N : Len(u) = l \/ (l < Len(u) /\ u[l + 1] # a[l + 1])
  <2>1. CASE l = Len(a)
    BY <2>1
  <2>2. CASE l # Len(a)
    <3>1. PICK n \in M : l = common_prefix_len(a, AppNames[n])
      BY <1>3, <1>6, <2>2
    <3>2. PICK u : u = AppNames[n]
      OBVIOUS
    <3>3. u \in N /\ u \in Seq(AppChars) /\ l = common_prefix_len(a, u)
      BY <1>1, <1>8, <3>1, <3>2 DEF NamesAt
    <3>4. l = Len(a) \/ l = Len(u) \/ (l < Len(u) /\ u[l + 1] # a[l + 1])
      <4>1. LET k == common_prefix_len(a, u) IN
            k = Len(a) \/ k = Len(u) \/ (k < Len(u) /\ u[k + 1] # a[k + 1])
        BY <1>2, <3>3, CommonPrefixIs
      <4>2. QED
        BY <3>3, <4>1
    <3>5. QED
      BY <2>2, <3>3, <3>4
  <2>3. QED
    BY <2>1, <2>2
<1>12. Abstract!LongestCommonPrefix(N) = SubSeq(a, 1, l)
  <2>1. \A u \in N : Len(u) >= l /\ \A j \in 1 .. l : u[j] = a[j]
    BY <1>10
  <2>2. AgreeUpTo(N, a, l)
    BY <1>7, <1>11, <2>1 DEF AgreeUpTo
  <2>3. QED
    BY <1>9, <2>2, LongestIs
<1>13. QED
  BY <1>7, <1>8, <1>12

LEMMA CountIsCardinality ==
    ASSUME NEW S
    PROVE  Abstract!Cardinality(S) = Cardinality(S)
  BY Zenon DEF Abstract!Cardinality, Cardinality

\* A completion: the first word, the matching names and what they have in
\* common are those of the specification.
LEMMA EditorComplete ==
    ASSUME LineInv, complete_app_name
    PROVE  Abstract!Complete \/ UNCHANGED Abstract!vars
<1>1. len \in Nat /\ cursor \in 0 .. len
  BY LineFacts, LimitsNat
<1>2. PICK c, n, k, t : c = cmdline /\ n = len /\ k = cursor /\ t = Text(cmdline, len)
  OBVIOUS
<1>3. t \in Seq(Stored) /\ Len(t) = n /\ \A i \in 1 .. n : t[i] = c[i - 1]
  BY <1>2, TextFacts
<1>4. PICK old : old = first_token_end
  OBVIOUS
<1>5. old = FirstWord(t)
  <2>1. FirstWord(t) = Smallest({i \in 0 .. n - 1 : c[i] = Blank} \cup {n})
    BY <1>1, <1>2, <1>3, FirstWordIs
  <2>2. old = Smallest({i \in 0 .. n - 1 : c[i] = Blank} \cup {n})
    BY <1>2, <1>4 DEF first_token_end
  <2>3. QED
    BY <2>1, <2>2
<1>6. old \in 0 .. len
  <2>1. PICK T : T = {i \in 0 .. n - 1 : c[i] = Blank} \cup {n}
    OBVIOUS
  <2>2. T \in SUBSET Nat /\ n \in T /\ \A i \in T : i \in 0 .. n
    BY <1>1, <1>2, <2>1
  <2>3. Smallest(T) \in T
    BY <2>2, SmallestIs
  <2>4. old = Smallest(T)
    BY <1>2, <1>4, <2>1 DEF first_token_end
  <2>5. QED
    BY <1>2, <2>2, <2>3, <2>4
<1>7. PICK M : M = Matches
  OBVIOUS
<1>8. /\ M # {} /\ M \in SUBSET DOMAIN AppNames
      /\ NamesWith(t, k) = NamesAt(M)
  <2>1. M # {}
    BY <1>7 DEF complete_app_name
  <2>2. M = NumbersWith(c, k) /\ M \in SUBSET DOMAIN AppNames
    BY <1>2, <1>7 DEF Matches, NumbersWith
  <2>3. k \in 0 .. n /\ n \in Nat
    BY <1>1, <1>2
  <2>4. NamesWith(t, k) = NamesAt(NumbersWith(c, k))
    BY <1>3, <2>3, NamesWithIs
  <2>5. NamesWith(t, k) = NamesAt(M)
    BY <2>2, <2>4
  <2>6. QED
    BY <2>1, <2>2, <2>5
<1>9. PICK m, a : m = Smallest(M) /\ a = AppNames[Smallest(M)]
  OBVIOUS
<1>10. DOMAIN AppNames = 1 .. Len(AppNames) /\ Len(AppNames) \in Nat
  BY NamesAssumption
<1>11. m \in M /\ a = AppNames[m] /\ a \in Seq(AppChars)
  <2>1. M \in SUBSET Nat
    BY <1>8, <1>10
  <2>2. Smallest(M) \in M
    BY <1>8, <2>1, SmallestIs
  <2>3. QED
    BY <1>8, <1>9, <2>2, NamesAssumption
<1>12. PICK l : l = CommonLen(a, M)
  OBVIOUS
<1>13. l \in 0 .. Len(a) /\ Abstract!LongestCommonPrefix(NamesAt(M)) = SubSeq(a, 1, l)
  BY <1>8, <1>11, <1>12, LongestOfMatches
<1>14. PICK N, best : N = NamesWith(t, k) /\ best = Abstract!LongestCommonPrefix(N)
  OBVIOUS
<1>15. N # {} /\ best = SubSeq(a, 1, l)
  BY <1>8, <1>13, <1>14 DEF NamesAt
<1>16. /\ cursor \in 1 .. old
       /\ \/ Cardinality(M) = 1 /\ replace_first_token(old, a)
          \/ l > old /\ replace_first_token(old, SubSeq(a, 1, l))
       /\ UNCHANGED <<draft, history_cursor, lines>>
  <2>1. M = Matches /\ a = AppNames[Smallest(Matches)] /\ old = first_token_end
    BY <1>4, <1>7, <1>9
  <2>2. l = Smallest({Len(AppNames[Smallest(Matches)])} \cup
                     {common_prefix_len(AppNames[Smallest(Matches)], AppNames[i]) : i \in Matches})
    BY <1>12, <2>1 DEF CommonLen
  <2>3. QED
    BY <2>1, <2>2 DEF complete_app_name, replace_first_token
<1>17. Cardinality(M) = 1 => Cardinality(N) = 1 /\ best = a
  <2> SUFFICES ASSUME Cardinality(M) = 1 PROVE Cardinality(N) = 1 /\ best = a
    OBVIOUS
  <2>1. IsFiniteSet(M)
    <3>1. IsFiniteSet(1 .. Len(AppNames))
      BY <1>10, FS_Interval
    <3>2. QED
      BY <1>8, <1>10, <3>1, FS_Subset
  <2>2. PICK x : M = {x}
    BY <2>1, FS_Singleton
  <2>3. M = {m}
    BY <1>11, <2>2
  <2>4. N = {a}
    BY <1>8, <1>11, <1>14, <2>3 DEF NamesAt
  <2>5. Cardinality(N) = 1
    BY <2>4, FS_Singleton
  <2>6. Len(a) \in Nat
    BY <1>11
  <2>7. AgreeUpTo(N, a, Len(a))
    BY <2>4, <2>6 DEF AgreeUpTo
  <2>8. N \in SUBSET Seq(AppChars) /\ a \in N
    BY <1>11, <2>4
  <2>9. Abstract!LongestCommonPrefix(N) = SubSeq(a, 1, Len(a))
    BY <2>7, <2>8, LongestIs
  <2>10. SubSeq(a, 1, Len(a)) = a
    BY <1>11, SubSeqFull
  <2>11. QED
    BY <1>14, <2>5, <2>9, <2>10
<1>18. best \in Seq(AppChars) /\ Len(best) = l
  <2>1. Len(a) \in Nat /\ l \in Nat /\ \A i \in 1 .. l : a[i] \in AppChars
    BY <1>11, <1>13
  <2>2. SubSeq(a, 1, l) \in Seq(AppChars) /\ Len(SubSeq(a, 1, l)) = (IF 1 <= l THEN l - 1 + 1 ELSE 0)
    BY <2>1, SubSeqProperties
  <2>3. QED
    BY <1>15, <2>1, <2>2
<1>19. replace_first_token(old, best) /\ (Cardinality(N) = 1 \/ Len(best) > old)
  BY <1>15, <1>16, <1>17, <1>18
<1>20. \/ UNCHANGED <<cmdline, len, cursor>>
       \/ /\ Len(best \o SubSeq(t, old + 1, len)) < CMDLINE_MAX
          /\ Text(cmdline', len') = best \o SubSeq(t, old + 1, len)
          /\ cursor' = Len(best)
  BY <1>2, <1>6, <1>18, <1>19, EditorReplaces
<1>21. CASE UNCHANGED <<cmdline, len, cursor>>
  BY <1>16, <1>21 DEF Abstract!vars
<1>22. CASE /\ Len(best \o SubSeq(t, old + 1, len)) < CMDLINE_MAX
            /\ Text(cmdline', len') = best \o SubSeq(t, old + 1, len)
            /\ cursor' = Len(best)
  <2>1. PICK done : done = best \o SubSeq(t, old + 1, Len(t))
    OBVIOUS
  <2>2. Len(done) < CMDLINE_MAX /\ Text(cmdline', len') = done /\ cursor' = Len(best)
    BY <1>2, <1>3, <1>22, <2>1
  <2>3. N = {u \in {AppNames[i] : i \in DOMAIN AppNames} : Abstract!IsPrefix(SubSeq(t, 1, k), u)}
    BY <1>14 DEF NamesWith, AllNames
  <2>4. old = IF {i \in 1 .. Len(t) : t[i] = Blank} = {} THEN Len(t)
              ELSE (CHOOSE i \in {i \in 1 .. Len(t) : t[i] = Blank} :
                        \A j \in {j \in 1 .. Len(t) : t[j] = Blank} : i <= j) - 1
    BY <1>5 DEF FirstWord, Blanks
  <2> DEFINE text == Text(cmdline, len)
             blanks == {i \in 1 .. Len(text) : text[i] = Blank}
             word == IF blanks = {} THEN Len(text)
                     ELSE (CHOOSE i \in blanks : \A j \in blanks : i <= j) - 1
             matches == {u \in {AppNames[i] : i \in DOMAIN AppNames} :
                            Abstract!IsPrefix(SubSeq(text, 1, cursor), u)}
  <2>5. matches = N
    BY <1>2, <2>3
  <2>6. word = old
    BY <1>2, <2>4
  <2> HIDE DEF matches, word
  <2>7. /\ cursor \in 1 .. word
        /\ matches # {}
        /\ Abstract!Cardinality(matches) = 1 \/ Len(Abstract!LongestCommonPrefix(matches)) > word
        /\ Len(Abstract!LongestCommonPrefix(matches) \o SubSeq(text, word + 1, Len(text))) < CMDLINE_MAX
        /\ Text(cmdline', len') =
              Abstract!LongestCommonPrefix(matches) \o SubSeq(text, word + 1, Len(text))
        /\ cursor' = Len(Abstract!LongestCommonPrefix(matches))
        /\ UNCHANGED <<lines, history_cursor, draft>>
    BY <1>2, <1>14, <1>15, <1>16, <1>19, <2>1, <2>2, <2>5, <2>6, CountIsCardinality
  <2>8. Abstract!Complete
    BY <2>7 DEF Abstract!Complete, matches, word
  <2>9. QED
    BY <2>8
<1>23. QED
  BY <1>20, <1>21, <1>22

LEMMA EditorStep ==
    ASSUME LineInv, [LineNext]_lineVars
    PROVE  [Abstract!Next]_(Abstract!vars)
<1>1. ASSUME LineNext PROVE Abstract!Next \/ UNCHANGED Abstract!vars
  <2>1. CASE Enter
    BY <2>1, EditorEnter DEF Abstract!Next
  <2>2. CASE TooLong
    BY <2>2, EditorTooLong DEF Abstract!Next
  <2>3. CASE Left \/ Right
    BY <2>3, EditorMove DEF Abstract!Next
  <2>4. CASE Delete \/ Backspace
    BY <2>4, EditorErase DEF Abstract!Next
  <2>5. CASE Up \/ Down
    BY <2>5, EditorBrowse DEF Abstract!Next
  <2>6. CASE \E ch \in Chars : TypeAtEnd(ch) \/ TypeInside(ch)
    <3>1. PICK ch \in Chars : TypeAtEnd(ch) \/ TypeInside(ch)
      BY <2>6
    <3>2. Abstract!Type(ch)
      BY <3>1, EditorType
    <3>3. QED
      BY <3>2 DEF Abstract!Next
  <2>7. CASE complete_app_name
    BY <2>7, EditorComplete DEF Abstract!Next
  <2>8. QED
    BY <1>1, <2>1, <2>2, <2>3, <2>4, <2>5, <2>6, <2>7 DEF LineNext
<1>2. ASSUME UNCHANGED lineVars PROVE UNCHANGED Abstract!vars
  BY <1>2 DEF lineVars, Abstract!vars
<1>3. QED
  BY <1>1, <1>2

\* The line editor, on an array that is never cleared and terminated only here
\* and there, is an editor of a text: insert, erase, browse the history with a
\* draft that survives it, and complete the first word to what all matching
\* names have in common (main, history_push_line, complete_app_name).
THEOREM EditorImplemented == LineSpec => ImplementsEditor
<1>1. LineInit => LineInv
  BY LineInitInv
<1>2. LineInv /\ [LineNext]_lineVars => LineInv'
  BY LineStepInv
<1>3. LineInit => Abstract!Init
  BY EditorInit
<1>4. LineInv /\ [LineNext]_lineVars => [Abstract!Next]_(Abstract!vars)
  BY EditorStep
<1>5. QED
  BY <1>1, <1>2, <1>3, <1>4, PTL DEF LineSpec, ImplementsEditor, Abstract!Spec

-----------------------------------------------------------------------------
(* Working directories: user_path_resolve for any arguments and sizes.  The *)
(* paths are taken apart by functions that recur over a sequence: first    *)
(* that such a function is defined, then what each computes, by induction  *)
(* over the sequence.                                                      *)

\* f takes step after step from base.
Unrolls(f, N, base, step) ==
    f[0] = base /\ \A k \in 1 .. N : f[k] = step[k][f[k - 1]]

\* What is defined from its last value is defined.
LEMMA Recursion ==
    ASSUME NEW S, NEW N \in Nat, NEW base \in S, NEW step \in [1 .. N -> [S -> S]]
    PROVE  \E f \in [0 .. N -> S] : Unrolls(f, N, base, step)
<1> DEFINE P(n) == \E f \in [0 .. n -> S] : f[0] = base /\ \A k \in 1 .. n : f[k] = step[k][f[k-1]]
           T == {n \in 0 .. N : ~P(n)}
<1>1. P(0)
    <2> DEFINE f == [k \in 0 .. 0 |-> base]
    <2>1. f \in [0 .. 0 -> S] /\ f[0] = base /\ \A k \in 1 .. 0 : f[k] = step[k][f[k-1]]
        OBVIOUS
    <2> HIDE DEF f
    <2> QED BY <2>1
<1>2. ASSUME NEW n \in 1 .. N, P(n - 1) PROVE P(n)
    <2>1. PICK f \in [0 .. n - 1 -> S] : f[0] = base /\ \A k \in 1 .. n - 1 : f[k] = step[k][f[k-1]]
        BY <1>2
    <2> DEFINE g == [k \in 0 .. n |-> IF k = n THEN step[n][f[n - 1]] ELSE f[k]]
    <2>2. /\ n - 1 \in 0 .. n - 1 /\ f[n - 1] \in S /\ step[n] \in [S -> S]
          /\ n \in 0 .. n /\ 0 # n /\ 0 \in 0 .. n /\ n \in Nat
        OBVIOUS
    <2>3. ASSUME NEW k \in 0 .. n, k # n PROVE g[k] = f[k] /\ k \in 0 .. n - 1
        BY <2>2, <2>3
    <2>4. g[n] = step[n][f[n - 1]]
        BY <2>2
    <2>5. g \in [0 .. n -> S]
        BY <2>2, <2>3, <2>4
    <2> HIDE DEF g
    <2>6. g[0] = base
        BY <2>1, <2>2, <2>3
    <2>7. ASSUME NEW k \in 1 .. n PROVE g[k] = step[k][g[k-1]]
        <3>1. k \in 0 .. n /\ k - 1 \in 0 .. n /\ k - 1 # n
            BY <2>2
        <3>2. g[k - 1] = f[k - 1]
            BY <2>3, <3>1
        <3>3. CASE k = n
            BY <2>4, <3>2, <3>3
        <3>4. CASE k # n
            <4>1. k \in 1 .. n - 1 /\ g[k] = f[k]
                BY <2>2, <2>3, <3>1, <3>4
            <4> QED BY <2>1, <3>2, <4>1
        <3> QED BY <3>3, <3>4
    <2> QED BY <2>5, <2>6, <2>7
<1> HIDE DEF P
<1>3. CASE T = {}
    <2>1. N \in 0 .. N
        OBVIOUS
    <2>2. P(N)
        BY <1>3, <2>1
    <2> QED BY <2>2 DEF P, Unrolls
<1>4. CASE T # {}
    <2>1. PICK n \in T : \A m \in T : n <= m
        <3>1. T \in SUBSET Nat
            OBVIOUS
        <3> HIDE DEF T
        <3> QED BY <1>4, <3>1, HasLeast
    <2>2. n \in 1 .. N /\ n - 1 \in 0 .. N /\ n - 1 \notin T
        BY <1>1, <2>1
    <2> QED BY <1>2, <2>1, <2>2
<1> QED BY <1>3, <1>4


-----------------------------------------------------------------------------
(* Sequences that grow at their end.                                       *)

LEMMA AppendFacts ==
    ASSUME NEW C, NEW s \in Seq(C), NEW c \in C
    PROVE  /\ Append(s, c) \in Seq(C) /\ Append(s, c) # <<>>
           /\ Len(Append(s, c)) = Len(s) + 1
           /\ \A k \in 1 .. Len(s) : Append(s, c)[k] = s[k]
           /\ Append(s, c)[Len(s) + 1] = c
           /\ Front(Append(s, c)) = s /\ Last(Append(s, c)) = c
<1>1. /\ Append(s, c) \in Seq(C) /\ Append(s, c) # <<>>
      /\ Len(Append(s, c)) = Len(s) + 1 /\ Len(s) \in Nat
      /\ \A k \in 1 .. Len(s) : Append(s, c)[k] = s[k]
      /\ Append(s, c)[Len(s) + 1] = c
    BY AppendProperties
<1>2. Last(Append(s, c)) = c
    BY <1>1 DEF Last
<1>3. Front(Append(s, c)) = s
    <2> DEFINE t == SubSeq(Append(s, c), 1, Len(s))
    <2>1. /\ t \in Seq(C) /\ Len(t) = Len(s) /\ \A k \in 1 .. Len(t) : t[k] = Append(s, c)[k]
        BY <1>1, SubSeqProperties
    <2>2. t = s
        <3> HIDE DEF t
        <3> QED BY <1>1, <2>1, SeqEqual
    <2>3. Len(Append(s, c)) - 1 = Len(s)
        BY <1>1
    <2> QED BY <2>2, <2>3 DEF Front
<1> QED BY <1>1, <1>2, <1>3

LEMMA FrontLast ==
    ASSUME NEW C, NEW s \in Seq(C), s # <<>>
    PROVE  /\ Front(s) \in Seq(C) /\ Last(s) \in C /\ s = Append(Front(s), Last(s))
           /\ Len(s) \in Nat \ {0} /\ Len(Front(s)) = Len(s) - 1
<1>1. Len(s) \in Nat /\ Len(s) # 0
    BY EmptySeq, LenProperties
<1>2. PICK n \in Nat : n = Len(s) - 1 /\ n + 1 = Len(s)
    BY <1>1
<1>3. /\ Front(s) \in Seq(C) /\ Len(Front(s)) = n
      /\ \A k \in 1 .. n : Front(s)[k] = s[k]
    BY <1>1, <1>2 DEF Front
<1>4. Last(s) \in C /\ Last(s) = s[n + 1]
    BY <1>1, <1>2, ElementOfSeq DEF Last
<1>5. s = Append(Front(s), Last(s))
    BY <1>2, <1>3, <1>4, AppendFacts, SeqEqual
<1> QED BY <1>1, <1>2, <1>3, <1>4, <1>5

\* What holds of the empty sequence, and of a longer one if of a shorter, holds.
LEMMA SeqInduction ==
    ASSUME NEW C, NEW T, <<>> \in T,
           \A s \in Seq(C) : \A c \in C : s \in T => Append(s, c) \in T
    PROVE  Seq(C) \subseteq T
<1> DEFINE S == {k \in Nat : \E s \in Seq(C) : Len(s) = k /\ s \notin T}
<1>1. CASE S = {}
    BY <1>1, LenProperties
<1>2. CASE S # {}
    <2>1. PICK k \in S : \A j \in S : k <= j
        <3>1. S \in SUBSET Nat
            OBVIOUS
        <3> HIDE DEF S
        <3> QED BY <1>2, <3>1, HasLeast
    <2>2. PICK s \in Seq(C) : Len(s) = k /\ s \notin T
        BY <2>1
    <2>3. s # <<>>
        BY <2>2
    <2>4. /\ Front(s) \in Seq(C) /\ Last(s) \in C /\ s = Append(Front(s), Last(s))
          /\ k \in Nat \ {0} /\ Len(Front(s)) = k - 1
        BY <2>2, <2>3, FrontLast
    <2>5. k - 1 \in Nat /\ k - 1 \notin S
        BY <2>1, <2>4
    <2>6. Front(s) \in T
        BY <2>4, <2>5
    <2> QED BY <2>2, <2>4, <2>6
<1> QED BY <1>1, <1>2

\* f is computed character by character.
Computes(f, C, base, step) ==
    f[<<>>] = base /\ \A s \in Seq(C) : \A c \in C : f[Append(s, c)] = step[s][c][f[s]]

\* h computes it along s.
Along(h, s, base, step) ==
    /\ h[0] = base
    /\ \A k \in 1 .. Len(s) : h[k] = step[SubSeq(s, 1, k - 1)][s[k]][h[k - 1]]

LEMMA AlongExists ==
    ASSUME NEW C, NEW S, NEW base \in S, NEW step \in [Seq(C) -> [C -> [S -> S]]], NEW s \in Seq(C)
    PROVE  \E h \in [0 .. Len(s) -> S] : Along(h, s, base, step)
<1> DEFINE N == Len(s)
           st == [k \in 1 .. N |-> step[SubSeq(s, 1, k - 1)][s[k]]]
<1>1. N \in Nat
    BY LenProperties
<1>2. st \in [1 .. N -> [S -> S]]
    <2> SUFFICES ASSUME NEW k \in 1 .. N PROVE step[SubSeq(s, 1, k - 1)][s[k]] \in [S -> S]
        OBVIOUS
    <2>1. s[k] \in C
        BY ElementOfSeq
    <2>2. SubSeq(s, 1, k - 1) \in Seq(C)
        <3>1. k - 1 <= Len(s) /\ k - 1 \in Int /\ 1 \in Int
            BY <1>1
        <3> QED BY <1>1, <3>1
    <2> QED BY <2>1, <2>2
<1>3. PICK h \in [0 .. N -> S] : Unrolls(h, N, base, st)
    <2> HIDE DEF N, st
    <2> QED BY <1>1, <1>2, Recursion
<1> QED BY <1>3 DEF Unrolls, Along

LEMMA AlongSame ==
    ASSUME NEW C, NEW s \in Seq(C), NEW c \in C, NEW base, NEW step, NEW g, NEW h,
           Along(h, s, base, step), Along(g, Append(s, c), base, step)
    PROVE  g[Len(s) + 1] = step[s][c][h[Len(s)]]
<1> DEFINE N == Len(s)
           S == {k \in 0 .. N : g[k] # h[k]}
<1>1. /\ N \in Nat /\ Len(Append(s, c)) = N + 1
      /\ \A k \in 1 .. N : Append(s, c)[k] = s[k]
      /\ Append(s, c)[N + 1] = c
    BY AppendFacts, LenProperties
<1>2. ASSUME NEW k \in 1 .. N + 1 PROVE SubSeq(Append(s, c), 1, k - 1) = SubSeq(s, 1, k - 1)
    <2>1. k - 1 \in 0 .. N
        BY <1>1
    <2>2. /\ SubSeq(Append(s, c), 1, k - 1) \in Seq(C) /\ Len(SubSeq(Append(s, c), 1, k - 1)) = k - 1
          /\ \A j \in 1 .. k - 1 : SubSeq(Append(s, c), 1, k - 1)[j] = Append(s, c)[j]
        BY <1>1, <2>1, AppendFacts
    <2>3. /\ SubSeq(s, 1, k - 1) \in Seq(C) /\ Len(SubSeq(s, 1, k - 1)) = k - 1
          /\ \A j \in 1 .. k - 1 : SubSeq(s, 1, k - 1)[j] = s[j]
        BY <1>1, <2>1
    <2>4. \A j \in 1 .. k - 1 : Append(s, c)[j] = s[j]
        BY <1>1, <2>1
    <2> QED BY <2>2, <2>3, <2>4, SeqEqual
<1>3. SubSeq(s, 1, N) = s
    BY <1>1
<1>4. CASE S # {}
    <2>1. PICK k \in S : \A j \in S : k <= j
        <3>1. S \in SUBSET Nat
            OBVIOUS
        <3> HIDE DEF S
        <3> QED BY <1>4, <3>1, HasLeast
    <2>2. k \in 1 .. N /\ k \in 1 .. N + 1 /\ k - 1 \in 0 .. N /\ k - 1 \notin S
        BY <1>1, <2>1 DEF Along
    <2>3. g[k - 1] = h[k - 1]
        BY <2>2
    <2>4. h[k] = step[SubSeq(s, 1, k - 1)][s[k]][h[k - 1]]
        BY <2>2 DEF Along
    <2>5. g[k] = step[SubSeq(Append(s, c), 1, k - 1)][Append(s, c)[k]][g[k - 1]]
        BY <1>1, <2>2 DEF Along
    <2>6. SubSeq(Append(s, c), 1, k - 1) = SubSeq(s, 1, k - 1) /\ Append(s, c)[k] = s[k]
        BY <1>1, <1>2, <2>2
    <2>7. g[k] = h[k]
        BY <2>3, <2>4, <2>5, <2>6
    <2> QED BY <2>1, <2>7
<1>5. CASE S = {}
    <2>1. g[N] = h[N] /\ N + 1 \in 1 .. N + 1 /\ (N + 1) - 1 = N
        BY <1>1, <1>5
    <2>2. g[N + 1] = step[SubSeq(Append(s, c), 1, (N + 1) - 1)][Append(s, c)[N + 1]][g[(N + 1) - 1]]
        BY <1>1, <2>1 DEF Along
    <2>3. SubSeq(Append(s, c), 1, (N + 1) - 1) = s
        BY <1>2, <1>3, <2>1
    <2> QED BY <1>1, <2>1, <2>2, <2>3
<1> QED BY <1>4, <1>5

LEMMA SeqRecursion ==
    ASSUME NEW C, NEW S, NEW base \in S, NEW step \in [Seq(C) -> [C -> [S -> S]]]
    PROVE  \E f \in [Seq(C) -> S] : Computes(f, C, base, step)
<1> DEFINE H(s) == CHOOSE h \in [0 .. Len(s) -> S] : Along(h, s, base, step)
           f == [s \in Seq(C) |-> H(s)[Len(s)]]
<1>1. ASSUME NEW s \in Seq(C)
      PROVE  H(s) \in [0 .. Len(s) -> S] /\ Along(H(s), s, base, step)
    BY AlongExists
<1> HIDE DEF H
<1>2. f \in [Seq(C) -> S]
    <2> SUFFICES ASSUME NEW s \in Seq(C) PROVE H(s)[Len(s)] \in S
        OBVIOUS
    <2>1. Len(s) \in 0 .. Len(s)
        BY LenProperties
    <2> QED BY <1>1, <2>1
<1>3. f[<<>>] = base
    <2>1. <<>> \in Seq(C) /\ Len(<<>>) = 0
        OBVIOUS
    <2>2. H(<<>>)[0] = base
        BY <1>1, <2>1 DEF Along
    <2> QED BY <2>1, <2>2
<1>4. ASSUME NEW s \in Seq(C), NEW c \in C PROVE f[Append(s, c)] = step[s][c][f[s]]
    <2>1. Append(s, c) \in Seq(C) /\ Len(Append(s, c)) = Len(s) + 1
        BY AppendFacts
    <2>2. f[Append(s, c)] = H(Append(s, c))[Len(s) + 1] /\ f[s] = H(s)[Len(s)]
        BY <2>1
    <2>3. H(Append(s, c))[Len(s) + 1] = step[s][c][H(s)[Len(s)]]
        <3>1. PICK g : g = H(Append(s, c))
            OBVIOUS
        <3>2. PICK h : h = H(s)
            OBVIOUS
        <3>3. Along(g, Append(s, c), base, step) /\ Along(h, s, base, step)
            BY <1>1, <2>1, <3>1, <3>2
        <3>4. g[Len(s) + 1] = step[s][c][h[Len(s)]]
            BY <3>3, AlongSame
        <3> QED BY <3>1, <3>2, <3>4
    <2> QED BY <2>2, <2>3
<1> HIDE DEF f
<1> QED BY <1>2, <1>3, <1>4 DEF Computes


-----------------------------------------------------------------------------
(* The functions on paths, a character or a name at a time.                *)

NameStep(names, s, c) ==
    CASE c = "/" -> names
      [] c # "/" /\ (s = <<>> \/ Last(s) = "/") -> Append(names, <<c>>)
      [] OTHER -> [names EXCEPT ![Len(names)] = Append(@, c)]

LEMMA NameStepType ==
    ASSUME NEW names \in Seq(CStr), NEW s \in CStr, NEW c \in Char
    PROVE  NameStep(names, s, c) \in Seq(CStr)
<1>1. <<c>> \in CStr
    BY DEF CStr
<1>2. Append(names, <<c>>) \in Seq(CStr)
    BY <1>1
<1>3. [names EXCEPT ![Len(names)] = Append(@, c)] \in Seq(CStr)
    <2>1. CASE names = <<>>
        <3>1. [names EXCEPT ![Len(names)] = Append(@, c)] = names
            BY <2>1
        <3> QED BY <3>1
    <2>2. CASE names # <<>>
        <3>1. Len(names) \in 1 .. Len(names)
            BY <2>2, EmptySeq, LenProperties
        <3>2. Append(names[Len(names)], c) \in CStr
            BY <3>1, ElementOfSeq DEF CStr
        <3> QED BY <3>1, <3>2, ExceptSeq
    <2> QED BY <2>1, <2>2
<1> QED BY <1>2, <1>3 DEF NameStep

LEMMA NamesIs ==
    /\ Names \in [CStr -> Seq(CStr)]
    /\ Names[<<>>] = <<>>
    /\ \A s \in CStr : \A c \in Char : Names[Append(s, c)] = NameStep(Names[s], s, c)
<1> DEFINE begins(s) == Len(s) = 1 \/ s[Len(s) - 1] = "/"
           Body(names, s) == CASE Last(s) = "/" -> names
                               [] Last(s) # "/" /\ begins(s) -> Append(names, <<Last(s)>>)
                               [] OTHER -> [names EXCEPT ![Len(names)] = Append(@, Last(s))]
           Eq(f) == f = [s \in CStr |-> IF s = <<>> THEN <<>> ELSE Body(f[Front(s)], s)]
           step == [s \in CStr |-> [c \in Char |-> [x \in Seq(CStr) |-> NameStep(x, s, c)]]]
<1>1. ASSUME NEW s \in CStr, NEW c \in Char
      PROVE  \A x : Body(x, Append(s, c)) = NameStep(x, s, c)
    <2>1. /\ Last(Append(s, c)) = c /\ Len(Append(s, c)) = Len(s) + 1 /\ Len(s) \in Nat
          /\ \A k \in 1 .. Len(s) : Append(s, c)[k] = s[k]
        BY AppendFacts, LenProperties DEF CStr
    <2>2. begins(Append(s, c)) <=> (s = <<>> \/ Last(s) = "/")
        <3>1. CASE s = <<>>
            BY <2>1, <3>1
        <3>2. CASE s # <<>>
            <4>1. Len(s) \in 1 .. Len(s) /\ Len(s) + 1 # 1 /\ (Len(s) + 1) - 1 = Len(s)
                BY <2>1, <3>2, EmptySeq DEF CStr
            <4> QED BY <2>1, <3>2, <4>1 DEF Last
        <3> QED BY <3>1, <3>2
    <2> HIDE DEF begins
    <2> QED BY <2>1, <2>2 DEF NameStep
<1>2. step \in [CStr -> [Char -> [Seq(CStr) -> Seq(CStr)]]] /\ <<>> \in Seq(CStr)
    BY NameStepType
<1>3. PICK f \in [CStr -> Seq(CStr)] : Computes(f, Char, <<>>, step)
    <2> HIDE DEF step
    <2> QED BY <1>2, SeqRecursion DEF CStr
<1>4. f[<<>>] = <<>> /\ \A s \in CStr : \A c \in Char : f[Append(s, c)] = NameStep(f[s], s, c)
    BY <1>3 DEF Computes, CStr
<1> HIDE DEF Body
<1>5. Eq(f)
    <2> SUFFICES ASSUME NEW s \in CStr PROVE f[s] = IF s = <<>> THEN <<>> ELSE Body(f[Front(s)], s)
        OBVIOUS
    <2>1. CASE s # <<>>
        <3>1. PICK t \in CStr, c \in Char : s = Append(t, c) /\ t = Front(s)
            BY <2>1, FrontLast DEF CStr
        <3> QED BY <1>1, <1>4, <2>1, <3>1
    <2> QED BY <1>4, <2>1
<1>6. Eq(Names)
    <2>1. \E g : Eq(g)
        BY <1>5
    <2>2. Names = CHOOSE g : Eq(g)
        BY DEF Names, Body
    <2> HIDE DEF Eq
    <2> QED BY <2>1, <2>2
<1>7. <<>> \in CStr /\ \A s \in CStr : Names[s] = IF s = <<>> THEN <<>> ELSE Body(Names[Front(s)], s)
    <2>1. <<>> \in CStr
        BY DEF CStr
    <2>2. PICK g : g = Names
        OBVIOUS
    <2>3. g = [s \in CStr |-> IF s = <<>> THEN <<>> ELSE Body(g[Front(s)], s)]
        BY <1>6, <2>2
    <2>4. \A s \in CStr : g[s] = IF s = <<>> THEN <<>> ELSE Body(g[Front(s)], s)
        BY <2>3
    <2> QED BY <2>1, <2>2, <2>4
<1>8. ASSUME NEW s \in CStr, NEW c \in Char PROVE Names[Append(s, c)] = NameStep(Names[s], s, c)
    <2>1. Append(s, c) \in CStr /\ Append(s, c) # <<>> /\ Front(Append(s, c)) = s
        BY AppendFacts DEF CStr
    <2>2. Names[Append(s, c)] = Body(Names[s], Append(s, c))
        BY <1>7, <2>1
    <2> QED BY <1>1, <2>2
<1>9. Names \in [CStr -> Seq(CStr)]
    <2> DEFINE T == {s \in CStr : Names[s] \in Seq(CStr)}
    <2>1. <<>> \in T
        BY <1>2, <1>7
    <2>2. ASSUME NEW s \in CStr, NEW c \in Char, s \in T PROVE Append(s, c) \in T
        <3>1. Append(s, c) \in CStr
            BY AppendFacts DEF CStr
        <3> QED BY <1>8, <2>2, <3>1, NameStepType
    <2>3. CStr \subseteq T
        <3> HIDE DEF T
        <3> QED BY <2>1, <2>2, SeqInduction DEF CStr
    <2>4. \A s \in CStr : Names[s] \in Seq(CStr)
        BY <2>3
    <2> QED BY <1>6, <2>4
<1> QED BY <1>7, <1>8, <1>9

\* What Walk computes, as a function of the names.
Walking(at) ==
    CHOOSE f : f = [ns \in Seq(CStr) |-> IF ns = <<>> THEN at ELSE Go(f[Front(ns)], Last(ns))]

LEMMA GoType == ASSUME NEW at \in Seq(CStr), NEW n \in CStr PROVE Go(at, n) \in Seq(CStr)
<1>1. Append(at, n) \in Seq(CStr)
    OBVIOUS
<1>2. at # <<>> => Front(at) \in Seq(CStr)
    BY FrontLast
<1> QED BY <1>1, <1>2 DEF Go

LEMMA WalkingIs ==
    ASSUME NEW at \in Seq(CStr)
    PROVE
    /\ Walking(at) \in [Seq(CStr) -> Seq(CStr)]
    /\ Walking(at)[<<>>] = at
    /\ \A s \in Seq(CStr) : \A c \in CStr : Walking(at)[Append(s, c)] = Go(Walking(at)[s], c)
<1> DEFINE Eq(f) == f = [s \in Seq(CStr) |-> IF s = <<>> THEN at ELSE Go(f[Front(s)], Last(s))]
           step == [s \in Seq(CStr) |-> [c \in CStr |-> [x \in Seq(CStr) |-> Go(x, c)]]]
<1>2. step \in [Seq(CStr) -> [CStr -> [Seq(CStr) -> Seq(CStr)]]] /\ at \in Seq(CStr)
    BY GoType
<1>3. PICK f \in [Seq(CStr) -> Seq(CStr)] : Computes(f, CStr, at, step)
    <2> HIDE DEF step
    <2> QED BY <1>2, SeqRecursion
<1>4. f[<<>>] = at /\ \A s \in Seq(CStr) : \A c \in CStr : f[Append(s, c)] = Go(f[s], c)
    BY <1>3 DEF Computes
<1>5. Eq(f)
    <2> SUFFICES ASSUME NEW s \in Seq(CStr) PROVE f[s] = IF s = <<>> THEN at ELSE Go(f[Front(s)], Last(s))
        OBVIOUS
    <2>1. CASE s # <<>>
        <3>1. PICK t \in Seq(CStr), c \in CStr : s = Append(t, c) /\ t = Front(s) /\ c = Last(s)
            BY <2>1, FrontLast
        <3> QED BY <1>4, <2>1, <3>1
    <2> QED BY <1>4, <2>1
<1>6. Eq(Walking(at))
    <2>1. \E g : Eq(g)
        BY <1>5
    <2>2. Walking(at) = CHOOSE g : Eq(g)
        BY DEF Walking
    <2> HIDE DEF Eq
    <2> QED BY <2>1, <2>2
<1>7. /\ <<>> \in Seq(CStr)
      /\ \A s \in Seq(CStr) : Walking(at)[s] = IF s = <<>> THEN at ELSE Go(Walking(at)[Front(s)], Last(s))
    <2>1. <<>> \in Seq(CStr)
        BY EmptySeq
    <2>2. PICK g : g = Walking(at)
        OBVIOUS
    <2>3. g = [s \in Seq(CStr) |-> IF s = <<>> THEN at ELSE Go(g[Front(s)], Last(s))]
        BY <1>6, <2>2
    <2>4. \A s \in Seq(CStr) : g[s] = IF s = <<>> THEN at ELSE Go(g[Front(s)], Last(s))
        BY <2>3
    <2> QED BY <2>1, <2>2, <2>4
<1>8. ASSUME NEW s \in Seq(CStr), NEW c \in CStr PROVE Walking(at)[Append(s, c)] = Go(Walking(at)[s], c)
    <2>1. /\ Append(s, c) \in Seq(CStr) /\ Append(s, c) # <<>>
          /\ Front(Append(s, c)) = s /\ Last(Append(s, c)) = c
        BY AppendFacts
    <2> QED BY <1>7, <2>1
<1>9. Walking(at) \in [Seq(CStr) -> Seq(CStr)]
    <2> DEFINE T == {s \in Seq(CStr) : Walking(at)[s] \in Seq(CStr)}
    <2>1. <<>> \in T
        BY <1>2, <1>7
    <2>2. ASSUME NEW s \in Seq(CStr), NEW c \in CStr, s \in T PROVE Append(s, c) \in T
        <3>1. Append(s, c) \in Seq(CStr)
            BY AppendFacts
        <3>2. Walking(at)[s] \in Seq(CStr)
            BY <2>2
        <3>3. Go(Walking(at)[s], c) \in Seq(CStr)
            BY <3>2, GoType
        <3> QED BY <1>8, <3>1, <3>3
    <2>3. Seq(CStr) \subseteq T
        <3> HIDE DEF T
        <3> QED BY <2>1, <2>2, SeqInduction
    <2>4. \A s \in Seq(CStr) : Walking(at)[s] \in Seq(CStr)
        BY <2>3
    <2> QED BY <1>6, <2>4
<1> QED BY <1>7, <1>8, <1>9

LEMMA WalkIs ==
    ASSUME NEW at \in Seq(CStr)
    PROVE  /\ \A ns \in Seq(CStr) : Walk(at, ns) \in Seq(CStr)
           /\ Walk(at, <<>>) = at
           /\ \A ns \in Seq(CStr) : \A n \in CStr : Walk(at, Append(ns, n)) = Go(Walk(at, ns), n)
<1>1. \A ns : Walk(at, ns) = Walking(at)[ns]
    BY DEF Walk, Walking
<1>2. /\ Walking(at) \in [Seq(CStr) -> Seq(CStr)] /\ Walking(at)[<<>>] = at
      /\ \A ns \in Seq(CStr) : \A n \in CStr :
            Walking(at)[Append(ns, n)] = Go(Walking(at)[ns], n)
    BY WalkingIs
<1> QED BY <1>1, <1>2

LEMMA Slash == "/" \in Char /\ "." \in Char /\ <<"/">> \in CStr /\ Root \in CStr
<1>1. "/" \in Char /\ "." \in Char
    BY DEF Char
<1> QED BY <1>1 DEF CStr, Root

LEMMA JoinType ==
    /\ <<>> \in CStr
    /\ \A p \in CStr : \A n \in CStr : p \o <<"/">> \o n \in CStr
    BY Slash DEF CStr

LEMMA JoinedIs ==
    /\ Joined \in [Seq(CStr) -> CStr]
    /\ Joined[<<>>] = <<>>
    /\ \A s \in Seq(CStr) : \A c \in CStr : Joined[Append(s, c)] = Joined[s] \o <<"/">> \o c
<1> DEFINE Eq(f) == f = [s \in Seq(CStr) |-> IF s = <<>> THEN <<>> ELSE f[Front(s)] \o <<"/">> \o Last(s)]
           step == [s \in Seq(CStr) |-> [c \in CStr |-> [x \in CStr |-> x \o <<"/">> \o c]]]
<1>2. step \in [Seq(CStr) -> [CStr -> [CStr -> CStr]]] /\ <<>> \in CStr
    BY JoinType
<1>3. PICK f \in [Seq(CStr) -> CStr] : Computes(f, CStr, <<>>, step)
    <2> HIDE DEF step
    <2> QED BY <1>2, SeqRecursion
<1>4. f[<<>>] = <<>> /\ \A s \in Seq(CStr) : \A c \in CStr : f[Append(s, c)] = f[s] \o <<"/">> \o c
    BY <1>3 DEF Computes
<1>5. Eq(f)
    <2> SUFFICES ASSUME NEW s \in Seq(CStr) PROVE f[s] = IF s = <<>> THEN <<>> ELSE f[Front(s)] \o <<"/">> \o Last(s)
        OBVIOUS
    <2>1. CASE s # <<>>
        <3>1. PICK t \in Seq(CStr), c \in CStr : s = Append(t, c) /\ t = Front(s) /\ c = Last(s)
            BY <2>1, FrontLast
        <3> QED BY <1>4, <2>1, <3>1
    <2> QED BY <1>4, <2>1
<1>6. Eq(Joined)
    <2>1. \E g : Eq(g)
        BY <1>5
    <2>2. Joined = CHOOSE g : Eq(g)
        BY DEF Joined
    <2> HIDE DEF Eq
    <2> QED BY <2>1, <2>2
<1>7. /\ <<>> \in Seq(CStr)
      /\ \A s \in Seq(CStr) : Joined[s] = IF s = <<>> THEN <<>> ELSE Joined[Front(s)] \o <<"/">> \o Last(s)
    <2>1. <<>> \in Seq(CStr)
        BY EmptySeq
    <2>2. PICK g : g = Joined
        OBVIOUS
    <2>3. g = [s \in Seq(CStr) |-> IF s = <<>> THEN <<>> ELSE g[Front(s)] \o <<"/">> \o Last(s)]
        BY <1>6, <2>2
    <2>4. \A s \in Seq(CStr) : g[s] = IF s = <<>> THEN <<>> ELSE g[Front(s)] \o <<"/">> \o Last(s)
        BY <2>3
    <2> QED BY <2>1, <2>2, <2>4
<1>8. ASSUME NEW s \in Seq(CStr), NEW c \in CStr PROVE Joined[Append(s, c)] = Joined[s] \o <<"/">> \o c
    <2>1. /\ Append(s, c) \in Seq(CStr) /\ Append(s, c) # <<>>
          /\ Front(Append(s, c)) = s /\ Last(Append(s, c)) = c
        BY AppendFacts
    <2> QED BY <1>7, <2>1
<1>9. Joined \in [Seq(CStr) -> CStr]
    <2> DEFINE T == {s \in Seq(CStr) : Joined[s] \in CStr}
    <2>1. <<>> \in T
        BY <1>2, <1>7
    <2>2. ASSUME NEW s \in Seq(CStr), NEW c \in CStr, s \in T PROVE Append(s, c) \in T
        <3>1. Append(s, c) \in Seq(CStr)
            BY AppendFacts
        <3>2. Joined[s] \in CStr
            BY <2>2
        <3>3. Joined[s] \o <<"/">> \o c \in CStr
            BY <3>2, JoinType
        <3> QED BY <1>8, <3>1, <3>3
    <2>3. Seq(CStr) \subseteq T
        <3> HIDE DEF T
        <3> QED BY <2>1, <2>2, SeqInduction
    <2>4. \A s \in Seq(CStr) : Joined[s] \in CStr
        BY <2>3
    <2> QED BY <1>6, <2>4
<1> QED BY <1>7, <1>8, <1>9

-----------------------------------------------------------------------------
(* Absolute paths.                                                         *)

Rooted == {p \in CStr : p # <<>> /\ p[1] = "/"}
Scanned == [norm : Rooted \cup {Failed}, token : CStr]

LEMMA Limits == FS_PATH_MAX \in Nat /\ FS_PATH_MAX > 1 /\ FS_NAME_MAX \in Nat /\ FS_NAME_MAX > 1
                /\ DirsMax \in Nat /\ DirsMax > 1
    BY PathSizes

LEMMA TextLen == ASSUME NEW s \in CStr
                 PROVE  /\ Len(s) \in Nat /\ (s = <<>> <=> Len(s) = 0)
                        /\ \A i \in 1 .. Len(s) : s[i] \in Char
    BY EmptySeq, LenProperties, ElementOfSeq DEF CStr

LEMMA Prefix ==
    ASSUME NEW s \in CStr, NEW n \in 0 .. Len(s)
    PROVE  /\ SubSeq(s, 1, n) \in CStr /\ Len(SubSeq(s, 1, n)) = n
           /\ \A i \in 1 .. n : SubSeq(s, 1, n)[i] = s[i]
           /\ n = Len(s) => SubSeq(s, 1, n) = s
<1>1. Len(s) \in Nat /\ n \in Nat
    BY TextLen
<1>2. /\ SubSeq(s, 1, n) \in CStr /\ Len(SubSeq(s, 1, n)) = n
      /\ \A i \in 1 .. n : SubSeq(s, 1, n)[i] = s[i]
    BY <1>1 DEF CStr
<1>3. n = Len(s) => SubSeq(s, 1, n) = s
    BY <1>2, SeqEqual DEF CStr
<1> QED BY <1>2, <1>3

\* strcpy_s cuts, but not what fits.
LEMMA CopyIs ==
    ASSUME NEW s \in CStr, NEW n \in Nat, n > 1
    PROVE  /\ strcpy_s(n, s) \in CStr /\ Len(strcpy_s(n, s)) < n
           /\ Len(strcpy_s(n, s)) <= Len(s)
           /\ s # <<>> => strcpy_s(n, s) # <<>>
           /\ \A i \in 1 .. Len(strcpy_s(n, s)) : strcpy_s(n, s)[i] = s[i]
           /\ Len(s) < n => strcpy_s(n, s) = s
<1>1. Len(s) \in Nat
    BY TextLen
<1>2. PICK m \in 0 .. Len(s) : /\ m = IF Len(s) < n - 1 THEN Len(s) ELSE n - 1
                               /\ m < n /\ (Len(s) # 0 => m # 0) /\ (Len(s) < n => m = Len(s))
    BY <1>1
<1>3. strcpy_s(n, s) = SubSeq(s, 1, m)
    BY <1>2 DEF strcpy_s
<1>4. /\ SubSeq(s, 1, m) \in CStr /\ Len(SubSeq(s, 1, m)) = m
      /\ \A i \in 1 .. m : SubSeq(s, 1, m)[i] = s[i]
      /\ m = Len(s) => SubSeq(s, 1, m) = s
    BY Prefix
<1>5. s # <<>> => SubSeq(s, 1, m) # <<>>
    BY <1>2, <1>4, TextLen
<1> QED BY <1>2, <1>3, <1>4, <1>5

LEMMA LastSlashIs ==
    ASSUME NEW p \in Rooted
    PROVE  /\ LastSlash(p) \in 1 .. Len(p) /\ p[LastSlash(p)] = "/"
           /\ \A j \in LastSlash(p) + 1 .. Len(p) : p[j] # "/"
<1> DEFINE N == Len(p)
           S == {k \in 0 .. N - 1 : p[N - k] = "/"}
<1>1. N \in Nat \ {0} /\ p[1] = "/" /\ DOMAIN p = 1 .. N
    BY TextLen, LenProperties DEF Rooted, CStr
<1>2. N - 1 \in S
    BY <1>1
<1>3. PICK k \in S : \A j \in S : k <= j
    <2>1. S \in SUBSET Nat
        OBVIOUS
    <2>2. S # {}
        BY <1>2
    <2> HIDE DEF S
    <2> QED BY <2>1, <2>2, HasLeast
<1>4. PICK i \in 1 .. N : i = N - k
    <2>1. k \in 0 .. N - 1
        BY <1>3
    <2> HIDE DEF N, S
    <2> QED BY <1>1, <2>1
<1>5. p[i] = "/"
    BY <1>3, <1>4
<1>6. ASSUME NEW j \in i + 1 .. N, p[j] = "/" PROVE FALSE
    <2>1. N - j \in 0 .. N - 1 /\ N - (N - j) = j /\ N - j < k
        BY <1>1, <1>3, <1>4
    <2>2. N - j \in S
        BY <1>6, <2>1
    <2> QED BY <1>1, <1>3, <2>1, <2>2
<1>7. i \in DOMAIN p /\ p[i] = "/" /\ \A j \in i + 1 .. Len(p) : p[j] # "/"
    BY <1>1, <1>5, <1>6
<1>8. /\ LastSlash(p) \in DOMAIN p /\ p[LastSlash(p)] = "/"
      /\ \A j \in LastSlash(p) + 1 .. Len(p) : p[j] # "/"
    BY <1>7 DEF LastSlash
<1> QED BY <1>1, <1>8

LEMMA ComponentType ==
    ASSUME NEW norm \in Rooted \cup {Failed}, NEW token \in CStr
    PROVE  Component(norm, token) \in Rooted \cup {Failed}
<1>1. Root \in Rooted
    <2>1. <<"/">> # <<>> /\ <<"/">>[1] = "/"
        OBVIOUS
    <2> QED BY <2>1, Slash DEF Rooted, Root
<1>2. ASSUME norm \in Rooted PROVE pop_component(norm) \in Rooted
    <2>1. LastSlash(norm) \in 1 .. Len(norm)
        BY <1>2, LastSlashIs
    <2>2. CASE LastSlash(norm) = 1
        BY <1>1, <2>2 DEF pop_component
    <2>3. CASE LastSlash(norm) # 1
        <3>1. norm \in CStr /\ norm[1] = "/" /\ Len(norm) \in Nat
            BY <1>2, TextLen DEF Rooted
        <3>2. PICK n \in 1 .. Len(norm) : n = LastSlash(norm) - 1
            BY <2>1, <2>3, <3>1
        <3>3. SubSeq(norm, 1, n) \in CStr /\ Len(SubSeq(norm, 1, n)) = n /\ SubSeq(norm, 1, n)[1] = norm[1]
            BY <3>1, <3>2, Prefix
        <3>4. SubSeq(norm, 1, n) # <<>>
            BY <3>2, <3>3, TextLen
        <3>5. pop_component(norm) = SubSeq(norm, 1, n)
            BY <2>3, <3>2 DEF pop_component
        <3> QED BY <3>1, <3>3, <3>4, <3>5 DEF Rooted
    <2> QED BY <2>2, <2>3
<1>3. ASSUME norm \in Rooted PROVE push_component(norm, token) \in Rooted \cup {Failed}
    <2> DEFINE longer == (IF Len(norm) > 1 THEN Append(norm, "/") ELSE norm) \o token
    <2>1. norm \in Seq(Char) /\ token \in Seq(Char) /\ Len(norm) \in Nat \ {0} /\ norm[1] = "/" /\ "/" \in Char
        BY <1>3, TextLen, Slash DEF Rooted, CStr
    <2>2. /\ Append(norm, "/") \in Seq(Char) /\ Append(norm, "/")[1] = "/"
          /\ Len(Append(norm, "/")) \in Nat \ {0}
        BY <2>1
    <2>3. PICK q \in Seq(Char) : /\ q = IF Len(norm) > 1 THEN Append(norm, "/") ELSE norm
                                 /\ q[1] = "/" /\ Len(q) \in Nat \ {0}
        BY <2>1, <2>2
    <2>4. q \o token \in Seq(Char) /\ (q \o token)[1] = "/" /\ Len(q \o token) # 0
        BY <2>1, <2>3
    <2>5. q \o token \in Rooted
        <3>1. q \o token \in CStr
            BY <2>4 DEF CStr
        <3>2. q \o token # <<>>
            BY <2>4, <3>1, TextLen
        <3> QED BY <2>4, <3>1, <3>2 DEF Rooted
    <2>6. push_component(norm, token) \in {q \o token, Failed}
        BY <2>3 DEF push_component
    <2> QED BY <2>5, <2>6
<1> QED BY <1>2, <1>3 DEF Component

LEMMA ScanStarts == [norm |-> Root, token |-> <<>>] \in Scanned
<1>1. <<"/">> # <<>> /\ <<"/">>[1] = "/"
    OBVIOUS
<1>2. Root \in Rooted /\ <<>> \in CStr
    BY <1>1, Slash, JoinType DEF Rooted, Root
<1> QED BY <1>2 DEF Scanned

LEMMA CharacterType == \A st \in Scanned : \A c \in Char : Character(st, c) \in Scanned
<1> SUFFICES ASSUME NEW st \in Scanned, NEW c \in Char PROVE Character(st, c) \in Scanned
    OBVIOUS
<1>1. /\ st.norm \in Rooted \cup {Failed} /\ st.token \in CStr
      /\ st = [norm |-> st.norm, token |-> st.token]
    BY DEF Scanned
<1>2. CASE c = "/"
    <2>1. Character(st, c) = [norm |-> Component(st.norm, st.token), token |-> <<>>]
        BY <1>2 DEF Character
    <2>2. Component(st.norm, st.token) \in Rooted \cup {Failed} /\ <<>> \in CStr
        BY <1>1, ComponentType, JoinType
    <2> QED BY <2>1, <2>2 DEF Scanned
<1>3. CASE c # "/"
    <2>1. Append(st.token, c) \in CStr
        BY <1>1 DEF CStr
    <2>2. strcpy_s(FS_NAME_MAX, Append(st.token, c)) \in CStr
        BY <2>1, CopyIs, Limits
    <2>3. Character(st, c) = [st EXCEPT !.token = strcpy_s(FS_NAME_MAX, Append(st.token, c))]
        BY <1>3 DEF Character
    <2> QED BY <1>1, <2>2, <2>3 DEF Scanned
<1> QED BY <1>2, <1>3

LEMMA ScanIs ==
    /\ Scan \in [CStr -> Scanned]
    /\ Scan[<<>>] = [norm |-> Root, token |-> <<>>]
    /\ \A s \in CStr : \A c \in Char : Scan[Append(s, c)] = Character(Scan[s], c)
<1> DEFINE Eq(f) == f = [s \in CStr |-> IF s = <<>> THEN [norm |-> Root, token |-> <<>>] ELSE Character(f[Front(s)], Last(s))]
           step == [s \in CStr |-> [c \in Char |-> [x \in Scanned |-> Character(x, c)]]]
<1>2. step \in [CStr -> [Char -> [Scanned -> Scanned]]] /\ [norm |-> Root, token |-> <<>>] \in Scanned
    BY CharacterType, ScanStarts
<1>3. PICK f \in [CStr -> Scanned] : Computes(f, Char, [norm |-> Root, token |-> <<>>], step)
    <2> HIDE DEF step
    <2> QED BY <1>2, SeqRecursion DEF CStr
<1>4. f[<<>>] = [norm |-> Root, token |-> <<>>] /\ \A s \in CStr : \A c \in Char : f[Append(s, c)] = Character(f[s], c)
    BY <1>3 DEF Computes, CStr
<1>5. Eq(f)
    <2> SUFFICES ASSUME NEW s \in CStr PROVE f[s] = IF s = <<>> THEN [norm |-> Root, token |-> <<>>] ELSE Character(f[Front(s)], Last(s))
        OBVIOUS
    <2>1. CASE s # <<>>
        <3>1. PICK t \in CStr, c \in Char : s = Append(t, c) /\ t = Front(s) /\ c = Last(s)
            BY <2>1, FrontLast DEF CStr
        <3> QED BY <1>4, <2>1, <3>1
    <2> QED BY <1>4, <2>1
<1>6. Eq(Scan)
    <2>1. \E g : Eq(g)
        BY <1>5
    <2>2. Scan = CHOOSE g : Eq(g)
        BY DEF Scan
    <2> HIDE DEF Eq
    <2> QED BY <2>1, <2>2
<1>7. /\ <<>> \in CStr
      /\ \A s \in CStr : Scan[s] = IF s = <<>> THEN [norm |-> Root, token |-> <<>>] ELSE Character(Scan[Front(s)], Last(s))
    <2>1. <<>> \in CStr
        BY DEF CStr
    <2>2. PICK g : g = Scan
        OBVIOUS
    <2>3. g = [s \in CStr |-> IF s = <<>> THEN [norm |-> Root, token |-> <<>>] ELSE Character(g[Front(s)], Last(s))]
        BY <1>6, <2>2
    <2>4. \A s \in CStr : g[s] = IF s = <<>> THEN [norm |-> Root, token |-> <<>>] ELSE Character(g[Front(s)], Last(s))
        BY <2>3
    <2> QED BY <2>1, <2>2, <2>4
<1>8. ASSUME NEW s \in CStr, NEW c \in Char PROVE Scan[Append(s, c)] = Character(Scan[s], c)
    <2>1. /\ Append(s, c) \in CStr /\ Append(s, c) # <<>>
          /\ Front(Append(s, c)) = s /\ Last(Append(s, c)) = c
        BY AppendFacts DEF CStr
    <2> QED BY <1>7, <2>1
<1>9. Scan \in [CStr -> Scanned]
    <2> DEFINE T == {s \in CStr : Scan[s] \in Scanned}
    <2>1. <<>> \in T
        BY <1>2, <1>7
    <2>2. ASSUME NEW s \in CStr, NEW c \in Char, s \in T PROVE Append(s, c) \in T
        <3>1. Append(s, c) \in CStr
            BY AppendFacts DEF CStr
        <3>2. Scan[s] \in Scanned
            BY <2>2
        <3>3. Character(Scan[s], c) \in Scanned
            BY <3>2, CharacterType, ScanStarts
        <3> QED BY <1>8, <3>1, <3>3
    <2>3. CStr \subseteq T
        <3> HIDE DEF T
        <3> QED BY <2>1, <2>2, SeqInduction DEF CStr
    <2>4. \A s \in CStr : Scan[s] \in Scanned
        BY <2>3
    <2> QED BY <1>6, <2>4
<1> QED BY <1>7, <1>8, <1>9

-----------------------------------------------------------------------------
(* Names.                                                                  *)

LEMMA Longer ==
    ASSUME NEW C, NEW a \in Seq(C), NEW b \in Seq(C)
    PROVE  /\ a \o b \in Seq(C) /\ Len(a \o b) = Len(a) + Len(b)
           /\ Len(a) \in Nat /\ Len(b) \in Nat
           /\ \A i \in 1 .. Len(a) : (a \o b)[i] = a[i]
           /\ \A i \in 1 .. Len(b) : (a \o b)[Len(a) + i] = b[i]
           /\ a \o <<>> = a /\ <<>> \o b = b
<1>1. /\ a \o b \in Seq(C) /\ Len(a \o b) = Len(a) + Len(b)
      /\ Len(a) \in Nat /\ Len(b) \in Nat
      /\ \A i \in 1 .. Len(a) : (a \o b)[i] = a[i]
    BY ConcatProperties, LenProperties
<1>2. \A i \in 1 .. Len(b) : (a \o b)[Len(a) + i] = b[i]
    BY <1>1
<1>3. a \o <<>> = a /\ <<>> \o b = b
    BY ConcatEmptySeq
<1> QED BY <1>1, <1>2, <1>3

LEMMA ConcatAppend ==
    ASSUME NEW C, NEW a \in Seq(C), NEW b \in Seq(C), NEW c \in C
    PROVE  /\ a \o Append(b, c) = Append(a \o b, c)
           /\ Last(a \o Append(b, c)) = c
<1>1. /\ a \o b \in Seq(C) /\ Append(b, c) \in Seq(C) /\ <<c>> \in Seq(C)
      /\ Append(b, c) = b \o <<c>> /\ Append(a \o b, c) = (a \o b) \o <<c>>
    BY Longer, AppendFacts, AppendIsConcat
<1>2. (a \o b) \o <<c>> = a \o (b \o <<c>>)
    BY <1>1, ConcatAssociative
<1>3. a \o Append(b, c) = Append(a \o b, c)
    BY <1>1, <1>2
<1>4. PICK t \in Seq(C) : t = a \o b
    BY <1>1
<1>5. Last(Append(t, c)) = c
    BY AppendFacts
<1> QED BY <1>3, <1>4, <1>5

LEMMA ConcatLast ==
    ASSUME NEW C, NEW a \in Seq(C), NEW b \in Seq(C), b # <<>>
    PROVE  Last(a \o b) = Last(b) /\ Front(a \o b) = a \o Front(b) /\ a \o b # <<>>
<1>1. PICK f \in Seq(C), l \in C : b = Append(f, l) /\ f = Front(b) /\ l = Last(b)
    BY FrontLast
<1>2. a \o b = Append(a \o f, l) /\ a \o f \in Seq(C)
    BY <1>1, ConcatAppend, Longer
<1>3. PICK t \in Seq(C) : t = a \o f
    BY <1>2
<1>4. Last(Append(t, l)) = l /\ Front(Append(t, l)) = t /\ Append(t, l) # <<>>
    BY AppendFacts
<1> QED BY <1>1, <1>2, <1>3, <1>4

\* What is added to the last name.
LEMMA ExtendLast ==
    ASSUME NEW names \in Seq(CStr), names # <<>>, NEW c \in Char
    PROVE  [names EXCEPT ![Len(names)] = Append(@, c)] = Append(Front(names), Append(Last(names), c))
<1>1. PICK f \in Seq(CStr), l \in CStr : names = Append(f, l) /\ f = Front(names) /\ l = Last(names)
    BY FrontLast
<1>2. PICK n \in Nat : n = Len(f) /\ Len(names) = n + 1
    BY <1>1, AppendFacts, LenProperties
<1>3. Append(l, c) \in CStr
    BY DEF CStr
<1>4. PICK m \in CStr : m = Append(l, c)
    BY <1>3
<1>5. names[n + 1] = l /\ \A i \in 1 .. n : names[i] = f[i]
    BY <1>1, <1>2, AppendFacts
<1> DEFINE x == [names EXCEPT ![n + 1] = m]
           y == Append(f, m)
<1>6. x \in Seq(CStr) /\ Len(x) = n + 1 /\ x[n + 1] = m /\ \A i \in 1 .. n : x[i] = f[i]
    <2>1. n + 1 \in 1 .. Len(names) /\ \A i \in 1 .. n : i \in 1 .. Len(names) /\ i # n + 1
        BY <1>2
    <2>2. x \in Seq(CStr) /\ Len(x) = Len(names) /\ \A i \in 1 .. Len(names) : x[i] = IF i = n + 1 THEN m ELSE names[i]
        BY <2>1, ExceptSeq
    <2> QED BY <1>2, <1>5, <2>1, <2>2
<1>7. y \in Seq(CStr) /\ Len(y) = n + 1 /\ y[n + 1] = m /\ \A i \in 1 .. n : y[i] = f[i]
    BY <1>2, AppendFacts
<1>8. x = y
    <2> HIDE DEF x, y
    <2>1. \A i \in 1 .. n + 1 : x[i] = y[i]
        BY <1>6, <1>7
    <2> QED BY <1>6, <1>7, <2>1, SeqEqual
<1>9. [names EXCEPT ![Len(names)] = Append(@, c)] = x
    BY <1>2, <1>4, <1>5
<1> QED BY <1>1, <1>4, <1>8, <1>9

NoSlash(n) == \A i \in 1 .. Len(n) : n[i] # "/"
Good == {n \in CStr : n # <<>> /\ NoSlash(n)}

LEMMA NoSlashAppend ==
    ASSUME NEW n \in CStr, NEW c \in Char
    PROVE  /\ Append(n, c) \in CStr /\ Append(n, c) # <<>>
           /\ NoSlash(Append(n, c)) <=> NoSlash(n) /\ c # "/"
<1>1. /\ Append(n, c) \in CStr /\ Append(n, c) # <<>> /\ Len(n) \in Nat
      /\ Len(Append(n, c)) = Len(n) + 1 /\ Append(n, c)[Len(n) + 1] = c
      /\ \A i \in 1 .. Len(n) : Append(n, c)[i] = n[i]
    BY AppendFacts, TextLen DEF CStr
<1>2. 1 .. Len(n) + 1 = (1 .. Len(n)) \cup {Len(n) + 1}
    BY <1>1
<1>3. NoSlash(Append(n, c)) <=> NoSlash(n) /\ c # "/"
    BY <1>1, <1>2 DEF NoSlash
<1> QED BY <1>1, <1>3

\* A step of Names, with names that are.
LEMMA NamesStep ==
    ASSUME NEW s \in CStr, NEW c \in Char
    PROVE  /\ c = "/" => Names[Append(s, c)] = Names[s]
           /\ c # "/" /\ (s = <<>> \/ Last(s) = "/") => Names[Append(s, c)] = Append(Names[s], <<c>>)
           /\ c # "/" /\ s # <<>> /\ Last(s) # "/" /\ Names[s] # <<>> =>
                Names[Append(s, c)] = Append(Front(Names[s]), Append(Last(Names[s]), c))
<1>1. Names[s] \in Seq(CStr) /\ Names[Append(s, c)] = NameStep(Names[s], s, c)
    BY NamesIs
<1>2. ASSUME Names[s] # <<>>
      PROVE  [Names[s] EXCEPT ![Len(Names[s])] = Append(@, c)]
                = Append(Front(Names[s]), Append(Last(Names[s]), c))
    BY <1>1, <1>2, ExtendLast
<1> QED BY <1>1, <1>2 DEF NameStep

LEMMA SeqOfSubset ==
    ASSUME NEW D, NEW C, C \subseteq D, NEW s \in Seq(C)
    PROVE  s \in Seq(D)
    OBVIOUS

LEMMA NamesGood ==
    ASSUME NEW s \in CStr
    PROVE  Names[s] \in Seq(Good) /\ (s # <<>> /\ Last(s) # "/" => Names[s] # <<>>)
<1> DEFINE P(t) == Names[t] \in Seq(Good) /\ (t # <<>> /\ Last(t) # "/" => Names[t] # <<>>)
           T == {t \in CStr : P(t)}
<1>1. <<>> \in T
    BY NamesIs, JoinType
<1>2. ASSUME NEW t \in CStr, NEW c \in Char, t \in T PROVE Append(t, c) \in T
    <2>1. Append(t, c) \in CStr /\ Last(Append(t, c)) = c
        BY AppendFacts DEF CStr
    <2>2. Names[t] \in Seq(Good) /\ (t # <<>> /\ Last(t) # "/" => Names[t] # <<>>)
        BY <1>2
    <2>3. CASE c = "/"
        BY <2>1, <2>2, <2>3, NamesStep
    <2>4. CASE c # "/" /\ (t = <<>> \/ Last(t) = "/")
        <3>1. <<c>> \in Good
            <4>1. <<>> \in CStr /\ <<c>> = Append(<<>>, c) /\ NoSlash(<<>>)
                BY JoinType DEF NoSlash
            <4> QED BY <2>4, <4>1, NoSlashAppend DEF Good
        <3>2. Names[Append(t, c)] = Append(Names[t], <<c>>)
            BY <2>4, NamesStep
        <3>3. Append(Names[t], <<c>>) \in Seq(Good) /\ Append(Names[t], <<c>>) # <<>>
            BY <2>2, <3>1, AppendFacts
        <3> QED BY <2>1, <3>2, <3>3
    <2>5. CASE c # "/" /\ t # <<>> /\ Last(t) # "/"
        <3>1. PICK f \in Seq(Good), l \in Good : f = Front(Names[t]) /\ l = Last(Names[t])
            BY <2>2, <2>5, FrontLast
        <3>2. Append(l, c) \in Good
            BY <2>5, NoSlashAppend DEF Good
        <3>3. Names[Append(t, c)] = Append(f, Append(l, c))
            BY <2>2, <2>5, <3>1, NamesStep
        <3>4. Append(f, Append(l, c)) \in Seq(Good) /\ Append(f, Append(l, c)) # <<>>
            BY <3>2, AppendFacts
        <3> QED BY <2>1, <3>3, <3>4
    <2> QED BY <2>3, <2>4, <2>5
<1>3. CStr \subseteq T
    <2> HIDE DEF T
    <2> QED BY <1>1, <1>2, SeqInduction DEF CStr
<1> QED BY <1>3

\* A slash ends a name.
LEMMA NamesConcat ==
    ASSUME NEW s \in CStr, NEW t \in CStr
    PROVE  Names[s \o <<"/">> \o t] = Names[s] \o Names[t]
<1> DEFINE P(u) == Names[s \o <<"/">> \o u] = Names[s] \o Names[u]
           T == {u \in CStr : P(u)}
<1>1. PICK a \in CStr : a = s \o <<"/">> /\ a = Append(s, "/") /\ a # <<>> /\ Last(a) = "/"
    <2>1. s \o <<"/">> = Append(s, "/")
        BY Slash, AppendIsConcat DEF CStr
    <2>2. /\ Append(s, "/") \in CStr /\ Append(s, "/") # <<>> /\ Last(Append(s, "/")) = "/"
        BY Slash, AppendFacts DEF CStr
    <2> QED BY <2>1, <2>2
<1>2. PICK A \in Seq(CStr) : A = Names[s] /\ Names[a] = A
    BY <1>1, NamesStep, NamesIs, Slash
<1>3. <<>> \in T
    <2>1. a \o <<>> = a /\ A \o <<>> = A
        BY <1>2, Longer DEF CStr
    <2>2. Names[<<>>] = <<>> /\ <<>> \in CStr
        BY NamesIs, JoinType
    <2> QED BY <1>1, <1>2, <2>1, <2>2
<1>4. ASSUME NEW u \in CStr, NEW c \in Char, u \in T PROVE Append(u, c) \in T
    <2>1. Append(u, c) \in CStr /\ a \o u \in CStr /\ a \o Append(u, c) = Append(a \o u, c)
        BY AppendFacts, ConcatAppend, Longer DEF CStr
    <2>a. PICK v \in CStr : v = a \o u
        BY <2>1
    <2>b. PICK B \in Seq(CStr) : B = Names[u]
        BY NamesIs
    <2>2. Names[v] = A \o B
        BY <1>1, <1>2, <1>4, <2>a, <2>b
    <2>3. /\ v # <<>> /\ (u = <<>> => Last(v) = "/")
          /\ u # <<>> => Last(v) = Last(u)
        <3>1. u = <<>> => v = a
            BY <2>a, Longer DEF CStr
        <3>2. u # <<>> => Last(v) = Last(u) /\ v # <<>>
            BY <2>a, ConcatLast DEF CStr
        <3> QED BY <1>1, <3>1, <3>2
    <2>4. Names[Append(v, c)] = A \o Names[Append(u, c)]
        <3>1. CASE c = "/"
            BY <2>2, <2>b, <3>1, NamesStep
        <3>2. CASE c # "/" /\ (u = <<>> \/ Last(u) = "/")
            <4>1. Names[Append(u, c)] = Append(B, <<c>>)
                BY <2>b, <3>2, NamesStep
            <4>2. Names[Append(v, c)] = Append(Names[v], <<c>>)
                BY <2>3, <3>2, NamesStep
            <4>3. PICK n \in CStr : n = <<c>>
                <5>1. <<c>> \in CStr
                    BY DEF CStr
                <5> QED BY <5>1
            <4>4. A \o Append(B, n) = Append(A \o B, n)
                BY ConcatAppend
            <4> QED BY <2>2, <4>1, <4>2, <4>3, <4>4
        <3>3. CASE c # "/" /\ u # <<>> /\ Last(u) # "/"
            <4>1. B # <<>>
                BY <2>b, <3>3, NamesGood
            <4>2. PICK f \in Seq(CStr), l \in CStr : f = Front(B) /\ l = Last(B)
                BY <4>1, FrontLast
            <4>3. Names[Append(u, c)] = Append(f, Append(l, c))
                BY <2>b, <3>3, <4>1, <4>2, NamesStep
            <4>4. Last(A \o B) = l /\ Front(A \o B) = A \o f /\ A \o B # <<>>
                BY <4>1, <4>2, ConcatLast
            <4>5. Names[Append(v, c)] = Append(A \o f, Append(l, c))
                <5>1. Last(v) # "/"
                    BY <2>3, <3>3
                <5>2. Names[v] # <<>>
                    BY <2>2, <4>4
                <5>3. Names[Append(v, c)] = Append(Front(Names[v]), Append(Last(Names[v]), c))
                    BY <2>3, <3>3, <5>1, <5>2, NamesStep
                <5> QED BY <2>2, <4>4, <5>3, Zenon
            <4>6. PICK n \in CStr : n = Append(l, c)
                <5>1. Append(l, c) \in CStr
                    BY DEF CStr
                <5> QED BY <5>1
            <4>7. A \o Append(f, n) = Append(A \o f, n)
                BY ConcatAppend
            <4> QED BY <4>3, <4>5, <4>6, <4>7
        <3> QED BY <3>1, <3>2, <3>3
    <2>5. Names[a \o Append(u, c)] = Names[s] \o Names[Append(u, c)]
        BY <1>2, <2>1, <2>4, <2>a
    <2> QED BY <1>1, <2>1, <2>5
<1>5. CStr \subseteq T
    <2> HIDE DEF T
    <2> QED BY <1>3, <1>4, SeqInduction DEF CStr
<1> QED BY <1>5

LEMMA NamesWord == ASSUME NEW n \in Good PROVE Names[n] = <<n>>
<1> DEFINE P(t) == t # <<>> /\ NoSlash(t) => Names[t] = <<t>>
           T == {t \in CStr : P(t)}
<1>1. <<>> \in T
    BY JoinType
<1>2. ASSUME NEW t \in CStr, NEW c \in Char, t \in T PROVE Append(t, c) \in T
    <2>1. Append(t, c) \in CStr
        BY NoSlashAppend
    <2>2. ASSUME NoSlash(Append(t, c)) PROVE Names[Append(t, c)] = <<Append(t, c)>>
        <3>1. NoSlash(t) /\ c # "/"
            BY <2>2, NoSlashAppend
        <3>2. CASE t = <<>>
            <4>1. Names[Append(t, c)] = Append(Names[t], <<c>>)
                BY <3>1, <3>2, NamesStep
            <4>2. Names[t] = <<>>
                BY <3>2, NamesIs
            <4>3. Append(<<>>, <<c>>) = << <<c>> >> /\ Append(<<>>, c) = <<c>>
                OBVIOUS
            <4> QED BY <3>2, <4>1, <4>2, <4>3
        <3>3. CASE t # <<>>
            <4>1. Last(t) # "/"
                <5>1. Len(t) \in 1 .. Len(t)
                    BY <3>3, TextLen
                <5> QED BY <3>1, <5>1 DEF NoSlash, Last
            <4>2. Names[t] = <<t>>
                BY <1>2, <3>1, <3>3
            <4>3. <<t>> # <<>> /\ Front(<<t>>) = <<>> /\ Last(<<t>>) = t
                <5>1. <<>> \in Seq(CStr) /\ <<t>> = Append(<<>>, t)
                    OBVIOUS
                <5>2. PICK e \in Seq(CStr) : e = <<>>
                    BY <5>1
                <5>3. Front(Append(e, t)) = e /\ Last(Append(e, t)) = t /\ Append(e, t) # <<>>
                    BY AppendFacts
                <5> QED BY <5>1, <5>2, <5>3
            <4>4. Names[Append(t, c)] = Append(Front(Names[t]), Append(Last(Names[t]), c))
                BY <3>1, <3>3, <4>1, <4>2, <4>3, NamesStep
            <4>5. Append(<<>>, Append(t, c)) = <<Append(t, c)>>
                OBVIOUS
            <4> QED BY <4>2, <4>3, <4>4, <4>5
        <3> QED BY <3>2, <3>3
    <2> QED BY <2>1, <2>2
<1>3. CStr \subseteq T
    <2> HIDE DEF T
    <2> QED BY <1>1, <1>2, SeqInduction DEF CStr
<1> QED BY <1>3 DEF Good

\* The path of names, and one name more.
LEMMA JoinedLonger ==
    ASSUME NEW j \in CStr, NEW n \in Good
    PROVE  /\ j \o <<"/">> \o n \in CStr
           /\ Len(j \o <<"/">> \o n) = (Len(j) + 1) + Len(n)
           /\ Len(j) \in Nat /\ Len(n) \in Nat \ {0}
           /\ \A i \in 1 .. Len(j) : (j \o <<"/">> \o n)[i] = j[i]
           /\ (j \o <<"/">> \o n)[Len(j) + 1] = "/"
           /\ \A i \in 1 .. Len(n) : (j \o <<"/">> \o n)[(Len(j) + 1) + i] = n[i]
<1>1. n \in CStr /\ Len(j) \in Nat /\ Len(n) \in Nat \ {0}
    BY TextLen DEF Good
<1>2. PICK a \in CStr : /\ a = j \o <<"/">> /\ Len(a) = Len(j) + 1
                        /\ \A i \in 1 .. Len(j) : a[i] = j[i]
                        /\ a[Len(j) + 1] = "/"
    <2>1. j \o <<"/">> = Append(j, "/")
        BY Slash, AppendIsConcat DEF CStr
    <2>2. /\ Append(j, "/") \in CStr /\ Len(Append(j, "/")) = Len(j) + 1
          /\ \A i \in 1 .. Len(j) : Append(j, "/")[i] = j[i]
          /\ Append(j, "/")[Len(j) + 1] = "/"
        BY Slash, AppendFacts DEF CStr
    <2> QED BY <2>1, <2>2
<1>3. /\ a \o n \in CStr /\ Len(a \o n) = Len(a) + Len(n)
      /\ \A i \in 1 .. Len(a) : (a \o n)[i] = a[i]
      /\ \A i \in 1 .. Len(n) : (a \o n)[Len(a) + i] = n[i]
    BY <1>1, Longer DEF CStr
<1>4. \A i \in 1 .. Len(j) + 1 : (a \o n)[i] = a[i]
    BY <1>2, <1>3
<1>5. Len(j) + 1 \in 1 .. Len(j) + 1 /\ \A i \in 1 .. Len(j) : i \in 1 .. Len(j) + 1
    BY <1>1
<1> QED BY <1>1, <1>2, <1>3, <1>4, <1>5

LEMMA JoinedStep ==
    ASSUME NEW ns \in Seq(Good), NEW n \in Good
    PROVE  /\ Joined[ns] \in CStr /\ ns \in Seq(CStr) /\ Append(ns, n) \in Seq(Good)
           /\ Joined[Append(ns, n)] = Joined[ns] \o <<"/">> \o n
<1>1. Good \subseteq CStr
    BY DEF Good
<1>2. ns \in Seq(CStr) /\ n \in CStr
    BY <1>1, SeqOfSubset
<1> QED BY <1>2, JoinedIs, AppendFacts

LEMMA JoinedNames ==
    ASSUME NEW ns \in Seq(Good)
    PROVE  /\ Joined[ns] \in CStr /\ Names[Joined[ns]] = ns
           /\ ns # <<>> => Joined[ns] \in Rooted /\ Len(Joined[ns]) > 1
<1> DEFINE P(m) == /\ Joined[m] \in CStr /\ Names[Joined[m]] = m
                   /\ m # <<>> => Joined[m] \in Rooted /\ Len(Joined[m]) > 1
           T == {m \in Seq(Good) : P(m)}
<1>1. <<>> \in T
    <2>1. <<>> \in Seq(Good) /\ Joined[<<>>] = <<>> /\ Names[<<>>] = <<>> /\ <<>> \in CStr
        BY JoinedIs, NamesIs, JoinType
    <2> QED BY <2>1
<1>2. ASSUME NEW m \in Seq(Good), NEW n \in Good, m \in T PROVE Append(m, n) \in T
    <2>1. /\ Append(m, n) \in Seq(Good) /\ Joined[Append(m, n)] = Joined[m] \o <<"/">> \o n
          /\ Joined[m] \in CStr
        BY JoinedStep
    <2>2. PICK j \in CStr : j = Joined[m] /\ Names[j] = m /\ (m # <<>> => j \in Rooted /\ Len(j) > 1)
        BY <1>2, <2>1
    <2>3. PICK p \in CStr : p = j \o <<"/">> \o n /\ p = Joined[Append(m, n)]
        BY <2>1, <2>2, JoinedLonger
    <2>4. Names[p] = Append(m, n)
        <3>1. Names[p] = Names[j] \o Names[n]
            BY <2>3, NamesConcat DEF Good
        <3>2. Names[n] = <<n>>
            BY NamesWord
        <3>3. m \o <<n>> = Append(m, n)
            BY AppendIsConcat
        <3> QED BY <2>2, <3>1, <3>2, <3>3
    <2>5. Len(p) > 1 /\ p[1] = "/"
        <3>1. /\ Len(p) = (Len(j) + 1) + Len(n) /\ Len(j) \in Nat /\ Len(n) \in Nat \ {0}
              /\ \A i \in 1 .. Len(j) : p[i] = j[i]
              /\ p[Len(j) + 1] = "/"
            BY <2>3, JoinedLonger
        <3>2. CASE m = <<>>
            <4>1. j = <<>> /\ Len(j) = 0
                BY <2>2, <3>2, JoinedIs
            <4> QED BY <3>1, <4>1
        <3>3. CASE m # <<>>
            <4>1. j[1] = "/" /\ Len(j) > 1
                BY <2>2, <3>3 DEF Rooted
            <4> QED BY <3>1, <4>1
        <3> QED BY <3>2, <3>3
    <2>6. p # <<>>
        BY <2>5, TextLen
    <2> QED BY <2>1, <2>3, <2>4, <2>5, <2>6 DEF Rooted
<1>3. Seq(Good) \subseteq T
    <2> HIDE DEF T
    <2> QED BY <1>1, <1>2, SeqInduction
<1> QED BY <1>3

LEMMA RootFacts == Root \in Rooted /\ Len(Root) = 1 /\ Names[Root] = <<>> /\ Root = Append(<<>>, "/")
<1>1. <<"/">> # <<>> /\ <<"/">>[1] = "/" /\ Len(<<"/">>) = 1 /\ <<"/">> = Append(<<>>, "/")
    OBVIOUS
<1>2. Names[Append(<<>>, "/")] = Names[<<>>]
    BY NamesStep, Slash, JoinType
<1> QED BY <1>1, <1>2, Slash, NamesIs DEF Rooted, Root

LEMMA PlainNames ==
    ASSUME NEW ns \in Seq(Good)
    PROVE  /\ Plain(ns) \in Rooted /\ Plain(ns) \in CStr /\ Names[Plain(ns)] = ns
           /\ Len(Plain(ns)) \in Nat \ {0} /\ (ns # <<>> <=> Len(Plain(ns)) > 1)
           /\ Plain(ns) # Failed
<1>1. Plain(ns) \in Rooted /\ Names[Plain(ns)] = ns /\ (ns # <<>> <=> Len(Plain(ns)) > 1)
    <2>1. CASE ns = <<>>
        BY <2>1, RootFacts DEF Plain
    <2>2. CASE ns # <<>>
        BY <2>2, JoinedNames DEF Plain
    <2> QED BY <2>1, <2>2
<1>2. Plain(ns) \in CStr /\ Plain(ns) # <<>>
    BY <1>1 DEF Rooted
<1> QED BY <1>1, <1>2, TextLen DEF Failed

LEMMA PushIs ==
    ASSUME NEW ns \in Seq(Good), NEW tok \in Good,
           Len(Plain(ns)) + Len(tok) + (IF ns = <<>> THEN 0 ELSE 1) < FS_PATH_MAX
    PROVE  /\ push_component(Plain(ns), tok) = Plain(Append(ns, tok))
           /\ Len(Plain(Append(ns, tok))) = Len(Plain(ns)) + Len(tok) + (IF ns = <<>> THEN 0 ELSE 1)
<1>1. PICK j \in CStr : j = Joined[ns] /\ Joined[Append(ns, tok)] = j \o <<"/">> \o tok
    BY JoinedStep
<1>2. Append(ns, tok) \in Seq(Good) /\ Append(ns, tok) # <<>>
    BY AppendFacts
<1>3. Plain(Append(ns, tok)) = j \o <<"/">> \o tok
    BY <1>1, <1>2 DEF Plain
<1>4. /\ Len(j \o <<"/">> \o tok) = (Len(j) + 1) + Len(tok)
      /\ Len(j) \in Nat /\ Len(tok) \in Nat
    BY JoinedLonger
<1>5. j \o <<"/">> = Append(j, "/")
    BY Slash, AppendIsConcat DEF CStr
<1>6. CASE ns = <<>>
    <2>1. Plain(ns) = Root /\ j = <<>> /\ Len(j) = 0 /\ Len(Root) = 1
        BY <1>1, <1>6, JoinedIs, RootFacts DEF Plain
    <2>2. <<>> \o <<"/">> = Root
        BY DEF Root
    <2>3. Root \o tok = j \o <<"/">> \o tok
        BY <2>1, <2>2
    <2>4. Len(Root \o tok) = 1 + Len(tok) /\ ~(Len(Root \o tok) >= FS_PATH_MAX)
        BY <1>4, <1>6, <2>1, <2>3, Limits
    <2>5. push_component(Plain(ns), tok) = Root \o tok
        BY <2>1, <2>4 DEF push_component
    <2> QED BY <1>3, <1>4, <1>6, <2>1, <2>3, <2>4, <2>5
<1>7. CASE ns # <<>>
    <2>1. Plain(ns) = j /\ Len(j) > 1
        BY <1>1, <1>7, PlainNames DEF Plain
    <2>2. Append(j, "/") \o tok = j \o <<"/">> \o tok
        BY <1>5
    <2>3. ~(Len(Append(j, "/") \o tok) >= FS_PATH_MAX)
        BY <1>4, <1>7, <2>1, <2>2, Limits
    <2>4. push_component(Plain(ns), tok) = Append(j, "/") \o tok
        BY <2>1, <2>3 DEF push_component
    <2> QED BY <1>3, <1>4, <1>7, <2>1, <2>2, <2>4
<1> QED BY <1>6, <1>7

LEMMA PopIs ==
    ASSUME NEW ns \in Seq(Good)
    PROVE  /\ pop_component(Plain(ns)) = Plain(IF ns = <<>> THEN ns ELSE Front(ns))
           /\ Len(Plain(IF ns = <<>> THEN ns ELSE Front(ns))) <= Len(Plain(ns))
<1>1. CASE ns = <<>>
    <2>1. Plain(ns) = Root /\ LastSlash(Root) \in 1 .. 1
        BY <1>1, RootFacts, LastSlashIs DEF Plain
    <2>2. LastSlash(Root) = 1
        BY <2>1
    <2> QED BY <1>1, <2>1, <2>2, RootFacts DEF pop_component, Plain
<1>2. CASE ns # <<>>
    <2>1. PICK m \in Seq(Good), n \in Good : ns = Append(m, n) /\ m = Front(ns)
        BY <1>2, FrontLast
    <2>2. PICK j \in CStr : j = Joined[m] /\ Joined[ns] = j \o <<"/">> \o n
        BY <2>1, JoinedStep
    <2>3. PICK p \in Rooted : p = Plain(ns) /\ p = j \o <<"/">> \o n /\ p \in CStr
        BY <1>2, <2>2, PlainNames DEF Plain
    <2>4. PICK L \in Nat \ {0} : L = Len(j) + 1 /\ Len(j) = L - 1
        BY TextLen
    <2>5. /\ Len(p) = L + Len(n) /\ Len(n) \in Nat \ {0}
          /\ \A i \in 1 .. L - 1 : p[i] = j[i]
          /\ p[L] = "/"
          /\ \A i \in 1 .. Len(n) : p[L + i] = n[i]
        BY <2>3, <2>4, JoinedLonger
    <2>6. PICK k \in 1 .. Len(p) : /\ k = LastSlash(p) /\ p[k] = "/"
                                   /\ \A i \in k + 1 .. Len(p) : p[i] # "/"
        BY LastSlashIs
    <2>7. k = L
        <3>1. ~(k < L)
            <4>1. k < L => L \in k + 1 .. Len(p)
                BY <2>5
            <4> QED BY <2>5, <2>6, <4>1
        <3>2. ~(k > L)
            <4>1. k > L => k - L \in 1 .. Len(n) /\ L + (k - L) = k
                BY <2>5
            <4>2. \A i \in 1 .. Len(n) : n[i] # "/"
                BY DEF Good, NoSlash
            <4> QED BY <2>5, <2>6, <4>1, <4>2
        <3> QED BY <3>1, <3>2
    <2>8. CASE m = <<>>
        <3>1. j = <<>> /\ Len(j) = 0
            BY <2>2, <2>8, JoinedIs
        <3>2. L = 1
            BY <2>4, <3>1
        <3>3. pop_component(p) = Root /\ Plain(m) = Root /\ Len(Root) = 1 /\ Len(p) >= 1
            BY <2>5, <2>6, <2>7, <2>8, <3>2, RootFacts DEF pop_component, Plain
        <3> QED BY <1>2, <2>1, <2>3, <3>3
    <2>9. CASE m # <<>>
        <3>1. Plain(m) = j /\ Len(j) > 1
            BY <2>2, <2>9, PlainNames DEF Plain
        <3>2. L - 1 \in 0 .. Len(p) /\ L # 1 /\ L - 1 <= Len(p)
            BY <2>4, <2>5, <3>1
        <3>3. /\ SubSeq(p, 1, L - 1) \in CStr /\ Len(SubSeq(p, 1, L - 1)) = L - 1
              /\ \A i \in 1 .. L - 1 : SubSeq(p, 1, L - 1)[i] = p[i]
            BY <2>3, <3>2, Prefix
        <3>4. SubSeq(p, 1, L - 1) = j
            BY <2>4, <2>5, <3>3, SeqEqual DEF CStr
        <3>5. pop_component(p) = j
            BY <2>6, <2>7, <3>2, <3>4 DEF pop_component
        <3> QED BY <1>2, <2>1, <2>3, <2>4, <3>1, <3>2, <3>5
    <2> QED BY <2>8, <2>9
<1> QED BY <1>1, <1>2

-----------------------------------------------------------------------------
(* Walking and resolving.                                                  *)

Short == {n \in CStr : Len(n) < FS_NAME_MAX}
Kept == {n \in Good : n # <<".">> /\ n # <<".", ".">> /\ n \in Short}

LEMMA KeptGood == ASSUME NEW ns \in Seq(Kept) PROVE ns \in Seq(Good) /\ ns \in Seq(Short) /\ ns \in Seq(CStr)
<1>1. Kept \subseteq Good /\ Kept \subseteq Short /\ Kept \subseteq CStr
    BY DEF Kept, Good
<1> QED BY <1>1, SeqOfSubset

LEMMA EmptyList == <<>> \in Seq(CStr) /\ <<>> \in Seq(Kept) /\ <<>> \in Seq(Short)
<1>1. ASSUME NEW C PROVE <<>> \in Seq(C)
    OBVIOUS
<1> QED BY <1>1

LEMMA NotEmpty == ASSUME NEW u \in CStr, u # <<>> PROVE 1 \in 1 .. Len(u)
<1>1. Len(u) \in Nat /\ Len(u) # 0
    BY EmptySeq, LenProperties DEF CStr
<1> QED BY <1>1

LEMMA WalkConcat ==
    ASSUME NEW at \in Seq(CStr), NEW a \in Seq(CStr), NEW b \in Seq(CStr)
    PROVE  Walk(at, a \o b) = Walk(Walk(at, a), b)
<1> DEFINE T == {u \in Seq(CStr) : Walk(at, a \o u) = Walk(Walk(at, a), u)}
<1>1. PICK w \in Seq(CStr) : w = Walk(at, a)
    BY WalkIs
<1>2. <<>> \in T
    <2>1. a \o <<>> = a /\ Walk(w, <<>>) = w /\ <<>> \in Seq(CStr)
        BY Longer, WalkIs
    <2> QED BY <1>1, <2>1
<1>3. ASSUME NEW u \in Seq(CStr), NEW n \in CStr, u \in T PROVE Append(u, n) \in T
    <2>1. Append(u, n) \in Seq(CStr) /\ a \o Append(u, n) = Append(a \o u, n)
        BY AppendFacts, ConcatAppend
    <2>2. PICK v \in Seq(CStr) : v = a \o u
        BY Longer
    <2>3. Walk(at, Append(v, n)) = Go(Walk(at, v), n) /\ Walk(w, Append(u, n)) = Go(Walk(w, u), n)
        BY WalkIs
    <2>4. Walk(at, v) = Walk(w, u)
        BY <1>1, <1>3, <2>2
    <2> QED BY <1>1, <2>1, <2>2, <2>3, <2>4
<1>4. Seq(CStr) \subseteq T
    <2> HIDE DEF T
    <2> QED BY <1>2, <1>3, SeqInduction
<1> QED BY <1>4

\* Names that are kept are walked as they stand.
LEMMA WalkKept == ASSUME NEW ns \in Seq(Kept) PROVE Walk(<<>>, ns) = ns
<1> DEFINE T == {u \in Seq(Kept) : Walk(<<>>, u) = u}
<1>0. PICK e \in Seq(CStr) : e = <<>>
    BY EmptyList
<1>1. <<>> \in T
    <2>1. Walk(e, <<>>) = e
        BY WalkIs
    <2> QED BY <1>0, <2>1, EmptyList
<1>2. ASSUME NEW u \in Seq(Kept), NEW n \in Kept, u \in T PROVE Append(u, n) \in T
    <2>1. Append(u, n) \in Seq(Kept) /\ u \in Seq(CStr) /\ n \in CStr
        BY AppendFacts, KeptGood DEF Kept, Good
    <2>2. Walk(e, Append(u, n)) = Go(Walk(e, u), n)
        BY <2>1, WalkIs
    <2>3. Go(u, n) = Append(u, n)
        BY DEF Go, Kept
    <2> QED BY <1>0, <1>2, <2>1, <2>2, <2>3
<1>3. Seq(Kept) \subseteq T
    <2> HIDE DEF T
    <2> QED BY <1>1, <1>2, SeqInduction
<1> QED BY <1>3

LEMMA GoKept ==
    ASSUME NEW ns \in Seq(Kept), NEW n \in Good, n \in Short
    PROVE  Go(ns, n) \in Seq(Kept)
<1>1. ns # <<>> => Front(ns) \in Seq(Kept)
    BY FrontLast
<1>2. n # <<".">> /\ n # <<".", ".">> => Append(ns, n) \in Seq(Kept)
    BY AppendFacts DEF Kept
<1> QED BY <1>1, <1>2 DEF Go

\* Where a token leads, and the length of the path with the token behind it.
Moved(ns, tok) == IF tok = <<>> THEN ns ELSE Go(ns, tok)
Spent(ns, tok) == Len(Plain(ns)) + Len(tok) + (IF ns = <<>> THEN 0 ELSE 1)

LEMMA ComponentIs ==
    ASSUME NEW ns \in Seq(Kept), NEW tok \in Short, NoSlash(tok), Spent(ns, tok) < FS_PATH_MAX
    PROVE  /\ Component(Plain(ns), tok) = Plain(Moved(ns, tok))
           /\ Moved(ns, tok) \in Seq(Kept)
           /\ Len(Plain(Moved(ns, tok))) \in Nat
           /\ Len(Plain(Moved(ns, tok))) <= Spent(ns, tok)
<1>1. ns \in Seq(Good) /\ tok \in CStr
    BY KeptGood DEF Short
<1>2. Plain(ns) # Failed /\ Len(Plain(ns)) \in Nat /\ Len(tok) \in Nat
    BY <1>1, PlainNames, TextLen
<1>3. Len(Plain(ns)) <= Spent(ns, tok)
    BY <1>2 DEF Spent
<1>4. CASE tok = <<>>
    BY <1>2, <1>3, <1>4 DEF Component, Moved
<1>5. CASE tok = <<".">>
    <2>1. tok # <<>>
        BY <1>5
    <2> QED BY <1>2, <1>3, <1>5, <2>1 DEF Component, Moved, Go
<1>6. CASE tok = <<".", ".">>
    <2>1. tok # <<>> /\ tok # <<".">>
        BY <1>6
    <2>2. tok \in Good
        BY <1>1, <2>1 DEF Good
    <2>3. Moved(ns, tok) = IF ns = <<>> THEN ns ELSE Front(ns)
        BY <1>6, <2>1 DEF Moved, Go
    <2>4. Component(Plain(ns), tok) = pop_component(Plain(ns))
        BY <1>2, <1>6, <2>1 DEF Component
    <2>5. Moved(ns, tok) \in Seq(Kept)
        BY <2>1, <2>2, GoKept DEF Moved
    <2>6. /\ pop_component(Plain(ns)) = Plain(Moved(ns, tok))
          /\ Len(Plain(Moved(ns, tok))) <= Len(Plain(ns))
        BY <1>1, <2>3, PopIs
    <2>7. Len(Plain(Moved(ns, tok))) \in Nat
        BY <2>5, KeptGood, PlainNames
    <2>8. Spent(ns, tok) \in Int
        BY <1>2 DEF Spent
    <2> QED BY <1>2, <1>3, <2>4, <2>5, <2>6, <2>7, <2>8
<1>7. CASE tok # <<>> /\ tok # <<".">> /\ tok # <<".", ".">>
    <2>1. tok \in Good
        BY <1>1, <1>7 DEF Good
    <2>2. Moved(ns, tok) = Append(ns, tok)
        BY <1>7 DEF Moved, Go
    <2>3. Component(Plain(ns), tok) = push_component(Plain(ns), tok)
        BY <1>2, <1>7 DEF Component
    <2>4. Moved(ns, tok) \in Seq(Kept)
        BY <1>7, <2>1, GoKept DEF Moved
    <2>5. /\ push_component(Plain(ns), tok) = Plain(Append(ns, tok))
          /\ Len(Plain(Append(ns, tok))) = Spent(ns, tok)
        BY <1>1, <2>1, PushIs DEF Spent
    <2>6. Len(Plain(Moved(ns, tok))) \in Nat
        BY <2>4, KeptGood, PlainNames
    <2> QED BY <2>2, <2>3, <2>4, <2>5, <2>6
<1> QED BY <1>4, <1>5, <1>6, <1>7

\* What the scan of the beginning s of a path has come to.
Reached(s, ns, tok) ==
    /\ Scan[s] = [norm |-> Plain(ns), token |-> tok]
    /\ NoSlash(tok) /\ (tok = <<>> <=> Last(s) = "/")
    /\ Spent(ns, tok) <= Len(s)
    /\ Names[s] \in Seq(Short) =>
         IF tok = <<>> THEN ns = Walk(<<>>, Names[s])
         ELSE Names[s] # <<>> /\ Last(Names[s]) = tok /\ ns = Walk(<<>>, Front(Names[s]))

LEMMA AppendIn ==
    ASSUME NEW C, NEW D, NEW a \in Seq(D), NEW x \in D, Append(a, x) \in Seq(C)
    PROVE  a \in Seq(C) /\ x \in C
<1>1. Front(Append(a, x)) = a /\ Last(Append(a, x)) = x /\ Append(a, x) # <<>>
    BY AppendFacts
<1>2. PICK b \in Seq(C) : b = Append(a, x)
    OBVIOUS
<1>3. Front(b) \in Seq(C) /\ Last(b) \in C
    BY <1>1, <1>2, FrontLast
<1> QED BY <1>1, <1>2, <1>3

LEMMA ReachedFirst == Reached(Append(<<>>, "/"), <<>>, <<>>)
<1>1. <<>> \in CStr /\ "/" \in Char /\ <<>> \in Seq(CStr) /\ <<>> \in Seq(Good)
    BY JoinType, Slash
<1>2. PICK e \in CStr : e = <<>>
    BY <1>1
<1>3. Scan[Append(e, "/")] = Character(Scan[e], "/") /\ Scan[e] = [norm |-> Root, token |-> <<>>]
    BY <1>1, <1>2, ScanIs
<1>4. Component(Root, <<>>) = Root
    BY DEF Component
<1>5. Character([norm |-> Root, token |-> <<>>], "/") = [norm |-> Root, token |-> <<>>]
    BY <1>4 DEF Character
<1>6. Plain(<<>>) = Root /\ Len(Root) = 1 /\ Names[Root] = <<>> /\ Root = Append(<<>>, "/")
    BY RootFacts DEF Plain
<1>7. Last(Append(e, "/")) = "/"
    BY <1>1, AppendFacts DEF CStr
<1>8. NoSlash(<<>>) /\ Spent(<<>>, <<>>) = 1
    BY <1>6 DEF NoSlash, Spent
<1>9. Walk(<<>>, <<>>) = <<>>
    BY <1>1, WalkIs
<1> QED BY <1>2, <1>3, <1>5, <1>6, <1>7, <1>8, <1>9 DEF Reached

LEMMA ReachedSlash ==
    ASSUME NEW s \in CStr, NEW ns \in Seq(Kept), NEW tok \in Short,
           Reached(s, ns, tok), Len(s) < FS_PATH_MAX
    PROVE  Reached(Append(s, "/"), Moved(ns, tok), <<>>) /\ Moved(ns, tok) \in Seq(Kept)
<1>1. Len(s) \in Nat /\ FS_PATH_MAX \in Nat /\ "/" \in Char
    BY TextLen, Limits, Slash
<1>2. Spent(ns, tok) \in Nat /\ Spent(ns, tok) <= Len(s)
    <2>1. Len(Plain(ns)) \in Nat /\ Len(tok) \in Nat
        BY KeptGood, PlainNames, TextLen DEF Short
    <2> QED BY <2>1 DEF Spent, Reached
<1>3. Spent(ns, tok) < FS_PATH_MAX
    BY <1>1, <1>2
<1>4. PICK m \in Seq(Kept) : /\ m = Moved(ns, tok) /\ Component(Plain(ns), tok) = Plain(m)
                             /\ Len(Plain(m)) \in Nat /\ Len(Plain(m)) <= Spent(ns, tok)
    BY <1>3, ComponentIs DEF Reached
<1>5. Scan[Append(s, "/")] = [norm |-> Plain(m), token |-> <<>>]
    <2>1. Scan[Append(s, "/")] = Character(Scan[s], "/")
        BY <1>1, ScanIs
    <2>2. Scan[s] = [norm |-> Plain(ns), token |-> tok]
        BY DEF Reached
    <2> QED BY <1>4, <2>1, <2>2 DEF Character
<1>6. Last(Append(s, "/")) = "/" /\ Len(Append(s, "/")) = Len(s) + 1
    BY <1>1, AppendFacts DEF CStr
<1>7. NoSlash(<<>>) /\ Spent(m, <<>>) <= Len(s) + 1
    BY <1>1, <1>2, <1>4 DEF NoSlash, Spent
<1>8. Names[Append(s, "/")] = Names[s]
    BY <1>1, NamesStep
<1>9. ASSUME Names[s] \in Seq(Short) PROVE m = Walk(<<>>, Names[s])
    <2>1. CASE tok = <<>>
        BY <1>4, <1>9, <2>1 DEF Reached, Moved
    <2>2. CASE tok # <<>>
        <3>1. Names[s] # <<>> /\ Last(Names[s]) = tok /\ ns = Walk(<<>>, Front(Names[s]))
            BY <1>9, <2>2 DEF Reached
        <3>2. PICK f \in Seq(CStr), l \in CStr :
                  Names[s] = Append(f, l) /\ f = Front(Names[s]) /\ l = Last(Names[s])
            BY <3>1, NamesIs, FrontLast
        <3>3. PICK e \in Seq(CStr) : e = <<>>
            BY EmptyList
        <3>4. Walk(e, Append(f, l)) = Go(Walk(e, f), l)
            BY WalkIs
        <3> QED BY <1>4, <2>2, <3>1, <3>2, <3>3, <3>4 DEF Moved
    <2> QED BY <2>1, <2>2
<1> QED BY <1>4, <1>5, <1>6, <1>7, <1>8, <1>9 DEF Reached

LEMMA ReachedCharacter ==
    ASSUME NEW s \in CStr, NEW c \in Char, NEW ns \in Seq(Kept), NEW tok \in Short,
           Reached(s, ns, tok), c # "/", s # <<>>
    PROVE  \E t \in Short : Reached(Append(s, c), ns, t)
<1>1. tok \in CStr /\ Len(tok) \in Nat /\ Len(s) \in Nat /\ Len(Plain(ns)) \in Nat
    BY TextLen, KeptGood, PlainNames DEF Short
<1>2. PICK x \in CStr : x = Append(tok, c) /\ x # <<>> /\ NoSlash(x) /\ Len(x) = Len(tok) + 1
    <2>1. Len(Append(tok, c)) = Len(tok) + 1
        BY <1>1, AppendFacts DEF CStr
    <2>2. Append(tok, c) \in CStr /\ Append(tok, c) # <<>> /\ NoSlash(Append(tok, c))
        BY <1>1, NoSlashAppend DEF Reached
    <2> QED BY <2>1, <2>2
<1>3. PICK t \in CStr : /\ t = strcpy_s(FS_NAME_MAX, x) /\ Len(t) < FS_NAME_MAX /\ t # <<>>
                        /\ Len(t) <= Len(x) /\ (Len(x) < FS_NAME_MAX => t = x)
                        /\ \A i \in 1 .. Len(t) : t[i] = x[i]
    BY <1>2, CopyIs, Limits
<1>4. t \in Short /\ Len(t) \in Nat
    BY <1>3, TextLen DEF Short
<1>5. NoSlash(t)
    <2>1. \A i \in 1 .. Len(t) : i \in 1 .. Len(x)
        BY <1>1, <1>2, <1>3, <1>4
    <2>2. \A i \in 1 .. Len(x) : x[i] # "/"
        BY <1>2 DEF NoSlash
    <2>3. \A i \in 1 .. Len(t) : t[i] = x[i]
        BY <1>3
    <2>4. \A i \in 1 .. Len(t) : t[i] # "/"
        BY <2>1, <2>2, <2>3
    <2> QED BY <2>4 DEF NoSlash
<1>6. Scan[Append(s, c)] = [norm |-> Plain(ns), token |-> t]
    <2>1. Scan[Append(s, c)] = Character(Scan[s], c)
        BY ScanIs
    <2>2. Scan[s] = [norm |-> Plain(ns), token |-> tok]
        BY DEF Reached
    <2>3. Character(Scan[s], c) = [Scan[s] EXCEPT !.token = t]
        BY <1>2, <1>3, <2>2 DEF Character
    <2> QED BY <2>1, <2>2, <2>3
<1>7. Last(Append(s, c)) = c /\ Len(Append(s, c)) = Len(s) + 1
    BY AppendFacts DEF CStr
<1>8. Spent(ns, t) <= Len(s) + 1
    BY <1>1, <1>2, <1>3, <1>4 DEF Spent, Reached
<1>9. ASSUME Names[Append(s, c)] \in Seq(Short)
      PROVE  /\ Names[Append(s, c)] # <<>> /\ Last(Names[Append(s, c)]) = t
             /\ ns = Walk(<<>>, Front(Names[Append(s, c)]))
    <2>1. PICK N \in Seq(CStr) : N = Names[s]
        BY NamesIs
    <2>2. CASE tok = <<>>
        <3>1. Last(s) = "/"
            BY <2>2 DEF Reached
        <3>2. PICK n \in CStr : n = <<c>> /\ Names[Append(s, c)] = Append(N, n)
            <4>1. <<c>> \in CStr
                BY DEF CStr
            <4>2. Names[Append(s, c)] = Append(Names[s], <<c>>)
                BY <3>1, NamesStep
            <4> QED BY <2>1, <4>1, <4>2
        <3>3. N \in Seq(Short)
            BY <1>9, <3>2, AppendIn
        <3>4. ns = Walk(<<>>, N)
            BY <2>1, <2>2, <3>3 DEF Reached
        <3>5. t = n
            <4>1. x = <<c>> /\ Len(x) = 1
                BY <1>2, <2>2
            <4> QED BY <1>3, <3>2, <4>1, Limits
        <3>6. Last(Append(N, n)) = n /\ Front(Append(N, n)) = N /\ Append(N, n) # <<>>
            BY AppendFacts
        <3> QED BY <3>2, <3>4, <3>5, <3>6
    <2>3. CASE tok # <<>>
        <3>1. Last(s) # "/"
            BY <2>3 DEF Reached
        <3>2. N # <<>>
            BY <2>1, <3>1, NamesGood
        <3>3. PICK f \in Seq(CStr), l \in CStr : N = Append(f, l) /\ f = Front(N) /\ l = Last(N)
            BY <3>2, FrontLast
        <3>4. PICK m \in CStr : m = Append(l, c) /\ Len(m) = Len(l) + 1
            <4>1. Append(l, c) \in CStr /\ Len(Append(l, c)) = Len(l) + 1
                BY AppendFacts DEF CStr
            <4> QED BY <4>1
        <3>5. Names[Append(s, c)] = Append(f, m)
            <4>1. Names[Append(s, c)] = Append(Front(Names[s]), Append(Last(Names[s]), c))
                BY <2>1, <3>1, <3>2, NamesStep
            <4> QED BY <2>1, <3>3, <3>4, <4>1
        <3>6. f \in Seq(Short) /\ m \in Short
            BY <1>9, <3>5, AppendIn
        <3>7. l \in Short
            <4>1. Len(l) \in Nat /\ Len(m) < FS_NAME_MAX
                BY <3>6, TextLen DEF Short
            <4> QED BY <3>4, <4>1, Limits DEF Short
        <3>8. N \in Seq(Short)
            BY <3>3, <3>6, <3>7, AppendFacts
        <3>9. l = tok /\ ns = Walk(<<>>, f)
            BY <2>1, <2>3, <3>3, <3>8 DEF Reached
        <3>10. t = m
            <4>1. x = m
                BY <1>2, <3>4, <3>9
            <4> QED BY <1>3, <3>6, <4>1 DEF Short
        <3>11. Last(Append(f, m)) = m /\ Front(Append(f, m)) = f /\ Append(f, m) # <<>>
            BY AppendFacts
        <3> QED BY <3>5, <3>9, <3>10, <3>11
    <2> QED BY <2>2, <2>3
<1>10. Reached(Append(s, c), ns, t)
    BY <1>3, <1>5, <1>6, <1>7, <1>8, <1>9 DEF Reached
<1> QED BY <1>4, <1>10

LEMMA ScanReaches ==
    ASSUME NEW s \in Rooted, Len(s) < FS_PATH_MAX
    PROVE  \E ns \in Seq(Kept) : \E tok \in Short : Reached(s, ns, tok)
<1> DEFINE Some(u) == \E ns \in Seq(Kept) : \E tok \in Short : Reached(u, ns, tok)
           T == {u \in CStr : u \in Rooted /\ Len(u) < FS_PATH_MAX => Some(u)}
<1>1. <<>> \in T
    BY JoinType DEF Rooted
<1>2. ASSUME NEW u \in CStr, NEW c \in Char, u \in T PROVE Append(u, c) \in T
    <2>1. /\ Append(u, c) \in CStr /\ Len(Append(u, c)) = Len(u) + 1 /\ Len(u) \in Nat
          /\ \A i \in 1 .. Len(u) : Append(u, c)[i] = u[i]
        BY AppendFacts, TextLen DEF CStr
    <2> SUFFICES ASSUME Append(u, c) \in Rooted, Len(u) + 1 < FS_PATH_MAX PROVE Some(Append(u, c))
        BY <2>1
    <2>2. CASE u = <<>>
        <3>1. Append(u, c)[1] = c /\ Append(u, c)[1] = "/"
            BY <2>2 DEF Rooted
        <3>2. <<>> \in Seq(Kept) /\ <<>> \in Short
            BY JoinType, Limits DEF Short
        <3>3. Reached(Append(u, c), <<>>, <<>>)
            BY <2>2, <3>1, ReachedFirst
        <3> QED BY <3>2, <3>3
    <2>3. CASE u # <<>>
        <3>1. u \in Rooted /\ Len(u) < FS_PATH_MAX
            <4>1. 1 \in 1 .. Len(u)
                BY <2>3, NotEmpty
            <4>2. Append(u, c)[1] = "/"
                BY DEF Rooted
            <4>3. u[1] = "/"
                BY <2>1, <4>1, <4>2
            <4> QED BY <2>1, <2>3, <4>3, Limits DEF Rooted
        <3>2. PICK ns \in Seq(Kept), tok \in Short : Reached(u, ns, tok)
            BY <1>2, <3>1
        <3>3. CASE c = "/"
            <4>1. <<>> \in Short
                BY JoinType, Limits DEF Short
            <4> QED BY <3>1, <3>2, <3>3, <4>1, ReachedSlash
        <3>4. CASE c # "/"
            BY <2>3, <3>2, <3>4, ReachedCharacter
        <3> QED BY <3>3, <3>4
    <2> QED BY <2>2, <2>3
<1>3. CStr \subseteq T
    <2> HIDE DEF T
    <2> QED BY <1>1, <1>2, SeqInduction DEF CStr
<1>4. s \in T
    BY <1>3 DEF Rooted
<1> QED BY <1>4

LEMMA ScanResolves ==
    ASSUME NEW s \in Rooted, Len(s) < FS_PATH_MAX
    PROVE  \E r \in Seq(Kept) : /\ Component(Scan[s].norm, Scan[s].token) = Plain(r)
                                /\ Len(Plain(r)) \in Nat /\ Len(Plain(r)) < FS_PATH_MAX
                                /\ Names[s] \in Seq(Short) => r = Walk(<<>>, Names[s])
<1>1. PICK ns \in Seq(Kept), tok \in Short : Reached(s, ns, tok)
    BY ScanReaches
<1>2. s \in CStr /\ Len(s) \in Nat
    BY TextLen DEF Rooted
<1>3. Scan[s].norm = Plain(ns) /\ Scan[s].token = tok
    BY <1>1 DEF Reached
<1>4. Spent(ns, tok) \in Nat /\ Spent(ns, tok) < FS_PATH_MAX
    <2>1. Len(Plain(ns)) \in Nat /\ Len(tok) \in Nat
        BY KeptGood, PlainNames, TextLen DEF Short
    <2>2. Spent(ns, tok) \in Nat /\ Spent(ns, tok) <= Len(s)
        BY <1>1, <2>1 DEF Spent, Reached
    <2> QED BY <1>2, <2>2, Limits
<1>5. PICK r \in Seq(Kept) : /\ r = Moved(ns, tok) /\ Component(Plain(ns), tok) = Plain(r)
                             /\ Len(Plain(r)) \in Nat /\ Len(Plain(r)) <= Spent(ns, tok)
    BY <1>1, <1>4, ComponentIs DEF Reached
<1>6. Names[s] \in Seq(Short) => r = Walk(<<>>, Names[s])
    <2>1. Names[Append(s, "/")] = Names[s]
        BY <1>2, NamesStep, Slash
    <2>2. Reached(Append(s, "/"), r, <<>>)
        BY <1>1, <1>2, <1>5, ReachedSlash
    <2> QED BY <2>1, <2>2 DEF Reached
<1>7. Len(Plain(r)) < FS_PATH_MAX
    BY <1>4, <1>5, Limits
<1> QED BY <1>3, <1>5, <1>6, <1>7

-----------------------------------------------------------------------------
(* From the working directory and the argument to the absolute path.       *)

LEMMA CopyRooted ==
    ASSUME NEW s \in Rooted
    PROVE  /\ strcpy_s(FS_PATH_MAX, s) \in Rooted
           /\ Len(strcpy_s(FS_PATH_MAX, s)) < FS_PATH_MAX
           /\ Len(s) < FS_PATH_MAX => strcpy_s(FS_PATH_MAX, s) = s
<1>1. s \in CStr /\ s # <<>> /\ s[1] = "/"
    BY DEF Rooted
<1>2. PICK t \in CStr : /\ t = strcpy_s(FS_PATH_MAX, s) /\ t # <<>> /\ Len(t) < FS_PATH_MAX
                        /\ \A i \in 1 .. Len(t) : t[i] = s[i]
                        /\ Len(s) < FS_PATH_MAX => t = s
    BY <1>1, CopyIs, Limits
<1>3. t[1] = "/"
    <2>1. 1 \in 1 .. Len(t)
        BY <1>2, NotEmpty
    <2> QED BY <1>1, <1>2, <2>1
<1> QED BY <1>2, <1>3 DEF Rooted

LEMMA RootedLonger ==
    ASSUME NEW s \in Rooted, NEW t \in CStr
    PROVE  s \o t \in Rooted /\ Len(s \o t) = Len(s) + Len(t) /\ Len(s) \in Nat /\ Len(t) \in Nat
<1>1. s \in CStr /\ s # <<>> /\ s[1] = "/"
    BY DEF Rooted
<1>2. 1 \in 1 .. Len(s)
    BY <1>1, NotEmpty
<1>3. PICK u \in CStr : /\ u = s \o t /\ Len(u) = Len(s) + Len(t) /\ Len(s) \in Nat /\ Len(t) \in Nat
                        /\ \A i \in 1 .. Len(s) : u[i] = s[i]
    <2>1. s \in Seq(Char) /\ t \in Seq(Char)
        BY <1>1 DEF CStr
    <2>2. /\ s \o t \in Seq(Char) /\ Len(s \o t) = Len(s) + Len(t) /\ Len(s) \in Nat /\ Len(t) \in Nat
          /\ \A i \in 1 .. Len(s) : (s \o t)[i] = s[i]
        BY <2>1, Longer
    <2> QED BY <2>2 DEF CStr
<1>4. u[1] = "/"
    BY <1>1, <1>2, <1>3
<1>5. u # <<>>
    BY <1>2, <1>3, TextLen
<1> QED BY <1>3, <1>4, <1>5 DEF Rooted

\* Names that fit are short.
LEMMA FitsShort ==
    ASSUME NEW cwd, NEW arg \in CStr, Fits(cwd, arg)
    PROVE  Names[arg] \in Seq(Short)
<1>1. PICK N \in Seq(CStr) : N = Names[arg]
    BY NamesIs
<1>2. \A i \in 1 .. Len(N) : Len(N[i]) < FS_NAME_MAX
    <2>1. DOMAIN N = 1 .. Len(N)
        BY LenProperties
    <2> QED BY <1>1, <2>1 DEF Fits
<1>3. \A i \in 1 .. Len(N) : N[i] \in Short
    BY <1>2, ElementOfSeq DEF Short
<1>4. N \in Seq(Short)
    BY <1>3
<1> QED BY <1>1, <1>4

LEMMA AbsoluteIs ==
    ASSUME NEW w \in Seq(Kept), Len(Plain(w)) < FS_PATH_MAX, NEW arg \in CStr, arg # <<>>
    PROVE  /\ Absolute(Plain(w), arg) \in Rooted
           /\ Len(Absolute(Plain(w), arg)) < FS_PATH_MAX
           /\ Fits(Plain(w), arg) =>
                /\ Names[Absolute(Plain(w), arg)] \in Seq(Short)
                /\ Walk(<<>>, Names[Absolute(Plain(w), arg)]) = Meant(Plain(w), arg)
<1>1. PICK cwd \in Rooted : /\ cwd = Plain(w) /\ Names[cwd] = w /\ (cwd = Root <=> w = <<>>)
                            /\ Len(cwd) < FS_PATH_MAX
    <2>1. /\ Plain(w) \in Rooted /\ Names[Plain(w)] = w
          /\ (w # <<>> <=> Len(Plain(w)) > 1)
        BY KeptGood, PlainNames
    <2>2. w = <<>> => Plain(w) = Root
        BY DEF Plain
    <2> QED BY <2>1, <2>2, RootFacts
<1>2. strcpy_s(FS_PATH_MAX, cwd) = cwd /\ cwd \in CStr
    BY <1>1, CopyRooted DEF Rooted
<1>3. PICK N \in Seq(CStr) : N = Names[arg] /\ (Fits(cwd, arg) => N \in Seq(Short))
    BY NamesIs, FitsShort
<1>4. Len(arg) \in Nat /\ Head(arg) = arg[1]
    BY TextLen
<1>5. CASE Head(arg) = "/"
    <2>1. arg \in Rooted
        BY <1>4, <1>5 DEF Rooted
    <2>2. Absolute(cwd, arg) = strcpy_s(FS_PATH_MAX, arg)
        BY <1>5 DEF Absolute
    <2>3. Fits(cwd, arg) => Len(arg) < FS_PATH_MAX
        BY <1>4, <1>5 DEF Fits
    <2>4. Meant(cwd, arg) = Walk(<<>>, Names[arg])
        BY <1>5 DEF Meant
    <2> QED BY <1>1, <1>3, <2>1, <2>2, <2>3, <2>4, CopyRooted
<1>6. CASE Head(arg) # "/" /\ cwd = Root
    <2>1. PICK a \in Rooted : a = Root \o arg /\ Len(a) = 1 + Len(arg)
        BY RootFacts, RootedLonger
    <2>2. Absolute(cwd, arg) = strcpy_s(FS_PATH_MAX, a)
        BY <1>2, <1>6, <2>1 DEF Absolute, strcat_s
    <2>3. Names[a] = N
        <3>1. PICK e \in CStr : e = <<>>
            BY JoinType
        <3>2. Names[e \o <<"/">> \o arg] = Names[e] \o Names[arg]
            BY NamesConcat
        <3>3. <<>> \o <<"/">> = <<"/">>
            OBVIOUS
        <3>4. Names[e] = <<>>
            BY <3>1, NamesIs
        <3>5. <<>> \o N = N
            BY Longer
        <3>6. e \o <<"/">> \o arg = a
            BY <2>1, <3>1, <3>3 DEF Root
        <3> QED BY <1>3, <3>2, <3>4, <3>5, <3>6
    <2>4. Fits(cwd, arg) => Len(a) < FS_PATH_MAX
        BY <1>4, <1>6, <2>1 DEF Fits
    <2>5. Meant(cwd, arg) = Walk(<<>>, N)
        BY <1>1, <1>3, <1>6 DEF Meant
    <2> QED BY <1>1, <1>3, <2>1, <2>2, <2>3, <2>4, <2>5, CopyRooted
<1>7. CASE Head(arg) # "/" /\ cwd # Root
    <2>0. <<"/">> \in CStr /\ Len(<<"/">>) = 1
        BY Slash DEF CStr
    <2>1. PICK x \in Rooted : x = cwd \o <<"/">> /\ Len(x) = Len(cwd) + 1 /\ Len(cwd) \in Nat
        BY <2>0, RootedLonger
    <2>2. PICK y \in Rooted : y = strcpy_s(FS_PATH_MAX, x) /\ (Len(x) < FS_PATH_MAX => y = x)
        BY CopyRooted
    <2>3. PICK a \in Rooted : a = y \o arg /\ Len(a) = Len(y) + Len(arg)
        BY RootedLonger
    <2>4. Absolute(cwd, arg) = strcpy_s(FS_PATH_MAX, a)
        BY <1>2, <1>7, <2>1, <2>2, <2>3 DEF Absolute, strcat_s
    <2>5. Meant(cwd, arg) = Walk(w, N)
        BY <1>1, <1>3, <1>7 DEF Meant
    <2>6. ASSUME Fits(cwd, arg)
          PROVE  /\ Len(a) < FS_PATH_MAX /\ Names[a] \in Seq(Short) /\ Walk(<<>>, Names[a]) = Walk(w, N)
        <3>1. Len(arg) + (Len(cwd) + 1) < FS_PATH_MAX
            BY <1>7, <2>6 DEF Fits
        <3>2. y = x /\ Len(a) < FS_PATH_MAX
            <4>1. Len(x) < FS_PATH_MAX
                BY <1>4, <2>1, <3>1, Limits
            <4>2. y = x
                BY <2>2, <4>1
            <4> QED BY <1>4, <2>1, <2>3, <3>1, <4>2, Limits
        <3>3. Names[a] = w \o N
            <4>1. Names[cwd \o <<"/">> \o arg] = Names[cwd] \o Names[arg]
                BY <1>2, NamesConcat
            <4> QED BY <1>1, <1>3, <2>1, <2>3, <3>2, <4>1
        <3>4. w \in Seq(Short) /\ w \in Seq(CStr) /\ N \in Seq(Short)
            BY <1>3, <2>6, KeptGood
        <3>5. w \o N \in Seq(Short)
            BY <3>4, Longer
        <3>6. PICK e \in Seq(CStr) : e = <<>>
            BY EmptyList
        <3>7. Walk(e, w \o N) = Walk(Walk(e, w), N)
            BY <3>4, WalkConcat
        <3>8. Walk(e, w) = w
            BY <3>6, WalkKept
        <3> QED BY <3>2, <3>3, <3>5, <3>6, <3>7, <3>8
    <2> QED BY <1>1, <2>3, <2>4, <2>5, <2>6, CopyRooted
<1> QED BY <1>5, <1>6, <1>7

LEMMA ResolveIs ==
    ASSUME NEW w \in Seq(Kept), Len(Plain(w)) < FS_PATH_MAX, NEW arg \in CStr, arg # <<>>
    PROVE  \E r \in Seq(Kept) : /\ user_path_resolve(Plain(w), arg) = Plain(r)
                                /\ Len(Plain(r)) < FS_PATH_MAX
                                /\ Fits(Plain(w), arg) => Meant(Plain(w), arg) = r
<1>1. PICK a \in Rooted : /\ a = Absolute(Plain(w), arg) /\ Len(a) < FS_PATH_MAX
                          /\ Fits(Plain(w), arg) => /\ Names[a] \in Seq(Short)
                                                    /\ Walk(<<>>, Names[a]) = Meant(Plain(w), arg)
    BY AbsoluteIs
<1>2. PICK r \in Seq(Kept) : /\ Component(Scan[a].norm, Scan[a].token) = Plain(r)
                             /\ Len(Plain(r)) \in Nat /\ Len(Plain(r)) < FS_PATH_MAX
                             /\ Names[a] \in Seq(Short) => r = Walk(<<>>, Names[a])
    BY <1>1, ScanResolves
<1>3. user_path_resolve(Plain(w), arg) = Plain(r)
    BY <1>1, <1>2 DEF user_path_resolve
<1> QED BY <1>1, <1>2, <1>3

-----------------------------------------------------------------------------
(* The session.                                                            *)

\* The working directory, and what was resolved last, are plain paths of names
\* that were kept; the last one has the names it was meant to have if it fits.
PathInv ==
    /\ IsFiniteSet(dirs) /\ Cardinality(dirs) <= DirsMax
    /\ \E w \in Seq(Kept) : cwd_path = Plain(w) /\ Len(Plain(w)) < FS_PATH_MAX
    /\ \E r \in Seq(Kept) : last.got = Plain(r) /\ (last.fits => last.meant = r)

LEMMA PathInitInv == PathInit => PathInv
<1> SUFFICES ASSUME PathInit PROVE PathInv
    OBVIOUS
<1>1. Plain(<<>>) = Root /\ Len(Root) = 1 /\ <<>> \in Seq(Kept)
    BY RootFacts, EmptyList DEF Plain
<1>2. IsFiniteSet({Root}) /\ Cardinality({Root}) = 1
    BY FS_Singleton
<1>3. IsFiniteSet(dirs) /\ Cardinality(dirs) <= DirsMax
    BY <1>2, Limits DEF PathInit
<1>4. cwd_path = Plain(<<>>) /\ Len(Plain(<<>>)) < FS_PATH_MAX
    BY <1>1, Limits DEF PathInit
<1>5. last.got = Plain(<<>>) /\ last.meant = <<>>
    BY <1>1 DEF PathInit
<1> QED BY <1>1, <1>3, <1>4, <1>5 DEF PathInv

LEMMA PathStepInv == PathInv /\ [PathNext]_pathVars => PathInv'
<1> SUFFICES ASSUME PathInv, [PathNext]_pathVars PROVE PathInv'
    OBVIOUS
<1>1. CASE UNCHANGED pathVars
    BY <1>1 DEF PathInv, pathVars
<1>2. ASSUME NEW arg \in Args, chdir(arg) \/ mkdir(arg) \/ rmdir(arg) PROVE PathInv'
    <2>1. arg \in CStr /\ arg # <<>>
        BY ArgsAssumption
    <2>2. PICK w \in Seq(Kept) : cwd_path = Plain(w) /\ Len(Plain(w)) < FS_PATH_MAX
        BY DEF PathInv
    <2>3. PICK r \in Seq(Kept) : /\ Resolved(arg) = Plain(r) /\ Len(Plain(r)) < FS_PATH_MAX
                                 /\ Fits(cwd_path, arg) => Meant(cwd_path, arg) = r
        BY <2>1, <2>2, ResolveIs DEF Resolved
    <2>4. last'.got = Plain(r) /\ (last'.fits => last'.meant = r)
        <3>1. Record(arg)
            BY <1>2 DEF chdir, mkdir, rmdir
        <3> QED BY <2>3, <3>1 DEF Record
    <2>5. \E v \in Seq(Kept) : cwd_path' = Plain(v) /\ Len(Plain(v)) < FS_PATH_MAX
        <3>1. Plain(r) \in Rooted
            BY KeptGood, PlainNames
        <3>2. strcpy_s(FS_PATH_MAX, Plain(r)) = Plain(r)
            BY <2>3, <3>1, CopyRooted
        <3>3. cwd_path' = cwd_path \/ cwd_path' = Plain(r)
            BY <1>2, <2>3, <3>2 DEF chdir, mkdir, rmdir
        <3> QED BY <2>2, <2>3, <3>3
    <2>6. IsFiniteSet(dirs') /\ Cardinality(dirs') <= DirsMax
        <3>0. IsFiniteSet(dirs) /\ Cardinality(dirs) \in Nat /\ Cardinality(dirs) <= DirsMax
            BY FS_CardinalityType DEF PathInv
        <3>1. CASE dirs' = dirs
            BY <3>0, <3>1
        <3>2. ASSUME NEW d, Cardinality(dirs) < DirsMax, dirs' = dirs \cup {d}
              PROVE  IsFiniteSet(dirs') /\ Cardinality(dirs') <= DirsMax
            <4>1. IsFiniteSet(dirs \cup {d}) /\ (Cardinality(dirs \cup {d}) = Cardinality(dirs)
                     \/ Cardinality(dirs \cup {d}) = Cardinality(dirs) + 1)
                BY <3>0, FS_AddElement
            <4> QED BY <3>0, <3>2, <4>1, Limits
        <3>3. ASSUME NEW d, dirs' = dirs \ {d}
              PROVE  IsFiniteSet(dirs') /\ Cardinality(dirs') <= DirsMax
            <4>1. IsFiniteSet(dirs \ {d}) /\ (Cardinality(dirs \ {d}) = Cardinality(dirs)
                     \/ Cardinality(dirs \ {d}) = Cardinality(dirs) - 1)
                BY <3>0, FS_RemoveElement
            <4> QED BY <3>0, <3>3, <4>1, Limits
        <3>4. CASE chdir(arg)
            BY <3>1, <3>4 DEF chdir
        <3>5. CASE mkdir(arg)
            <4>1. dirs' = dirs \/ (Cardinality(dirs) < DirsMax /\ dirs' = dirs \cup {Resolved(arg)})
                BY <3>5 DEF mkdir
            <4> QED BY <3>1, <3>2, <4>1
        <3>6. CASE rmdir(arg)
            <4>1. dirs' = dirs \/ dirs' = dirs \ {Resolved(arg)}
                BY <3>6 DEF rmdir
            <4> QED BY <3>1, <3>3, <4>1
        <3> QED BY <1>2, <3>4, <3>5, <3>6
    <2> QED BY <2>4, <2>5, <2>6 DEF PathInv
<1> QED BY <1>1, <1>2 DEF PathNext

LEMMA PathInvImplies == PathInv => PathsLeadRight
<1> SUFFICES ASSUME PathInv PROVE PathsLeadRight
    OBVIOUS
<1>1. PICK w \in Seq(Kept) : cwd_path = Plain(w) /\ Len(Plain(w)) < FS_PATH_MAX
    BY DEF PathInv
<1>2. PICK r \in Seq(Kept) : last.got = Plain(r) /\ (last.fits => last.meant = r)
    BY DEF PathInv
<1>3. Names[Plain(w)] = w /\ Len(Plain(w)) \in Nat \ {0}
    BY KeptGood, PlainNames
<1>4. Names[Plain(r)] = r /\ Plain(r) # Failed
    BY KeptGood, PlainNames
<1>5. PathTypeOK
    <2>1. Len(cwd_path) \in 1 .. FS_PATH_MAX - 1
        BY <1>1, <1>3, Limits
    <2>2. last.got # Failed
        BY <1>2, <1>4
    <2> QED BY <2>1, <2>2 DEF PathTypeOK, PathInv
<1>6. CwdCanonical
    BY <1>1, <1>3 DEF CwdCanonical
<1>7. ResolvesAsMeant
    BY <1>2, <1>4 DEF ResolvesAsMeant
<1> QED BY <1>5, <1>6, <1>7 DEF PathsLeadRight

\* The paths of a session lead where they say: after any cd, mkdir and rmdir, with
\* arguments of any length and any limits, the working directory is a plain path and
\* user_path_resolve leads where the names of a fitting argument lead.
THEOREM PathsSafe == PathSpec => []PathsLeadRight
<1> QED BY PathInitInv, PathStepInv, PathInvImplies, PTL DEF PathSpec

-----------------------------------------------------------------------------
(* The command history, for any lines and sizes.                           *)

HistoryLine == {l \in HistoryText : Len(l) < CMDLINE_MAX}
HistoryEntry == {l \in HistoryLine : l # <<>>}

\* Rings whose lines are not empty; Fresh is what a load begins with.
RingSet == [lines : [HistorySlots -> HistoryLine], head : HistorySlots, count : 0 .. HISTORY_MAX]
NoRing == [lines |-> NoHistory, head |-> 0, count |-> 0]
GoodRing == {r \in RingSet : Contents(r) \in Seq(HistoryEntry)}
Partial == [line : HistoryLine, escaped : BOOLEAN, ring : GoodRing]
Fresh == [line |-> <<>>, escaped |-> FALSE, ring |-> NoRing]

\* The file is as a shell with these lines saves it.
Holds(ls) ==
    ls \in Seq(HistoryEntry) /\ Len(ls) <= HISTORY_MAX /\ file = EncodedAll[Fitting(ls)]
Held(s) == [line |-> load[s].line, escaped |-> load[s].escaped, ring |-> Ring(s)]

HistoryTypes ==
    /\ phase \in [Shells -> {"off", "loading", "run", "saving"}]
    /\ history \in [Shells -> [HistorySlots -> HistoryLine]]
    /\ history_head \in [Shells -> HistorySlots]
    /\ history_count \in [Shells -> 0 .. HISTORY_MAX]
    /\ load \in [Shells -> [offset : Nat, line : HistoryLine, escaped : BOOLEAN]]
    /\ file \in HistoryText /\ Len(file) <= FS_FILE_MAX_SIZE
    /\ DOMAIN source = Shells /\ DOMAIN remembered = Shells /\ mixed \in BOOLEAN
    /\ \A s \in Shells : Ring(s) \in GoodRing

\* What a shell holds in each phase: nothing before it loads, what it decoded of
\* a file nobody touched while it loads, the lines it should have afterwards.
ShellHolds(s) ==
    /\ phase[s] = "off" => Ring(s) = NoRing
    /\ phase[s] # "loading" => load[s] = NoLoad
    /\ phase[s] \in {"run", "saving"} => Contents(Ring(s)) = remembered[s]
    /\ phase[s] = "loading" /\ source[s] # Unknown =>
          /\ Holds(source[s]) /\ load[s].offset <= Len(file)
          /\ Held(s) = Decode(Fresh, SubSeq(file, 1, load[s].offset))

\* A shell that saves alone finds the file empty when it writes.
SavesAlone == ~mixed => \A s \in Saving : Saving = {s} /\ file = <<>>

HistoryInv ==
    /\ HistoryTypes
    /\ \A s \in Shells : ShellHolds(s)
    /\ saved # Unknown => Holds(saved)
    /\ SavesAlone

LEMMA HistoryLimits ==
    /\ CMDLINE_MAX \in Nat /\ CMDLINE_MAX > 1 /\ HISTORY_MAX \in Nat /\ HISTORY_MAX > 0
    /\ FS_FILE_MAX_SIZE \in Nat /\ BUF \in Nat /\ BUF > 0
    BY ShellLimitsAssumption, HistorySizes

LEMMA HistoryChars ==
    /\ Backslash \in HistoryChar /\ Newline \in HistoryChar /\ "n" \in HistoryChar
    /\ Backslash # Newline /\ Backslash # "n" /\ Newline # "n" /\ Return \notin HistoryChar
    /\ <<>> \in HistoryText /\ <<>> \in HistoryLine
<1>1. Backslash \in HistoryChar /\ Newline \in HistoryChar /\ "n" \in HistoryChar
    BY DEF HistoryChar
<1>2. Backslash # Newline /\ Backslash # "n" /\ Newline # "n"
    BY DEF Backslash, Newline
<1>3. <<>> \in HistoryText
    BY DEF HistoryText
<1>4. Len(<<>>) = 0
    OBVIOUS
<1> QED BY <1>1, <1>2, <1>3, <1>4, EnteredAssumption, HistoryLimits DEF HistoryLine

\* The places of a ring behind its head.
LEMMA RingPlaces ==
    ASSUME NEW M \in Nat \ {0}, NEW h \in 0 .. M - 1
    PROVE  /\ \A k \in 0 .. M : (h + k) % M = (IF h + k < M THEN h + k ELSE (h + k) - M)
           /\ \A k \in 0 .. M : (h + k) % M \in 0 .. M - 1
           /\ (h + 1) % M \in 0 .. M - 1
           /\ \A k \in 0 .. M - 1 : (((h + 1) % M) + k) % M = (h + (k + 1)) % M
<1>1. ASSUME NEW x \in 0 .. (2 * M) - 1
      PROVE  x % M = (IF x < M THEN x ELSE x - M) /\ x % M \in 0 .. M - 1
    <2>1. CASE x < M
        <3>1. x \in 0 .. M - 1
            BY <2>1
        <3> QED BY <2>1, <3>1
    <2>2. CASE x >= M
        <3>1. x \in M .. (2 * M) - 1
            BY <2>2
        <3> QED BY <2>2, <3>1
    <2> QED BY <2>1, <2>2
<1>2. ASSUME NEW k \in 0 .. M PROVE h + k \in 0 .. (2 * M) - 1
    OBVIOUS
<1>3. ASSUME NEW k \in 0 .. M
      PROVE  (h + k) % M = (IF h + k < M THEN h + k ELSE (h + k) - M) /\ (h + k) % M \in 0 .. M - 1
    BY <1>1, <1>2
<1>4. PICK g \in 0 .. M - 1 : g = (h + 1) % M /\ g = (IF h + 1 < M THEN h + 1 ELSE (h + 1) - M)
    <2>1. 1 \in 0 .. M
        OBVIOUS
    <2> QED BY <1>3, <2>1
<1>5. ASSUME NEW k \in 0 .. M - 1 PROVE (g + k) % M = (h + (k + 1)) % M
    <2>1. /\ g + k \in 0 .. (2 * M) - 1 /\ k + 1 \in 0 .. M /\ h + (k + 1) \in 0 .. (2 * M) - 1
        OBVIOUS
    <2>2. (g + k) % M = (IF g + k < M THEN g + k ELSE (g + k) - M)
        BY <1>1, <2>1
    <2>3. (h + (k + 1)) % M = (IF h + (k + 1) < M THEN h + (k + 1) ELSE (h + (k + 1)) - M)
        BY <1>1, <2>1
    <2> QED BY <1>4, <2>2, <2>3
<1> QED BY <1>3, <1>4, <1>5

LEMMA ContentsIs ==
    ASSUME NEW r \in RingSet
    PROVE  /\ Contents(r) \in Seq(HistoryLine) /\ Len(Contents(r)) = r.count
           /\ \A i \in 1 .. r.count : Contents(r)[i] = r.lines[(r.head + (i - 1)) % HISTORY_MAX]
<1>1. r.lines \in [HistorySlots -> HistoryLine] /\ r.head \in 0 .. HISTORY_MAX - 1
      /\ r.count \in 0 .. HISTORY_MAX
    BY DEF RingSet, HistorySlots
<1>2. ASSUME NEW i \in 1 .. r.count PROVE history_get(r, i - 1) \in HistoryLine
    <2>1. i - 1 \in 0 .. HISTORY_MAX
        BY <1>1, HistoryLimits
    <2>2. (r.head + (i - 1)) % HISTORY_MAX \in 0 .. HISTORY_MAX - 1
        BY <1>1, <2>1, RingPlaces, HistoryLimits
    <2> QED BY <1>1, <2>2 DEF history_get, HistorySlots
<1>3. Contents(r) \in Seq(HistoryLine) /\ Len(Contents(r)) = r.count
    <2> HIDE DEF history_get
    <2> QED BY <1>1, <1>2 DEF Contents
<1>4. \A i \in 1 .. r.count : Contents(r)[i] = r.lines[(r.head + (i - 1)) % HISTORY_MAX]
    BY DEF Contents, history_get
<1> QED BY <1>3, <1>4

LEMMA NoRingIs == NoRing \in GoodRing /\ Contents(NoRing) = <<>>
<1>1. NoRing \in RingSet /\ NoRing.count = 0
    BY HistoryLimits, HistoryChars DEF NoRing, RingSet, NoHistory, HistorySlots
<1>2. Contents(NoRing) \in Seq(HistoryLine) /\ Len(Contents(NoRing)) = 0
    BY <1>1, ContentsIs
<1>3. Contents(NoRing) = <<>>
    BY <1>2, EmptySeq
<1>4. <<>> \in Seq(HistoryEntry)
    BY EmptySeq
<1> QED BY <1>1, <1>3, <1>4 DEF GoodRing

LEMMA LastOfIs ==
    ASSUME NEW C, NEW ls \in Seq(C), NEW n \in Nat
    PROVE  /\ LastOf(ls, n) \in Seq(C)
           /\ Len(ls) <= n => LastOf(ls, n) = ls
           /\ Len(ls) = n + 1 => /\ Len(LastOf(ls, n)) = n
                                 /\ \A i \in 1 .. n : LastOf(ls, n)[i] = ls[i + 1]
<1>1. Len(ls) \in Nat
    BY LenProperties
<1>2. PICK k \in 1 .. Len(ls) + 1 : k = (IF Len(ls) > n THEN Len(ls) - n + 1 ELSE 1)
    <2>1. (IF Len(ls) > n THEN Len(ls) - n + 1 ELSE 1) \in 1 .. Len(ls) + 1
        BY <1>1
    <2> QED BY <2>1
<1>3. LastOf(ls, n) = SubSeq(ls, k, Len(ls))
    BY <1>2 DEF LastOf
<1>4. \A i \in k .. Len(ls) : ls[i] \in C
    BY <1>1, <1>2, ElementOfSeq
<1>5. SubSeq(ls, k, Len(ls)) \in Seq(C)
    BY <1>1, <1>2, <1>4, SubSeqProperties
<1>6. ASSUME Len(ls) <= n PROVE LastOf(ls, n) = ls
    <2>1. k = 1
        BY <1>1, <1>2, <1>6
    <2>2. SubSeq(ls, 1, Len(ls)) = ls
        BY SubSeqFull
    <2> QED BY <1>3, <2>1, <2>2
<1>7. ASSUME Len(ls) = n + 1
      PROVE  /\ Len(LastOf(ls, n)) = n
             /\ \A i \in 1 .. n : LastOf(ls, n)[i] = ls[i + 1]
    <2>1. k = 2
        BY <1>1, <1>2, <1>7
    <2>2. SubSeq(ls, 2, n + 1) = [i \in 1 .. n |-> ls[i + 1]]
        BY <1>7, <1>1
    <2> QED BY <1>3, <1>7, <2>1, <2>2
<1> QED BY <1>3, <1>5, <1>6, <1>7

\* A push makes the line the newest one, and the oldest one leaves a full ring.
LEMMA PushIntoRing ==
    ASSUME NEW r \in GoodRing, NEW line \in HistoryEntry
    PROVE  /\ history_push(r, line) \in GoodRing
           /\ Contents(history_push(r, line)) = LastOf(Append(Contents(r), line), HISTORY_MAX)
<1> DEFINE M == HISTORY_MAX
<1>1. /\ r \in RingSet /\ r.lines \in [0 .. M - 1 -> HistoryLine] /\ r.head \in 0 .. M - 1
      /\ r.count \in 0 .. M /\ M \in Nat \ {0} /\ line # <<>> /\ line \in HistoryLine
    BY HistoryLimits DEF GoodRing, RingSet, HistorySlots, HistoryEntry
<1>2. PICK h \in 0 .. M - 1, n \in 0 .. M, l \in [0 .. M - 1 -> HistoryLine] :
          h = r.head /\ n = r.count /\ l = r.lines
    BY <1>1
<1>3. PICK c \in Seq(HistoryEntry) : /\ c = Contents(r) /\ Len(c) = n
                                     /\ \A i \in 1 .. n : c[i] = l[(h + (i - 1)) % M]
    BY <1>1, <1>2, ContentsIs DEF GoodRing
<1>4. /\ \A k \in 0 .. M : (h + k) % M = (IF h + k < M THEN h + k ELSE (h + k) - M)
      /\ \A k \in 0 .. M : (h + k) % M \in 0 .. M - 1
      /\ (h + 1) % M \in 0 .. M - 1
      /\ \A k \in 0 .. M - 1 : (((h + 1) % M) + k) % M = (h + (k + 1)) % M
    BY <1>1, RingPlaces
<1>5. PICK a \in Seq(HistoryEntry) :
          /\ a = Append(c, line) /\ Len(a) = n + 1 /\ a[n + 1] = line
          /\ \A i \in 1 .. n : a[i] = c[i]
    <2>1. /\ Append(c, line) \in Seq(HistoryEntry) /\ Len(Append(c, line)) = Len(c) + 1
          /\ \A k \in 1 .. Len(c) : Append(c, line)[k] = c[k]
          /\ Append(c, line)[Len(c) + 1] = line
        BY AppendFacts
    <2> QED BY <1>3, <2>1
<1>6. ASSUME NEW q \in RingSet, q = history_push(r, line),
             NEW b \in Seq(HistoryEntry), b = LastOf(a, M), q.count = Len(b),
             \A i \in 1 .. Len(b) : q.lines[(q.head + (i - 1)) % M] = b[i]
      PROVE  q \in GoodRing /\ Contents(q) = b
    <2>1. /\ Contents(q) \in Seq(HistoryLine) /\ Len(Contents(q)) = Len(b)
          /\ \A i \in 1 .. Len(b) : Contents(q)[i] = b[i]
        BY <1>6, ContentsIs
    <2>2. b \in Seq(HistoryLine)
        BY SeqOfSubset DEF HistoryEntry
    <2>3. Contents(q) = b
        BY <2>1, <2>2, SeqEqual
    <2> QED BY <2>3 DEF GoodRing
<1>7. CASE n < M
    <2>1. PICK p \in 0 .. M - 1 : p = (h + n) % M
        BY <1>4, <1>1
    <2>2. PICK m : m = [l EXCEPT ![p] = line]
        OBVIOUS
    <2>3. /\ m \in [0 .. M - 1 -> HistoryLine] /\ m[p] = line
          /\ \A x \in 0 .. M - 1 : x # p => m[x] = l[x]
        BY <1>1, <2>2
    <2>4. PICK q : q = [lines |-> m, head |-> h, count |-> n + 1]
        OBVIOUS
    <2>5. q = history_push(r, line)
        <3>1. r = [lines |-> l, head |-> h, count |-> n]
            BY <1>1, <1>2 DEF RingSet
        <3>2. history_push(r, line) =
                  [r EXCEPT !.lines[(r.head + r.count) % HISTORY_MAX] = line, !.count = r.count + 1]
            BY <1>1, <1>2, <1>7 DEF history_push
        <3> QED BY <2>1, <2>2, <2>4, <3>1, <3>2
    <2>6. q \in RingSet
        BY <1>1, <1>7, <2>3, <2>4 DEF RingSet, HistorySlots
    <2>7. LastOf(a, M) = a
        <3>1. Len(a) <= M /\ M \in Nat
            BY <1>1, <1>5, <1>7
        <3> QED BY <3>1, LastOfIs
    <2>8. ASSUME NEW i \in 1 .. n + 1 PROVE m[(h + (i - 1)) % M] = a[i]
        <3>1. CASE i = n + 1
            BY <1>5, <2>1, <2>3, <3>1
        <3>2. CASE i # n + 1
            <4>1. i \in 1 .. n /\ i - 1 \in 0 .. M /\ n \in 0 .. M /\ i - 1 < n
                BY <1>1, <1>7, <3>2
            <4>2. /\ (h + (i - 1)) % M = (IF h + (i - 1) < M THEN h + (i - 1) ELSE (h + (i - 1)) - M)
                  /\ p = (IF h + n < M THEN h + n ELSE (h + n) - M)
                  /\ (h + (i - 1)) % M \in 0 .. M - 1
                BY <1>4, <2>1, <4>1
            <4>3. (h + (i - 1)) % M # p
                <5>1. PICK j \in 0 .. n - 1 : j = i - 1
                    BY <4>1
                <5>2. (IF h + j < M THEN h + j ELSE (h + j) - M) # (IF h + n < M THEN h + n ELSE (h + n) - M)
                    BY <1>1, <1>7
                <5> QED BY <4>2, <5>1, <5>2
            <4>4. m[(h + (i - 1)) % M] = l[(h + (i - 1)) % M]
                BY <2>3, <4>2, <4>3
            <4> QED BY <1>3, <1>5, <4>1, <4>4
        <3> QED BY <3>1, <3>2
    <2>9. q \in GoodRing /\ Contents(q) = a
        <3>1. q.count = Len(a) /\ q.head = h /\ q.lines = m
            BY <1>5, <2>4
        <3>2. \A i \in 1 .. Len(a) : q.lines[(q.head + (i - 1)) % M] = a[i]
            BY <1>5, <2>8, <3>1
        <3> QED BY <1>6, <2>5, <2>6, <2>7, <3>1, <3>2
    <2> QED BY <1>3, <1>5, <2>5, <2>7, <2>9
<1>8. CASE n = M
    <2>1. PICK m : m = [l EXCEPT ![h] = line]
        OBVIOUS
    <2>2. /\ m \in [0 .. M - 1 -> HistoryLine] /\ m[h] = line
          /\ \A x \in 0 .. M - 1 : x # h => m[x] = l[x]
        BY <1>1, <2>1
    <2>3. PICK g \in 0 .. M - 1 : g = (h + 1) % M
        BY <1>4
    <2>4. PICK q : q = [lines |-> m, head |-> g, count |-> M]
        OBVIOUS
    <2>5. q = history_push(r, line)
        <3>1. r = [lines |-> l, head |-> h, count |-> n]
            BY <1>1, <1>2 DEF RingSet
        <3>2. history_push(r, line) =
                  [r EXCEPT !.lines[r.head] = line, !.head = (r.head + 1) % HISTORY_MAX]
            BY <1>1, <1>2, <1>8 DEF history_push
        <3> QED BY <1>8, <2>1, <2>3, <2>4, <3>1, <3>2
    <2>6. q \in RingSet
        BY <1>1, <2>2, <2>3, <2>4 DEF RingSet, HistorySlots
    <2>7. PICK b \in Seq(HistoryEntry) : /\ b = LastOf(a, M) /\ Len(b) = M
                                         /\ \A i \in 1 .. M : b[i] = a[i + 1]
        <3>1. Len(a) = M + 1 /\ M \in Nat
            BY <1>1, <1>5, <1>8
        <3>2. /\ LastOf(a, M) \in Seq(HistoryEntry) /\ Len(LastOf(a, M)) = M
              /\ \A i \in 1 .. M : LastOf(a, M)[i] = a[i + 1]
            <4> HIDE DEF M
            <4> QED BY <3>1, LastOfIs
        <3> QED BY <3>2
    <2>8. ASSUME NEW i \in 1 .. M PROVE m[(g + (i - 1)) % M] = b[i]
        <3>1. i - 1 \in 0 .. M - 1 /\ (i - 1) + 1 = i /\ i \in 0 .. M
            BY <1>1
        <3>2. (g + (i - 1)) % M = (h + i) % M
            BY <1>4, <2>3, <3>1
        <3>3. /\ (h + i) % M = (IF h + i < M THEN h + i ELSE (h + i) - M)
              /\ (h + i) % M \in 0 .. M - 1
            BY <1>4, <3>1
        <3>4. CASE i = M
            <4>1. (h + i) % M = h
                BY <1>1, <3>3, <3>4
            <4> QED BY <1>5, <1>8, <2>2, <2>7, <3>2, <3>4, <4>1
        <3>5. CASE i # M
            <4>1. (h + i) % M # h /\ i + 1 \in 1 .. n /\ (i + 1) - 1 = i
                <5>1. i < M /\ i > 0
                    BY <1>1, <3>5
                <5>2. i + 1 \in 1 .. n /\ (i + 1) - 1 = i
                    BY <1>1, <1>8, <5>1
                <5>3. (IF h + i < M THEN h + i ELSE (h + i) - M) # h
                    BY <1>1, <5>1
                <5> QED BY <3>3, <5>2, <5>3
            <4>2. m[(h + i) % M] = l[(h + i) % M]
                BY <2>2, <3>3, <4>1
            <4>3. c[i + 1] = l[(h + i) % M]
                BY <1>3, <4>1
            <4>4. b[i] = c[i + 1]
                BY <1>5, <2>7, <4>1
            <4> QED BY <3>2, <4>2, <4>3, <4>4
        <3> QED BY <3>4, <3>5
    <2>9. q \in GoodRing /\ Contents(q) = b
        <3>1. q.count = Len(b) /\ \A i \in 1 .. Len(b) : q.lines[(q.head + (i - 1)) % M] = b[i]
            <4>1. q.count = M /\ q.lines = m /\ q.head = g
                BY <2>4
            <4> QED BY <2>7, <2>8, <4>1, Zenon
        <3> QED BY <1>6, <2>5, <2>6, <2>7, <3>1, Zenon
    <2> QED BY <1>3, <1>5, <2>5, <2>7, <2>9
<1> QED BY <1>1, <1>7, <1>8

LEMMA PushType ==
    ASSUME NEW r \in GoodRing, NEW line \in HistoryLine
    PROVE  history_push(r, line) \in GoodRing /\ (line = <<>> => history_push(r, line) = r)
<1>1. CASE line = <<>>
    BY <1>1 DEF history_push
<1>2. CASE line # <<>>
    BY <1>2, PushIntoRing DEF HistoryEntry
<1> QED BY <1>1, <1>2

-----------------------------------------------------------------------------
(* What a line becomes in the file, and what becomes of it there.          *)

LEMMA EscapeType ==
    /\ <<>> \in HistoryText
    /\ \A c \in HistoryChar : Escape(c) \in HistoryText
    /\ \A t \in HistoryText : \A c \in HistoryChar : t \o Escape(c) \in HistoryText
<1>1. ASSUME NEW c \in HistoryChar PROVE Escape(c) \in HistoryText
    BY HistoryChars DEF Escape, HistoryText
<1>2. ASSUME NEW t \in HistoryText, NEW u \in HistoryText PROVE t \o u \in HistoryText
    BY DEF HistoryText
<1> QED BY <1>1, <1>2, HistoryChars

LEMMA EscapedIs ==
    /\ Escaped \in [HistoryText -> HistoryText]
    /\ Escaped[<<>>] = <<>>
    /\ \A s \in HistoryText : \A c \in HistoryChar : Escaped[Append(s, c)] = Escaped[s] \o Escape(c)
<1> DEFINE Eq(f) == f = [s \in HistoryText |-> IF s = <<>> THEN <<>> ELSE f[Front(s)] \o Escape(Last(s))]
           step == [s \in HistoryText |-> [c \in HistoryChar |-> [x \in HistoryText |-> x \o Escape(c)]]]
<1>2. step \in [HistoryText -> [HistoryChar -> [HistoryText -> HistoryText]]] /\ <<>> \in HistoryText
    BY EscapeType
<1>3. PICK f \in [HistoryText -> HistoryText] : Computes(f, HistoryChar, <<>>, step)
    <2> HIDE DEF step
    <2> QED BY <1>2, SeqRecursion DEF HistoryText
<1>4. f[<<>>] = <<>> /\ \A s \in HistoryText : \A c \in HistoryChar : f[Append(s, c)] = f[s] \o Escape(c)
    BY <1>3 DEF Computes, HistoryText
<1>5. Eq(f)
    <2> SUFFICES ASSUME NEW s \in HistoryText PROVE f[s] = IF s = <<>> THEN <<>> ELSE f[Front(s)] \o Escape(Last(s))
        OBVIOUS
    <2>1. CASE s # <<>>
        <3>1. PICK t \in HistoryText, c \in HistoryChar : s = Append(t, c) /\ t = Front(s) /\ c = Last(s)
            BY <2>1, FrontLast DEF HistoryText
        <3> QED BY <1>4, <2>1, <3>1
    <2> QED BY <1>4, <2>1
<1>6. Eq(Escaped)
    <2>1. \E g : Eq(g)
        BY <1>5
    <2>2. Escaped = CHOOSE g : Eq(g)
        BY DEF Escaped
    <2> HIDE DEF Eq
    <2> QED BY <2>1, <2>2
<1>7. /\ <<>> \in HistoryText
      /\ \A s \in HistoryText : Escaped[s] = IF s = <<>> THEN <<>> ELSE Escaped[Front(s)] \o Escape(Last(s))
    <2>1. <<>> \in HistoryText
        BY DEF HistoryText
    <2>2. PICK g : g = Escaped
        OBVIOUS
    <2>3. g = [s \in HistoryText |-> IF s = <<>> THEN <<>> ELSE g[Front(s)] \o Escape(Last(s))]
        BY <1>6, <2>2
    <2>4. \A s \in HistoryText : g[s] = IF s = <<>> THEN <<>> ELSE g[Front(s)] \o Escape(Last(s))
        BY <2>3
    <2> QED BY <2>1, <2>2, <2>4
<1>8. ASSUME NEW s \in HistoryText, NEW c \in HistoryChar PROVE Escaped[Append(s, c)] = Escaped[s] \o Escape(c)
    <2>1. /\ Append(s, c) \in HistoryText /\ Append(s, c) # <<>>
          /\ Front(Append(s, c)) = s /\ Last(Append(s, c)) = c
        BY AppendFacts DEF HistoryText
    <2> QED BY <1>7, <2>1
<1>9. Escaped \in [HistoryText -> HistoryText]
    <2> DEFINE T == {s \in HistoryText : Escaped[s] \in HistoryText}
    <2>1. <<>> \in T
        BY <1>2, <1>7
    <2>2. ASSUME NEW s \in HistoryText, NEW c \in HistoryChar, s \in T PROVE Append(s, c) \in T
        <3>1. Append(s, c) \in HistoryText
            BY AppendFacts DEF HistoryText
        <3>2. Escaped[s] \in HistoryText
            BY <2>2
        <3>3. Escaped[s] \o Escape(c) \in HistoryText
            BY <3>2, EscapeType
        <3> QED BY <1>8, <3>1, <3>3
    <2>3. HistoryText \subseteq T
        <3> HIDE DEF T
        <3> QED BY <2>1, <2>2, SeqInduction DEF HistoryText
    <2>4. \A s \in HistoryText : Escaped[s] \in HistoryText
        BY <2>3
    <2> QED BY <1>6, <2>4
<1> QED BY <1>7, <1>8, <1>9

LEMMA EncodedType ==
    /\ <<>> \in HistoryText
    /\ \A l \in HistoryText : Encoded(l) \in HistoryText
    /\ \A t \in HistoryText : \A l \in HistoryText : t \o Encoded(l) \in HistoryText
<1>1. ASSUME NEW l \in HistoryText PROVE Encoded(l) \in HistoryText
    <2>1. PICK e \in HistoryText : e = Escaped[l]
        BY EscapedIs
    <2>2. Append(e, Newline) \in HistoryText
        BY HistoryChars DEF HistoryText
    <2> QED BY <2>1, <2>2 DEF Encoded
<1>2. ASSUME NEW t \in HistoryText, NEW u \in HistoryText PROVE t \o u \in HistoryText
    BY DEF HistoryText
<1> QED BY <1>1, <1>2, HistoryChars

LEMMA EncodedAllIs ==
    /\ EncodedAll \in [Seq(HistoryText) -> HistoryText]
    /\ EncodedAll[<<>>] = <<>>
    /\ \A s \in Seq(HistoryText) : \A c \in HistoryText : EncodedAll[Append(s, c)] = EncodedAll[s] \o Encoded(c)
<1> DEFINE Eq(f) == f = [s \in Seq(HistoryText) |-> IF s = <<>> THEN <<>> ELSE f[Front(s)] \o Encoded(Last(s))]
           step == [s \in Seq(HistoryText) |-> [c \in HistoryText |-> [x \in HistoryText |-> x \o Encoded(c)]]]
<1>2. step \in [Seq(HistoryText) -> [HistoryText -> [HistoryText -> HistoryText]]] /\ <<>> \in HistoryText
    BY EncodedType
<1>3. PICK f \in [Seq(HistoryText) -> HistoryText] : Computes(f, HistoryText, <<>>, step)
    <2> HIDE DEF step
    <2> QED BY <1>2, SeqRecursion
<1>4. f[<<>>] = <<>> /\ \A s \in Seq(HistoryText) : \A c \in HistoryText : f[Append(s, c)] = f[s] \o Encoded(c)
    BY <1>3 DEF Computes
<1>5. Eq(f)
    <2> SUFFICES ASSUME NEW s \in Seq(HistoryText) PROVE f[s] = IF s = <<>> THEN <<>> ELSE f[Front(s)] \o Encoded(Last(s))
        OBVIOUS
    <2>1. CASE s # <<>>
        <3>1. PICK t \in Seq(HistoryText), c \in HistoryText : s = Append(t, c) /\ t = Front(s) /\ c = Last(s)
            BY <2>1, FrontLast
        <3> QED BY <1>4, <2>1, <3>1
    <2> QED BY <1>4, <2>1
<1>6. Eq(EncodedAll)
    <2>1. \E g : Eq(g)
        BY <1>5
    <2>2. EncodedAll = CHOOSE g : Eq(g)
        BY DEF EncodedAll
    <2> HIDE DEF Eq
    <2> QED BY <2>1, <2>2
<1>7. /\ <<>> \in Seq(HistoryText)
      /\ \A s \in Seq(HistoryText) : EncodedAll[s] = IF s = <<>> THEN <<>> ELSE EncodedAll[Front(s)] \o Encoded(Last(s))
    <2>1. <<>> \in Seq(HistoryText)
        BY EmptySeq
    <2>2. PICK g : g = EncodedAll
        OBVIOUS
    <2>3. g = [s \in Seq(HistoryText) |-> IF s = <<>> THEN <<>> ELSE g[Front(s)] \o Encoded(Last(s))]
        BY <1>6, <2>2
    <2>4. \A s \in Seq(HistoryText) : g[s] = IF s = <<>> THEN <<>> ELSE g[Front(s)] \o Encoded(Last(s))
        BY <2>3
    <2> QED BY <2>1, <2>2, <2>4
<1>8. ASSUME NEW s \in Seq(HistoryText), NEW c \in HistoryText PROVE EncodedAll[Append(s, c)] = EncodedAll[s] \o Encoded(c)
    <2>1. /\ Append(s, c) \in Seq(HistoryText) /\ Append(s, c) # <<>>
          /\ Front(Append(s, c)) = s /\ Last(Append(s, c)) = c
        BY AppendFacts
    <2> QED BY <1>7, <2>1
<1>9. EncodedAll \in [Seq(HistoryText) -> HistoryText]
    <2> DEFINE T == {s \in Seq(HistoryText) : EncodedAll[s] \in HistoryText}
    <2>1. <<>> \in T
        BY <1>2, <1>7
    <2>2. ASSUME NEW s \in Seq(HistoryText), NEW c \in HistoryText, s \in T PROVE Append(s, c) \in T
        <3>1. Append(s, c) \in Seq(HistoryText)
            BY AppendFacts
        <3>2. EncodedAll[s] \in HistoryText
            BY <2>2
        <3>3. EncodedAll[s] \o Encoded(c) \in HistoryText
            BY <3>2, EncodedType
        <3> QED BY <1>8, <3>1, <3>3
    <2>3. Seq(HistoryText) \subseteq T
        <3> HIDE DEF T
        <3> QED BY <2>1, <2>2, SeqInduction
    <2>4. \A s \in Seq(HistoryText) : EncodedAll[s] \in HistoryText
        BY <2>3
    <2> QED BY <1>6, <2>4
<1> QED BY <1>7, <1>8, <1>9

LEMMA ExtendedIs ==
    ASSUME NEW l \in HistoryLine, NEW c \in HistoryChar
    PROVE  /\ Extended(l, c) \in HistoryLine
           /\ Len(l) < CMDLINE_MAX - 1 => Extended(l, c) = Append(l, c)
<1>1. /\ l \in Seq(HistoryChar) /\ Append(l, c) \in Seq(HistoryChar)
      /\ Len(Append(l, c)) = Len(l) + 1 /\ Len(l) \in Nat
    BY AppendFacts, LenProperties DEF HistoryLine, HistoryText
<1> QED BY <1>1, HistoryLimits DEF Extended, HistoryLine, HistoryText

LEMMA DecodedType == ASSUME NEW d \in Partial, NEW c \in HistoryChar PROVE Decoded(d, c) \in Partial
<1>1. d.line \in HistoryLine /\ d.escaped \in BOOLEAN /\ d.ring \in GoodRing
    BY DEF Partial
<1>2. c # Return /\ (IF c = "n" THEN Newline ELSE c) \in HistoryChar
    BY HistoryChars
<1>3. PICK x \in HistoryLine : x = Extended(d.line, IF c = "n" THEN Newline ELSE c)
    BY <1>1, <1>2, ExtendedIs
<1>4. PICK y \in HistoryLine : y = Extended(d.line, c)
    BY <1>1, ExtendedIs
<1>5. PICK r \in GoodRing : r = history_push(d.ring, d.line)
    BY <1>1, PushType
<1>6. CASE d.escaped
    <2>1. Decoded(d, c) = [d EXCEPT !.escaped = FALSE, !.line = x]
        BY <1>2, <1>3, <1>6 DEF Decoded
    <2> QED BY <2>1 DEF Partial
<1>7. CASE ~d.escaped /\ c = Backslash
    <2>1. Decoded(d, c) = [d EXCEPT !.escaped = TRUE]
        BY <1>2, <1>7, HistoryChars DEF Decoded
    <2> QED BY <2>1 DEF Partial
<1>8. CASE ~d.escaped /\ c = Newline
    <2>1. Decoded(d, c) = [d EXCEPT !.line = <<>>, !.ring = r]
        BY <1>2, <1>5, <1>8, HistoryChars DEF Decoded
    <2> QED BY <2>1, HistoryChars DEF Partial
<1>9. CASE ~d.escaped /\ c # Backslash /\ c # Newline
    <2>1. Decoded(d, c) = [d EXCEPT !.line = y]
        BY <1>2, <1>4, <1>9 DEF Decoded
    <2> QED BY <2>1 DEF Partial
<1> QED BY <1>6, <1>7, <1>8, <1>9

\* What Decode computes, as a function of the characters.
Decoding(d) ==
    CHOOSE f : f = [cs \in HistoryText |-> IF cs = <<>> THEN d ELSE Decoded(f[Front(cs)], Last(cs))]

LEMMA DecodingIs ==
    ASSUME NEW d \in Partial
    PROVE
    /\ Decoding(d) \in [HistoryText -> Partial]
    /\ Decoding(d)[<<>>] = d
    /\ \A s \in HistoryText : \A c \in HistoryChar : Decoding(d)[Append(s, c)] = Decoded(Decoding(d)[s], c)
<1> DEFINE Eq(f) == f = [s \in HistoryText |-> IF s = <<>> THEN d ELSE Decoded(f[Front(s)], Last(s))]
           step == [s \in HistoryText |-> [c \in HistoryChar |-> [x \in Partial |-> Decoded(x, c)]]]
<1>2. step \in [HistoryText -> [HistoryChar -> [Partial -> Partial]]] /\ d \in Partial
    BY DecodedType
<1>3. PICK f \in [HistoryText -> Partial] : Computes(f, HistoryChar, d, step)
    <2> HIDE DEF step
    <2> QED BY <1>2, SeqRecursion DEF HistoryText
<1>4. f[<<>>] = d /\ \A s \in HistoryText : \A c \in HistoryChar : f[Append(s, c)] = Decoded(f[s], c)
    BY <1>3 DEF Computes, HistoryText
<1>5. Eq(f)
    <2> SUFFICES ASSUME NEW s \in HistoryText PROVE f[s] = IF s = <<>> THEN d ELSE Decoded(f[Front(s)], Last(s))
        OBVIOUS
    <2>1. CASE s # <<>>
        <3>1. PICK t \in HistoryText, c \in HistoryChar : s = Append(t, c) /\ t = Front(s) /\ c = Last(s)
            BY <2>1, FrontLast DEF HistoryText
        <3> QED BY <1>4, <2>1, <3>1
    <2> QED BY <1>4, <2>1
<1>6. Eq(Decoding(d))
    <2>1. \E g : Eq(g)
        BY <1>5
    <2>2. Decoding(d) = CHOOSE g : Eq(g)
        BY DEF Decoding
    <2> HIDE DEF Eq
    <2> QED BY <2>1, <2>2
<1>7. /\ <<>> \in HistoryText
      /\ \A s \in HistoryText : Decoding(d)[s] = IF s = <<>> THEN d ELSE Decoded(Decoding(d)[Front(s)], Last(s))
    <2>1. <<>> \in HistoryText
        BY DEF HistoryText
    <2>2. PICK g : g = Decoding(d)
        OBVIOUS
    <2>3. g = [s \in HistoryText |-> IF s = <<>> THEN d ELSE Decoded(g[Front(s)], Last(s))]
        BY <1>6, <2>2
    <2>4. \A s \in HistoryText : g[s] = IF s = <<>> THEN d ELSE Decoded(g[Front(s)], Last(s))
        BY <2>3
    <2> QED BY <2>1, <2>2, <2>4
<1>8. ASSUME NEW s \in HistoryText, NEW c \in HistoryChar PROVE Decoding(d)[Append(s, c)] = Decoded(Decoding(d)[s], c)
    <2>1. /\ Append(s, c) \in HistoryText /\ Append(s, c) # <<>>
          /\ Front(Append(s, c)) = s /\ Last(Append(s, c)) = c
        BY AppendFacts DEF HistoryText
    <2> QED BY <1>7, <2>1
<1>9. Decoding(d) \in [HistoryText -> Partial]
    <2> DEFINE T == {s \in HistoryText : Decoding(d)[s] \in Partial}
    <2>1. <<>> \in T
        BY <1>2, <1>7
    <2>2. ASSUME NEW s \in HistoryText, NEW c \in HistoryChar, s \in T PROVE Append(s, c) \in T
        <3>1. Append(s, c) \in HistoryText
            BY AppendFacts DEF HistoryText
        <3>2. Decoding(d)[s] \in Partial
            BY <2>2
        <3>3. Decoded(Decoding(d)[s], c) \in Partial
            BY <3>2, DecodedType
        <3> QED BY <1>8, <3>1, <3>3
    <2>3. HistoryText \subseteq T
        <3> HIDE DEF T
        <3> QED BY <2>1, <2>2, SeqInduction DEF HistoryText
    <2>4. \A s \in HistoryText : Decoding(d)[s] \in Partial
        BY <2>3
    <2> QED BY <1>6, <2>4
<1> QED BY <1>7, <1>8, <1>9

LEMMA DecodeIs ==
    ASSUME NEW d \in Partial
    PROVE  /\ \A cs \in HistoryText : Decode(d, cs) \in Partial
           /\ Decode(d, <<>>) = d
           /\ \A cs \in HistoryText : \A c \in HistoryChar :
                 Decode(d, Append(cs, c)) = Decoded(Decode(d, cs), c)
<1>1. \A cs : Decode(d, cs) = Decoding(d)[cs]
    BY DEF Decode, Decoding
<1>2. /\ Decoding(d) \in [HistoryText -> Partial] /\ Decoding(d)[<<>>] = d
      /\ \A cs \in HistoryText : \A c \in HistoryChar :
            Decoding(d)[Append(cs, c)] = Decoded(Decoding(d)[cs], c)
    BY DecodingIs
<1> QED BY <1>1, <1>2

LEMMA DecodeConcat ==
    ASSUME NEW d \in Partial, NEW a \in HistoryText, NEW b \in HistoryText
    PROVE  Decode(d, a \o b) = Decode(Decode(d, a), b)
<1> DEFINE T == {u \in HistoryText : Decode(d, a \o u) = Decode(Decode(d, a), u)}
<1>0. a \in Seq(HistoryChar)
    BY DEF HistoryText
<1>1. PICK e \in Partial : e = Decode(d, a)
    BY DecodeIs
<1>2. <<>> \in T
    <2>1. a \o <<>> = a
        BY <1>0, ConcatEmptySeq
    <2>2. Decode(e, <<>>) = e
        BY DecodeIs
    <2> QED BY <1>1, <2>1, <2>2, HistoryChars
<1>3. ASSUME NEW u \in HistoryText, NEW c \in HistoryChar, u \in T PROVE Append(u, c) \in T
    <2>0. u \in Seq(HistoryChar)
        BY DEF HistoryText
    <2>1. Append(u, c) \in HistoryText /\ a \o Append(u, c) = Append(a \o u, c) /\ a \o u \in HistoryText
        BY <1>0, <2>0, AppendFacts, ConcatAppend, Longer DEF HistoryText
    <2>2. PICK v \in HistoryText : v = a \o u
        BY <2>1
    <2>3. Decode(d, Append(v, c)) = Decoded(Decode(d, v), c)
        BY DecodeIs
    <2>4. Decode(e, Append(u, c)) = Decoded(Decode(e, u), c)
        BY DecodeIs
    <2>5. Decode(d, v) = Decode(e, u)
        BY <1>1, <1>3, <2>2
    <2> QED BY <1>1, <2>1, <2>2, <2>3, <2>4, <2>5
<1>4. HistoryText \subseteq T
    <2> HIDE DEF T
    <2> QED BY <1>2, <1>3, SeqInduction DEF HistoryText
<1> QED BY <1>4

LEMMA TwoOf == ASSUME NEW S, NEW a \in S, NEW b \in S PROVE Append(<<a>>, b) = <<a, b>>
<1>1. PICK s \in Seq(S) : s = <<a>> /\ Len(s) = 1 /\ s[1] = a
    <2>1. <<a>> \in Seq(S) /\ Len(<<a>>) = 1 /\ <<a>>[1] = a
        OBVIOUS
    <2> QED BY <2>1
<1>2. PICK t \in Seq(S) : t = Append(s, b) /\ Len(t) = 2 /\ t[1] = a /\ t[2] = b
    <2>1. /\ Append(s, b) \in Seq(S) /\ Len(Append(s, b)) = Len(s) + 1
          /\ \A i \in 1 .. Len(s) : Append(s, b)[i] = s[i]
          /\ Append(s, b)[Len(s) + 1] = b
        BY AppendProperties
    <2>2. 1 \in 1 .. 1 /\ 1 + 1 = 2
        OBVIOUS
    <2> QED BY <1>1, <2>1, <2>2
<1>3. PICK u \in Seq(S) : u = <<a, b>> /\ Len(u) = 2 /\ u[1] = a /\ u[2] = b
    <2>1. <<a, b>> \in Seq(S) /\ Len(<<a, b>>) = 2 /\ <<a, b>>[1] = a /\ <<a, b>>[2] = b
        OBVIOUS
    <2> QED BY <2>1
<1>4. t = u
    <2>1. \A i \in 1 .. 2 : i = 1 \/ i = 2
        OBVIOUS
    <2>2. \A i \in 1 .. Len(t) : t[i] = u[i]
        BY <1>2, <1>3, <2>1
    <2> QED BY <1>2, <1>3, <2>2, SeqEqual
<1> QED BY <1>1, <1>2, <1>3, <1>4

LEMMA SamePartial ==
    ASSUME NEW p \in Partial, NEW q \in Partial,
           p.line = q.line, p.escaped = q.escaped, p.ring = q.ring
    PROVE  p = q
    BY DEF Partial

\* A character is read as it was before it was escaped.
LEMMA EscapeDecodes ==
    ASSUME NEW e \in Partial, e.escaped = FALSE, Len(e.line) < CMDLINE_MAX - 1, NEW c \in HistoryChar
    PROVE  Decode(e, Escape(c)) = [e EXCEPT !.line = Append(e.line, c)]
<1>1. e.line \in HistoryLine /\ ~e.escaped /\ c # Return
    BY HistoryChars DEF Partial
<1>2. ASSUME NEW f \in Partial, NEW x \in HistoryChar PROVE Decode(f, <<x>>) = Decoded(f, x)
    <2>1. PICK z \in HistoryText : z = <<>>
        BY HistoryChars
    <2>2. Decode(f, Append(z, x)) = Decoded(Decode(f, z), x)
        BY DecodeIs
    <2>3. Decode(f, z) = f /\ Append(z, x) = <<x>>
        BY <2>1, DecodeIs
    <2> QED BY <2>2, <2>3
<1>3. ASSUME NEW y \in HistoryChar, NEW v \in HistoryChar, v = (IF y = "n" THEN Newline ELSE y)
      PROVE  Decode(e, <<Backslash, y>>) = [e EXCEPT !.line = Append(e.line, v)]
    <2>1. PICK z \in HistoryText : z = <<Backslash>>
        <3>1. \A x \in HistoryChar : <<x>> \in HistoryText
            BY DEF HistoryText
        <3> QED BY <3>1, HistoryChars
    <2>2. PICK f \in Partial : f = Decoded(e, Backslash)
        BY HistoryChars, DecodedType
    <2>3. f = [e EXCEPT !.escaped = TRUE]
        BY <1>1, <2>2, HistoryChars DEF Decoded
    <2>4. Decode(e, z) = f
        BY <1>2, <2>1, <2>2, HistoryChars
    <2>5. Decode(e, Append(z, y)) = Decoded(f, y)
        BY <2>4, DecodeIs
    <2>6. Append(z, y) = <<Backslash, y>>
        BY <2>1, TwoOf, HistoryChars
    <2>7. f.line = e.line /\ f.escaped
        BY <2>3 DEF Partial
    <2>8. Extended(e.line, v) = Append(e.line, v)
        BY <1>1, ExtendedIs
    <2>9. Decoded(f, y) = [f EXCEPT !.escaped = FALSE, !.line = Append(e.line, v)]
        <3>1. y # Return
            BY HistoryChars
        <3>2. Decoded(f, y) = [f EXCEPT !.escaped = FALSE, !.line = Extended(f.line, IF y = "n" THEN Newline ELSE y)]
            BY <2>7, <3>1 DEF Decoded
        <3> QED BY <1>3, <2>7, <2>8, <3>2
    <2>10. [f EXCEPT !.escaped = FALSE, !.line = Append(e.line, v)] = [e EXCEPT !.line = Append(e.line, v)]
        <3>1. PICK w \in HistoryLine : w = Append(e.line, v)
            BY <1>1, <2>8, ExtendedIs
        <3>2. PICK p \in Partial, q \in Partial :
                  p = [f EXCEPT !.escaped = FALSE, !.line = w] /\ q = [e EXCEPT !.line = w]
            <4>1. [f EXCEPT !.escaped = FALSE, !.line = w] \in Partial /\ [e EXCEPT !.line = w] \in Partial
                BY DEF Partial
            <4> QED BY <4>1
        <3>3. p.line = w /\ p.escaped = FALSE /\ p.ring = f.ring
            BY <3>2 DEF Partial
        <3>4. q.line = w /\ q.escaped = FALSE /\ q.ring = e.ring
            BY <3>2 DEF Partial
        <3>5. f.ring = e.ring
            BY <2>3 DEF Partial
        <3>6. p = q
            BY <3>3, <3>4, <3>5, SamePartial
        <3> QED BY <3>1, <3>2, <3>6
    <2> QED BY <2>5, <2>6, <2>9, <2>10
<1>4. CASE c = Backslash
    <2>1. Escape(c) = <<Backslash, Backslash>>
        BY <1>4, HistoryChars DEF Escape
    <2>2. Backslash = (IF Backslash = "n" THEN Newline ELSE Backslash)
        BY HistoryChars
    <2> QED BY <1>3, <1>4, <2>1, <2>2, HistoryChars
<1>5. CASE c = Newline
    <2>1. Escape(c) = <<Backslash, "n">>
        BY <1>5, HistoryChars DEF Escape
    <2> QED BY <1>3, <1>5, <2>1, HistoryChars
<1>6. CASE c # Backslash /\ c # Newline
    <2>1. Escape(c) = <<c>>
        BY <1>6 DEF Escape
    <2>2. Decoded(e, c) = [e EXCEPT !.line = Extended(e.line, c)]
        BY <1>1, <1>6 DEF Decoded
    <2>3. Extended(e.line, c) = Append(e.line, c)
        BY <1>1, ExtendedIs
    <2> QED BY <1>2, <2>1, <2>2, <2>3
<1> QED BY <1>4, <1>5, <1>6

LEMMA EscapedDecodes ==
    ASSUME NEW d \in Partial, d.escaped = FALSE, d.line = <<>>, NEW l \in HistoryLine
    PROVE  Decode(d, Escaped[l]) = [d EXCEPT !.line = l]
<1> DEFINE P(u) == Len(u) < CMDLINE_MAX => Decode(d, Escaped[u]) = [d EXCEPT !.line = u]
           T == {u \in HistoryText : P(u)}
<1>0. d = [line |-> <<>>, escaped |-> FALSE, ring |-> d.ring] /\ d.ring \in GoodRing
    BY DEF Partial
<1>1. <<>> \in T
    <2>1. Escaped[<<>>] = <<>>
        BY EscapedIs
    <2>2. Decode(d, <<>>) = d
        BY DecodeIs
    <2>3. [d EXCEPT !.line = <<>>] = d
        BY <1>0
    <2> QED BY <2>1, <2>2, <2>3, HistoryChars
<1>2. ASSUME NEW u \in HistoryText, NEW c \in HistoryChar, u \in T PROVE Append(u, c) \in T
    <2>1. /\ Append(u, c) \in HistoryText /\ Len(Append(u, c)) = Len(u) + 1 /\ Len(u) \in Nat
        BY AppendFacts, LenProperties DEF HistoryText
    <2> SUFFICES ASSUME Len(u) + 1 < CMDLINE_MAX
                 PROVE  Decode(d, Escaped[Append(u, c)]) = [d EXCEPT !.line = Append(u, c)]
        BY <2>1
    <2>2. Len(u) < CMDLINE_MAX /\ Len(u) < CMDLINE_MAX - 1
        BY <2>1, HistoryLimits
    <2>3. Decode(d, Escaped[u]) = [d EXCEPT !.line = u]
        BY <1>2, <2>2
    <2>4. PICK e \in Partial : e = [line |-> u, escaped |-> FALSE, ring |-> d.ring]
        BY <1>0, <2>2 DEF Partial, HistoryLine
    <2>5. PICK a \in HistoryText, b \in HistoryText : a = Escaped[u] /\ b = Escape(c)
        BY EscapedIs, EscapeType
    <2>6. Escaped[Append(u, c)] = a \o b
        BY <2>5, EscapedIs
    <2>7. Decode(d, a) = e
        BY <1>0, <2>3, <2>4, <2>5
    <2>8. Decode(d, a \o b) = Decode(e, b)
        BY <2>7, DecodeConcat
    <2>9. Decode(e, b) = [e EXCEPT !.line = Append(u, c)]
        <3>1. e.escaped = FALSE /\ e.line = u
            BY <2>4
        <3> QED BY <2>2, <2>5, <3>1, EscapeDecodes
    <2>10. [e EXCEPT !.line = Append(u, c)] = [d EXCEPT !.line = Append(u, c)]
        <3>1. PICK w \in HistoryLine : w = Append(u, c)
            BY <2>1 DEF HistoryLine
        <3>2. PICK p \in Partial, q \in Partial : p = [e EXCEPT !.line = w] /\ q = [d EXCEPT !.line = w]
            <4>1. [e EXCEPT !.line = w] \in Partial /\ [d EXCEPT !.line = w] \in Partial
                BY DEF Partial
            <4> QED BY <4>1
        <3>3. p.line = w /\ p.escaped = e.escaped /\ p.ring = e.ring
            BY <3>2 DEF Partial
        <3>4. q.line = w /\ q.escaped = FALSE /\ q.ring = d.ring
            BY <3>2 DEF Partial
        <3>5. e.escaped = FALSE /\ e.ring = d.ring
            BY <2>4
        <3>6. p = q
            BY <3>3, <3>4, <3>5, SamePartial
        <3> QED BY <3>1, <3>2, <3>6
    <2> QED BY <2>6, <2>8, <2>9, <2>10
<1>3. HistoryText \subseteq T
    <2> HIDE DEF T
    <2> QED BY <1>1, <1>2, SeqInduction DEF HistoryText
<1>4. l \in T
    BY <1>3 DEF HistoryLine
<1> QED BY <1>4 DEF HistoryLine

\* An encoded line is pushed as it was.
LEMMA EncodedDecodes ==
    ASSUME NEW d \in Partial, d.escaped = FALSE, d.line = <<>>, NEW l \in HistoryEntry
    PROVE  Decode(d, Encoded(l)) = [line |-> <<>>, escaped |-> FALSE, ring |-> history_push(d.ring, l)]
<1>1. l \in HistoryLine /\ l \in HistoryText
    BY DEF HistoryEntry, HistoryLine
<1>2. d = [line |-> <<>>, escaped |-> FALSE, ring |-> d.ring] /\ d.ring \in GoodRing
    BY DEF Partial
<1>3. PICK a \in HistoryText : a = Escaped[l]
    BY <1>1, EscapedIs
<1>4. PICK e \in Partial : e = [line |-> l, escaped |-> FALSE, ring |-> d.ring]
    BY <1>1, <1>2 DEF Partial
<1>5. Decode(d, a) = e
    <2>1. Decode(d, a) = [d EXCEPT !.line = l]
        BY <1>1, <1>3, EscapedDecodes
    <2>2. PICK q \in Partial : q = [d EXCEPT !.line = l]
        <3>1. [d EXCEPT !.line = l] \in Partial
            BY <1>1 DEF Partial
        <3> QED BY <3>1
    <2>3. q.line = l /\ q.escaped = FALSE /\ q.ring = d.ring
        BY <2>2 DEF Partial
    <2>4. e.line = l /\ e.escaped = FALSE /\ e.ring = d.ring
        BY <1>4
    <2>5. q = e
        BY <2>3, <2>4, SamePartial
    <2> QED BY <2>1, <2>2, <2>5
<1>6. Decode(d, Append(a, Newline)) = Decoded(e, Newline)
    BY <1>5, DecodeIs, HistoryChars
<1>7. Decoded(e, Newline) = [e EXCEPT !.line = <<>>, !.ring = history_push(d.ring, l)]
    <2>1. ~e.escaped /\ e.line = l /\ e.ring = d.ring
        BY <1>4
    <2>2. Newline # Return
        BY HistoryChars
    <2>3. Decoded(e, Newline) = [e EXCEPT !.line = <<>>, !.ring = history_push(@, e.line)]
        BY <2>1, <2>2, HistoryChars DEF Decoded
    <2> QED BY <2>1, <2>3
<1>8. [e EXCEPT !.line = <<>>, !.ring = history_push(d.ring, l)]
        = [line |-> <<>>, escaped |-> FALSE, ring |-> history_push(d.ring, l)]
    <2>1. PICK w \in GoodRing : w = history_push(d.ring, l)
        BY <1>1, <1>2, PushType
    <2>2. PICK p \in Partial, q \in Partial : /\ p = [e EXCEPT !.line = <<>>, !.ring = w]
                                            /\ q = [line |-> <<>>, escaped |-> FALSE, ring |-> w]
        <3>1. [e EXCEPT !.line = <<>>, !.ring = w] \in Partial
            BY HistoryChars DEF Partial
        <3>2. [line |-> <<>>, escaped |-> FALSE, ring |-> w] \in Partial
            BY HistoryChars DEF Partial
        <3> QED BY <3>1, <3>2
    <2>3. p.line = <<>> /\ p.escaped = e.escaped /\ p.ring = w
        BY <2>2 DEF Partial
    <2>4. q.line = <<>> /\ q.escaped = FALSE /\ q.ring = w
        BY <2>2
    <2>5. e.escaped = FALSE
        BY <1>4
    <2>6. p = q
        BY <2>3, <2>4, <2>5, SamePartial
    <2> QED BY <2>1, <2>2, <2>6
<1> QED BY <1>3, <1>6, <1>7, <1>8 DEF Encoded

LEMMA FreshIs == Fresh \in Partial /\ Fresh.line = <<>> /\ Fresh.escaped = FALSE /\ Fresh.ring = NoRing
    BY NoRingIs, HistoryChars DEF Fresh, Partial

\* What was saved is loaded.
LEMMA SavedIsLoaded ==
    ASSUME NEW ls \in Seq(HistoryEntry), Len(ls) <= HISTORY_MAX
    PROVE  \E r \in GoodRing :
              /\ Decode(Fresh, EncodedAll[ls]) = [line |-> <<>>, escaped |-> FALSE, ring |-> r]
              /\ Contents(r) = ls
<1> DEFINE P(u) == \E r \in GoodRing :
              /\ Decode(Fresh, EncodedAll[u]) = [line |-> <<>>, escaped |-> FALSE, ring |-> r]
              /\ Contents(r) = u
           T == {u \in Seq(HistoryEntry) : Len(u) <= HISTORY_MAX => P(u)}
<1>0. PICK f \in Partial : f = Fresh
    BY FreshIs
<1>1. <<>> \in T
    <2>1. EncodedAll[<<>>] = <<>>
        BY EncodedAllIs
    <2>2. Decode(f, <<>>) = f
        BY DecodeIs
    <2>3. Fresh = [line |-> <<>>, escaped |-> FALSE, ring |-> NoRing]
        BY DEF Fresh
    <2>4. P(<<>>)
        BY <1>0, <2>1, <2>2, <2>3, NoRingIs
    <2>5. <<>> \in Seq(HistoryEntry)
        BY EmptySeq
    <2> HIDE DEF P
    <2> QED BY <2>4, <2>5
<1>2. ASSUME NEW u \in Seq(HistoryEntry), NEW l \in HistoryEntry, u \in T PROVE Append(u, l) \in T
    <2>1. PICK v \in Seq(HistoryEntry) : v = Append(u, l) /\ Len(v) = Len(u) + 1 /\ Len(u) \in Nat
        BY AppendFacts, LenProperties
    <2> SUFFICES ASSUME Len(v) <= HISTORY_MAX PROVE P(v)
        BY <2>1
    <2>2. Len(u) <= HISTORY_MAX
        BY <2>1, HistoryLimits
    <2>3. PICK r \in GoodRing : /\ Decode(Fresh, EncodedAll[u]) = [line |-> <<>>, escaped |-> FALSE, ring |-> r]
                                /\ Contents(r) = u
        BY <1>2, <2>2
    <2>4. HistoryEntry \subseteq HistoryText
        BY DEF HistoryEntry, HistoryLine
    <2>5. u \in Seq(HistoryText) /\ l \in HistoryText
        BY <2>4, SeqOfSubset
    <2>6. PICK a \in HistoryText, b \in HistoryText : a = EncodedAll[u] /\ b = Encoded(l)
        BY <2>5, EncodedAllIs, EncodedType
    <2>7. EncodedAll[v] = a \o b
        BY <2>1, <2>5, <2>6, EncodedAllIs
    <2>8. PICK e \in Partial : e = [line |-> <<>>, escaped |-> FALSE, ring |-> r]
        BY HistoryChars DEF Partial
    <2>9. Decode(f, a \o b) = Decode(e, b)
        <3>1. Decode(f, a) = e
            BY <1>0, <2>3, <2>6, <2>8
        <3> QED BY <3>1, DecodeConcat
    <2>10. Decode(e, b) = [line |-> <<>>, escaped |-> FALSE, ring |-> history_push(r, l)]
        <3>1. e.escaped = FALSE /\ e.line = <<>> /\ e.ring = r
            BY <2>8
        <3> QED BY <2>6, <3>1, EncodedDecodes
    <2>11. history_push(r, l) \in GoodRing /\ Contents(history_push(r, l)) = LastOf(v, HISTORY_MAX)
        BY <2>1, <2>3, PushIntoRing
    <2>12. LastOf(v, HISTORY_MAX) = v
        BY HistoryLimits, LastOfIs
    <2> QED BY <1>0, <2>7, <2>9, <2>10, <2>11, <2>12
<1>3. Seq(HistoryEntry) \subseteq T
    <2> HIDE DEF T
    <2> QED BY <1>1, <1>2, SeqInduction
<1>4. ls \in T
    BY <1>3
<1> QED BY <1>4

\* The lines that are saved are the last ones.
LEMMA FittingFrom ==
    ASSUME NEW ls \in Seq(HistoryEntry)
    PROVE  \E k \in 1 .. Len(ls) + 1 : /\ Fitting(ls) = SubSeq(ls, k, Len(ls))
                                       /\ Len(EncodedAll[Fitting(ls)]) <= FS_FILE_MAX_SIZE
<1> DEFINE fits == {i \in 1 .. Len(ls) + 1 :
                      Len(EncodedAll[SubSeq(ls, i, Len(ls))]) <= FS_FILE_MAX_SIZE}
<1>1. Len(ls) \in Nat
    BY LenProperties
<1>2. Len(ls) + 1 \in fits
    <2>1. SubSeq(ls, Len(ls) + 1, Len(ls)) = <<>>
        BY <1>1, SubSeqEmpty
    <2>2. EncodedAll[<<>>] = <<>> /\ Len(<<>>) = 0
        BY EncodedAllIs
    <2>3. Len(EncodedAll[SubSeq(ls, Len(ls) + 1, Len(ls))]) = 0
        BY <2>1, <2>2
    <2>4. Len(ls) + 1 \in 1 .. Len(ls) + 1 /\ 0 <= FS_FILE_MAX_SIZE
        BY <1>1, HistoryLimits
    <2> QED BY <2>3, <2>4
<1>3. \E i \in fits : \A j \in fits : i <= j
    <2>1. fits \in SUBSET Nat /\ fits # {}
        BY <1>1, <1>2
    <2> HIDE DEF fits
    <2> QED BY <2>1, HasLeast
<1>4. PICK k \in fits : Fitting(ls) = SubSeq(ls, k, Len(ls))
    <2>1. Fitting(ls) = SubSeq(ls, CHOOSE i \in fits : \A j \in fits : i <= j, Len(ls))
        BY DEF Fitting
    <2> HIDE DEF fits
    <2> QED BY <1>3, <2>1
<1> QED BY <1>4

LEMMA FittingIs ==
    ASSUME NEW ls \in Seq(HistoryEntry), Len(ls) <= HISTORY_MAX
    PROVE  /\ Fitting(ls) \in Seq(HistoryEntry) /\ Len(Fitting(ls)) <= HISTORY_MAX
           /\ EncodedAll[Fitting(ls)] \in HistoryText
           /\ Len(EncodedAll[Fitting(ls)]) <= FS_FILE_MAX_SIZE
<1>1. Len(ls) \in Nat
    BY LenProperties
<1>4. PICK k \in 1 .. Len(ls) + 1 : /\ Fitting(ls) = SubSeq(ls, k, Len(ls))
                                    /\ Len(EncodedAll[Fitting(ls)]) <= FS_FILE_MAX_SIZE
    BY FittingFrom
<1>5. /\ Fitting(ls) \in Seq(HistoryEntry)
      /\ Len(Fitting(ls)) = (IF k <= Len(ls) THEN Len(ls) - k + 1 ELSE 0)
    <2>1. k \in 1 .. Len(ls) + 1 /\ \A i \in k .. Len(ls) : ls[i] \in HistoryEntry
        BY <1>1, <1>4, ElementOfSeq
    <2> QED BY <1>1, <1>4, <2>1, SubSeqProperties
<1>6. Len(Fitting(ls)) <= HISTORY_MAX
    BY <1>1, <1>4, <1>5, HistoryLimits
<1>7. Fitting(ls) \in Seq(HistoryText)
    <2>1. HistoryEntry \subseteq HistoryText
        BY DEF HistoryEntry, HistoryLine
    <2> QED BY <1>5, <2>1, SeqOfSubset
<1> QED BY <1>4, <1>5, <1>6, <1>7, EncodedAllIs

-----------------------------------------------------------------------------
(* The shells.                                                             *)

LEMMA RingIs ==
    ASSUME HistoryTypes, NEW s \in Shells
    PROVE  /\ Ring(s) \in GoodRing /\ Held(s) \in Partial
           /\ Contents(Ring(s)) \in Seq(HistoryEntry) /\ Len(Contents(Ring(s))) <= HISTORY_MAX
<1>1. Ring(s) \in GoodRing
    BY DEF HistoryTypes
<1>2. load[s].line \in HistoryLine /\ load[s].escaped \in BOOLEAN
    BY DEF HistoryTypes
<1>3. Held(s) \in Partial
    BY <1>1, <1>2 DEF Held, Partial
<1>4. PICK r \in GoodRing : r = Ring(s)
    BY <1>1
<1>5. r \in RingSet /\ Contents(r) \in Seq(HistoryEntry) /\ r.count \in 0 .. HISTORY_MAX
    BY DEF GoodRing, RingSet
<1>6. Len(Contents(r)) <= HISTORY_MAX
    BY <1>5, ContentsIs
<1> QED BY <1>1, <1>3, <1>4, <1>5, <1>6

LEMMA SetRingIs ==
    ASSUME HistoryTypes, NEW s \in Shells, NEW r \in GoodRing, SetRing(s, r)
    PROVE  /\ history' \in [Shells -> [HistorySlots -> HistoryLine]]
           /\ history_head' \in [Shells -> HistorySlots]
           /\ history_count' \in [Shells -> 0 .. HISTORY_MAX]
           /\ Ring(s)' = r
           /\ \A t \in Shells : t # s => Ring(t)' = Ring(t)
           /\ \A t \in Shells : Ring(t)' \in GoodRing
<1>1. /\ r.lines \in [HistorySlots -> HistoryLine] /\ r.head \in HistorySlots
      /\ r.count \in 0 .. HISTORY_MAX /\ r = [lines |-> r.lines, head |-> r.head, count |-> r.count]
    BY DEF GoodRing, RingSet
<1>2. /\ history \in [Shells -> [HistorySlots -> HistoryLine]]
      /\ history_head \in [Shells -> HistorySlots]
      /\ history_count \in [Shells -> 0 .. HISTORY_MAX]
    BY DEF HistoryTypes
<1>3. /\ history' = [history EXCEPT ![s] = r.lines]
      /\ history_head' = [history_head EXCEPT ![s] = r.head]
      /\ history_count' = [history_count EXCEPT ![s] = r.count]
    BY DEF SetRing
<1>4. /\ history'[s] = r.lines /\ history_head'[s] = r.head /\ history_count'[s] = r.count
      /\ \A t \in Shells : t # s => /\ history'[t] = history[t] /\ history_head'[t] = history_head[t]
                                    /\ history_count'[t] = history_count[t]
    BY <1>2, <1>3
<1>5. Ring(s)' = r
    <2>1. Ring(s)' = [lines |-> history'[s], head |-> history_head'[s], count |-> history_count'[s]]
        BY DEF Ring
    <2> QED BY <1>1, <1>4, <2>1
<1>6. ASSUME NEW t \in Shells, t # s PROVE Ring(t)' = Ring(t)
    BY <1>4, <1>6 DEF Ring
<1>7. \A t \in Shells : Ring(t)' \in GoodRing
    <2>1. \A t \in Shells : Ring(t) \in GoodRing
        BY DEF HistoryTypes
    <2> QED BY <1>5, <1>6, <2>1
<1>8. /\ history' \in [Shells -> [HistorySlots -> HistoryLine]]
      /\ history_head' \in [Shells -> HistorySlots]
      /\ history_count' \in [Shells -> 0 .. HISTORY_MAX]
    BY <1>1, <1>2, <1>3
<1> QED BY <1>5, <1>6, <1>7, <1>8

LEMMA SameRing ==
    ASSUME UNCHANGED <<history, history_head, history_count>>
    PROVE  \A t \in Shells : Ring(t)' = Ring(t)
    BY DEF Ring

\* What a shell holds does not depend on what others do, as long as they leave
\* the file alone or the change is noticed.
LEMMA OthersHold ==
    ASSUME NEW t \in Shells, ShellHolds(t), Ring(t)' = Ring(t),
           phase'[t] = phase[t], load'[t] = load[t], remembered'[t] = remembered[t],
           \/ file' = file /\ source'[t] = source[t]
           \/ phase[t] = "loading" => source'[t] = Unknown
    PROVE  ShellHolds(t)'
<1>1. /\ phase'[t] = "off" => Ring(t)' = NoRing
      /\ phase'[t] # "loading" => load'[t] = NoLoad
      /\ phase'[t] \in {"run", "saving"} => Contents(Ring(t)') = remembered'[t]
    BY DEF ShellHolds
<1>2. ASSUME phase'[t] = "loading" /\ source'[t] # Unknown
      PROVE  /\ Holds(source[t])' /\ load'[t].offset <= Len(file')
             /\ Held(t)' = Decode(Fresh, SubSeq(file', 1, load'[t].offset))
    <2>1. file' = file /\ source'[t] = source[t] /\ phase[t] = "loading"
        BY <1>2
    <2>2. /\ Holds(source[t]) /\ load[t].offset <= Len(file)
          /\ Held(t) = Decode(Fresh, SubSeq(file, 1, load[t].offset))
        BY <1>2, <2>1 DEF ShellHolds
    <2>3. Held(t)' = Held(t)
        BY DEF Held
    <2>4. Holds(source[t])'
        BY <2>1, <2>2 DEF Holds
    <2> QED BY <2>1, <2>2, <2>3, <2>4
<1> QED BY <1>1, <1>2 DEF ShellHolds

LEMMA StartInv == ASSUME HistoryInv, NEW s \in Shells, Start(s) PROVE HistoryInv'
<1>1. HistoryTypes /\ (\A t \in Shells : ShellHolds(t)) /\ (saved # Unknown => Holds(saved)) /\ SavesAlone
    BY DEF HistoryInv
<1>2. /\ phase[s] = "off" /\ phase' = [phase EXCEPT ![s] = "loading"]
      /\ source' = [source EXCEPT ![s] = saved]
      /\ UNCHANGED <<history, history_head, history_count, load, file, saved, mixed, remembered>>
    BY DEF Start
<1>3. \A t \in Shells : Ring(t)' = Ring(t)
    BY <1>2, SameRing
<1>4. /\ phase'[s] = "loading" /\ \A t \in Shells : t # s => phase'[t] = phase[t]
      /\ source'[s] = saved /\ \A t \in Shells : t # s => source'[t] = source[t]
    BY <1>1, <1>2 DEF HistoryTypes
<1>5. HistoryTypes'
    BY <1>1, <1>2, <1>3 DEF HistoryTypes
<1>6. ASSUME NEW t \in Shells, t # s PROVE ShellHolds(t)'
    BY <1>1, <1>2, <1>3, <1>4, <1>6, OthersHold
<1>7. ShellHolds(s)'
    <2>1. Ring(s) = NoRing /\ load[s] = NoLoad
        BY <1>1, <1>2 DEF ShellHolds
    <2>2. load'[s].offset = 0 /\ Held(s)' = Fresh
        <3>1. load'[s].offset = 0 /\ load'[s].line = <<>> /\ load'[s].escaped = FALSE
            BY <1>2, <2>1 DEF NoLoad
        <3>2. Ring(s)' = NoRing
            BY <1>3, <2>1
        <3>3. Held(s)' = [line |-> load'[s].line, escaped |-> load'[s].escaped, ring |-> Ring(s)']
            BY DEF Held
        <3>4. Held(s)' = [line |-> <<>>, escaped |-> FALSE, ring |-> NoRing]
            BY <3>1, <3>2, <3>3, Zenon
        <3> QED BY <3>1, <3>4 DEF Fresh
    <2>3. SubSeq(file', 1, 0) = <<>>
        BY SubSeqEmpty
    <2>4. Decode(Fresh, <<>>) = Fresh
        BY FreshIs, DecodeIs
    <2>5. Len(file') \in Nat
        BY <1>5, LenProperties DEF HistoryTypes, HistoryText
    <2>6. source'[s] # Unknown => Holds(source[s])'
        BY <1>1, <1>2, <1>4 DEF Holds
    <2>7. load'[s].offset <= Len(file')
        BY <2>2, <2>5
    <2>8. Held(s)' = Decode(Fresh, SubSeq(file', 1, load'[s].offset))
        BY <2>2, <2>3, <2>4, Zenon
    <2> QED BY <1>4, <2>6, <2>7, <2>8 DEF ShellHolds
<1>8. saved' # Unknown => Holds(saved)'
    BY <1>1, <1>2 DEF Holds
<1>9. Saving' = Saving
    BY <1>2, <1>4 DEF Saving
<1>10. SavesAlone'
    BY <1>1, <1>2, <1>9 DEF SavesAlone
<1> QED BY <1>5, <1>6, <1>7, <1>8, <1>10 DEF HistoryInv

LEMMA SavingLess ==
    ASSUME SavesAlone, Saving' \subseteq Saving, UNCHANGED <<file, mixed>>
    PROVE  SavesAlone'
<1> SUFFICES ASSUME ~mixed', NEW t \in Saving' PROVE Saving' = {t} /\ file' = <<>>
    BY DEF SavesAlone
<1>1. Saving = {t} /\ file = <<>>
    BY DEF SavesAlone
<1> QED BY <1>1

LEMMA LoadReadInv == ASSUME HistoryInv, NEW s \in Shells, history_load_read(s) PROVE HistoryInv'
<1>1. HistoryTypes /\ (\A t \in Shells : ShellHolds(t)) /\ (saved # Unknown => Holds(saved)) /\ SavesAlone
    BY DEF HistoryInv
<1>2. PICK at \in Nat : at = load[s].offset
    BY <1>1 DEF HistoryTypes
<1>3. Len(file) \in Nat /\ file \in Seq(HistoryChar) /\ BUF \in Nat
    BY <1>1, LenProperties, HistoryLimits DEF HistoryTypes, HistoryText
<1>4. PICK z \in 0 .. Len(file) : z = IF Len(file) < at + BUF THEN Len(file) ELSE at + BUF
    BY <1>3
<1>5. PICK buf \in HistoryText : buf = SubSeq(file, at + 1, z) /\ Len(buf) = (IF at + 1 <= z THEN z - at ELSE 0)
    <2>1. \A i \in at + 1 .. z : file[i] \in HistoryChar
        BY <1>3, <1>4, ElementOfSeq
    <2>2. /\ SubSeq(file, at + 1, z) \in Seq(HistoryChar)
          /\ Len(SubSeq(file, at + 1, z)) = (IF at + 1 <= z THEN z - (at + 1) + 1 ELSE 0)
        BY <1>4, <2>1, SubSeqProperties
    <2>3. Len(SubSeq(file, at + 1, z)) = (IF at + 1 <= z THEN z - at ELSE 0)
        BY <1>4, <2>2
    <2> QED BY <2>2, <2>3 DEF HistoryText
<1>6. PICK e \in Partial : e = Held(s)
    BY <1>1, RingIs
<1>7. PICK d \in Partial : d = Decode(e, buf)
    BY DecodeIs
<1>8. /\ phase[s] = "loading" /\ buf # <<>>
      /\ load' = [load EXCEPT ![s] = [offset |-> at + Len(buf), line |-> d.line, escaped |-> d.escaped]]
      /\ SetRing(s, d.ring)
      /\ UNCHANGED <<phase, file, saved, mixed, source, remembered>>
    BY <1>2, <1>4, <1>5, <1>6, <1>7 DEF history_load_read, Held
<1>9. d.ring \in GoodRing /\ d.line \in HistoryLine /\ d.escaped \in BOOLEAN /\ Len(buf) \in Nat
    BY <1>3, <1>4, <1>5 DEF Partial
<1>10. /\ history' \in [Shells -> [HistorySlots -> HistoryLine]]
       /\ history_head' \in [Shells -> HistorySlots]
       /\ history_count' \in [Shells -> 0 .. HISTORY_MAX]
       /\ Ring(s)' = d.ring
       /\ \A t \in Shells : t # s => Ring(t)' = Ring(t)
       /\ \A t \in Shells : Ring(t)' \in GoodRing
    BY <1>1, <1>8, <1>9, SetRingIs
<1>11. /\ load'[s] = [offset |-> at + Len(buf), line |-> d.line, escaped |-> d.escaped]
       /\ \A t \in Shells : t # s => load'[t] = load[t]
       /\ load' \in [Shells -> [offset : Nat, line : HistoryLine, escaped : BOOLEAN]]
    BY <1>1, <1>8, <1>9 DEF HistoryTypes
<1>12. HistoryTypes'
    BY <1>1, <1>8, <1>10, <1>11 DEF HistoryTypes
<1>13. ASSUME NEW t \in Shells, t # s PROVE ShellHolds(t)'
    BY <1>1, <1>8, <1>10, <1>11, <1>13, OthersHold
<1>14. ShellHolds(s)'
    <2>1. phase'[s] = "loading" /\ source'[s] = source[s] /\ file' = file
        BY <1>8
    <2>2. ASSUME source[s] # Unknown
          PROVE  /\ Holds(source[s])' /\ load'[s].offset <= Len(file')
                 /\ Held(s)' = Decode(Fresh, SubSeq(file', 1, load'[s].offset))
        <3>1. /\ Holds(source[s]) /\ at <= Len(file)
              /\ e = Decode(Fresh, SubSeq(file, 1, at))
            BY <1>1, <1>2, <1>6, <1>8, <2>2 DEF ShellHolds
        <3>2. Holds(source[s])'
            BY <2>1, <3>1 DEF Holds
        <3>3. Len(buf) = z - at /\ at < z
            <4>1. at + 1 <= z
                BY <1>3, <1>4, <1>5, <1>8, EmptySeq DEF HistoryText
            <4> QED BY <1>4, <1>5, <4>1
        <3>4. load'[s].offset = z /\ z <= Len(file')
            <4>1. at + Len(buf) = z
                BY <1>4, <3>3
            <4> QED BY <1>3, <1>4, <1>11, <2>1, <4>1
        <3>5. PICK a \in HistoryText : a = SubSeq(file, 1, at) /\ a \o buf = SubSeq(file, 1, z)
            <4>1. SubSeq(file, 1, at) \in HistoryText
                <5>1. \A i \in 1 .. at : file[i] \in HistoryChar
                    BY <1>3, <3>1, ElementOfSeq
                <5> QED BY <5>1, SubSeqProperties DEF HistoryText
            <4>2. SubSeq(file, 1, at) \o SubSeq(file, at + 1, z) = SubSeq(file, 1, z)
                <5>1. 1 \in 1 .. Len(file) + 1 /\ at \in 1 - 1 .. Len(file) /\ z \in at .. Len(file)
                    BY <1>3, <1>4, <3>1, <3>3
                <5> QED BY <1>3, <5>1, ConcatAdjacentSubSeq
            <4> QED BY <1>5, <4>1, <4>2
        <3>6. PICK f \in Partial : f = Fresh
            BY FreshIs
        <3>7. Decode(f, a \o buf) = Decode(Decode(f, a), buf)
            BY DecodeConcat
        <3>8. d = Decode(Fresh, SubSeq(file, 1, z))
            BY <1>7, <3>1, <3>5, <3>6, <3>7
        <3>9. Held(s)' = d
            <4>1. Held(s)' = [line |-> d.line, escaped |-> d.escaped, ring |-> d.ring]
                BY <1>10, <1>11 DEF Held
            <4>2. [line |-> d.line, escaped |-> d.escaped, ring |-> d.ring] = d
                BY DEF Partial
            <4> QED BY <4>1, <4>2
        <3> QED BY <2>1, <3>2, <3>4, <3>8, <3>9
    <2> QED BY <2>1, <2>2 DEF ShellHolds
<1>15. saved' # Unknown => Holds(saved)'
    BY <1>1, <1>8 DEF Holds
<1>16. SavesAlone'
    <2>1. Saving' = Saving
        BY <1>8 DEF Saving
    <2> QED BY <1>1, <1>8, <2>1, SavingLess
<1> QED BY <1>12, <1>13, <1>14, <1>15, <1>16 DEF HistoryInv

LEMMA LoadEndInv == ASSUME HistoryInv, NEW s \in Shells, history_load_end(s) PROVE HistoryInv'
<1>1. HistoryTypes /\ (\A t \in Shells : ShellHolds(t)) /\ (saved # Unknown => Holds(saved)) /\ SavesAlone
    BY DEF HistoryInv
<1>2. load[s].line \in HistoryLine /\ load[s].escaped \in BOOLEAN /\ load[s].offset \in Nat
    BY <1>1 DEF HistoryTypes
<1>3. PICK line \in HistoryLine :
          line = IF load[s].escaped THEN Extended(load[s].line, Backslash) ELSE load[s].line
    <2>1. Extended(load[s].line, Backslash) \in HistoryLine
        BY <1>2, ExtendedIs, HistoryChars
    <2> QED BY <1>2, <2>1
<1>4. PICK ring \in GoodRing : ring = history_push(Ring(s), line) /\ (line = <<>> => ring = Ring(s))
    BY <1>1, RingIs, PushType
<1>5. /\ phase[s] = "loading" /\ load[s].offset >= Len(file)
      /\ SetRing(s, ring)
      /\ remembered' = [remembered EXCEPT ![s] =
             IF source[s] = Unknown THEN Contents(ring) ELSE Fitting(source[s])]
      /\ phase' = [phase EXCEPT ![s] = "run"]
      /\ load' = [load EXCEPT ![s] = NoLoad]
      /\ source' = [source EXCEPT ![s] = Unknown]
      /\ UNCHANGED <<file, saved, mixed>>
    BY <1>3, <1>4 DEF history_load_end
<1>6. /\ history' \in [Shells -> [HistorySlots -> HistoryLine]]
      /\ history_head' \in [Shells -> HistorySlots]
      /\ history_count' \in [Shells -> 0 .. HISTORY_MAX]
      /\ Ring(s)' = ring
      /\ \A t \in Shells : t # s => Ring(t)' = Ring(t)
      /\ \A t \in Shells : Ring(t)' \in GoodRing
    BY <1>1, <1>5, SetRingIs
<1>7. NoLoad \in [offset : Nat, line : HistoryLine, escaped : BOOLEAN]
    BY HistoryChars DEF NoLoad
<1>8. /\ phase'[s] = "run" /\ load'[s] = NoLoad
      /\ remembered'[s] = IF source[s] = Unknown THEN Contents(ring) ELSE Fitting(source[s])
    BY <1>1, <1>5 DEF HistoryTypes
<1>9. \A t \in Shells : t # s => /\ phase'[t] = phase[t] /\ load'[t] = load[t]
                                 /\ remembered'[t] = remembered[t] /\ source'[t] = source[t]
    BY <1>1, <1>5 DEF HistoryTypes
<1>10. HistoryTypes'
    BY <1>1, <1>5, <1>6, <1>7 DEF HistoryTypes
<1>11. ASSUME NEW t \in Shells, t # s PROVE ShellHolds(t)'
    BY <1>1, <1>5, <1>6, <1>9, <1>11, OthersHold
<1>12. ShellHolds(s)'
    <2>1. Contents(ring) = remembered'[s]
        <3>1. CASE source[s] = Unknown
            BY <1>8, <3>1
        <3>2. CASE source[s] # Unknown
            <4>1. /\ Holds(source[s]) /\ load[s].offset <= Len(file)
                  /\ Held(s) = Decode(Fresh, SubSeq(file, 1, load[s].offset))
                BY <1>1, <1>5, <3>2 DEF ShellHolds
            <4>2. Len(file) \in Nat /\ file \in Seq(HistoryChar)
                BY <1>1, LenProperties DEF HistoryTypes, HistoryText
            <4>3. SubSeq(file, 1, load[s].offset) = file
                <5>1. load[s].offset = Len(file)
                    BY <1>2, <1>5, <4>1, <4>2
                <5> QED BY <4>2, <5>1, SubSeqFull
            <4>4. PICK ls \in Seq(HistoryEntry) : /\ ls = Fitting(source[s]) /\ Len(ls) <= HISTORY_MAX
                                                  /\ file = EncodedAll[ls]
                BY <4>1, FittingIs DEF Holds
            <4>5. PICK r \in GoodRing : /\ Held(s) = [line |-> <<>>, escaped |-> FALSE, ring |-> r]
                                        /\ Contents(r) = ls
                BY <4>1, <4>3, <4>4, SavedIsLoaded
            <4>6. load[s].line = <<>> /\ load[s].escaped = FALSE /\ Ring(s) = r
                BY <4>5 DEF Held
            <4>7. line = <<>>
                BY <1>3, <4>6
            <4> QED BY <1>4, <1>8, <3>2, <4>4, <4>5, <4>6, <4>7
        <3> QED BY <3>1, <3>2
    <2> QED BY <1>6, <1>8, <2>1 DEF ShellHolds
<1>13. saved' # Unknown => Holds(saved)'
    BY <1>1, <1>5 DEF Holds
<1>14. SavesAlone'
    <2>1. Saving' \subseteq Saving
        BY <1>8, <1>9 DEF Saving
    <2> QED BY <1>1, <1>5, <2>1, SavingLess
<1> QED BY <1>10, <1>11, <1>12, <1>13, <1>14 DEF HistoryInv

LEMMA EnteredInv ==
    ASSUME HistoryInv, NEW s \in Shells, NEW line \in Entered, Push(s, line) PROVE HistoryInv'
<1>1. HistoryTypes /\ (\A t \in Shells : ShellHolds(t)) /\ (saved # Unknown => Holds(saved)) /\ SavesAlone
    BY DEF HistoryInv
<1>2. line \in HistoryEntry
    <2>1. line \in HistoryText /\ Len(line) \in 1 .. CMDLINE_MAX - 1
        BY EnteredAssumption
    <2>2. line # <<>>
        <3>1. line \in Seq(HistoryChar) /\ Len(line) # 0
            BY <2>1 DEF HistoryText
        <3> QED BY <3>1, EmptySeq
    <2> QED BY <2>1, <2>2, HistoryLimits DEF HistoryEntry, HistoryLine
<1>3. PICK r \in GoodRing : /\ r = history_push(Ring(s), line)
                            /\ Contents(r) = LastOf(Append(Contents(Ring(s)), line), HISTORY_MAX)
    BY <1>1, <1>2, RingIs, PushIntoRing
<1>4. /\ phase[s] = "run" /\ SetRing(s, r)
      /\ remembered' = [remembered EXCEPT ![s] = LastOf(Append(@, line), HISTORY_MAX)]
      /\ UNCHANGED <<phase, load, file, saved, mixed, source>>
    BY <1>3 DEF Push
<1>5. /\ history' \in [Shells -> [HistorySlots -> HistoryLine]]
      /\ history_head' \in [Shells -> HistorySlots]
      /\ history_count' \in [Shells -> 0 .. HISTORY_MAX]
      /\ Ring(s)' = r
      /\ \A t \in Shells : t # s => Ring(t)' = Ring(t)
      /\ \A t \in Shells : Ring(t)' \in GoodRing
    BY <1>1, <1>4, SetRingIs
<1>6. /\ remembered'[s] = LastOf(Append(remembered[s], line), HISTORY_MAX)
      /\ \A t \in Shells : t # s => remembered'[t] = remembered[t]
    BY <1>1, <1>4 DEF HistoryTypes
<1>7. HistoryTypes'
    BY <1>1, <1>4, <1>5 DEF HistoryTypes
<1>8. ASSUME NEW t \in Shells, t # s PROVE ShellHolds(t)'
    BY <1>1, <1>4, <1>5, <1>6, <1>8, OthersHold
<1>9. ShellHolds(s)'
    <2>1. Contents(Ring(s)) = remembered[s] /\ load[s] = NoLoad
        BY <1>1, <1>4 DEF ShellHolds
    <2>2. Contents(Ring(s)') = remembered'[s]
        BY <1>3, <1>5, <1>6, <2>1
    <2>3. phase'[s] = "run" /\ load'[s] = NoLoad
        BY <1>4, <2>1
    <2> QED BY <2>2, <2>3 DEF ShellHolds
<1>10. saved' # Unknown => Holds(saved)'
    BY <1>1, <1>4 DEF Holds
<1>11. SavesAlone'
    <2>1. Saving' = Saving
        BY <1>4 DEF Saving
    <2> QED BY <1>1, <1>4, <2>1, SavingLess
<1> QED BY <1>7, <1>8, <1>9, <1>10, <1>11 DEF HistoryInv

LEMMA WriteOpenInv == ASSUME HistoryInv, NEW s \in Shells, history_write_open(s) PROVE HistoryInv'
<1>1. HistoryTypes /\ (\A t \in Shells : ShellHolds(t))
    BY DEF HistoryInv
<1>2. /\ phase[s] = "run" /\ phase' = [phase EXCEPT ![s] = "saving"] /\ file' = <<>>
      /\ saved' = Unknown /\ mixed' = (Saving # {}) /\ Touched
      /\ UNCHANGED <<history, history_head, history_count, load, remembered>>
    BY DEF history_write_open
<1>3. \A t \in Shells : Ring(t)' = Ring(t)
    BY <1>2, SameRing
<1>4. /\ phase'[s] = "saving" /\ \A t \in Shells : t # s => phase'[t] = phase[t]
    BY <1>1, <1>2 DEF HistoryTypes
<1>5. \A t \in Shells : phase[t] = "loading" => source'[t] = Unknown
    BY <1>2 DEF Touched
<1>6. HistoryTypes'
    <2>1. /\ phase' \in [Shells -> {"off", "loading", "run", "saving"}]
          /\ DOMAIN source' = Shells /\ mixed' \in BOOLEAN
        BY <1>1, <1>2 DEF HistoryTypes, Touched
    <2>2. file' \in HistoryText /\ Len(file') <= FS_FILE_MAX_SIZE
        BY <1>2, HistoryChars, HistoryLimits
    <2> QED BY <1>1, <1>2, <1>3, <2>1, <2>2 DEF HistoryTypes
<1>7. ASSUME NEW t \in Shells, t # s PROVE ShellHolds(t)'
    BY <1>1, <1>2, <1>3, <1>4, <1>5, <1>7, OthersHold
<1>8. ShellHolds(s)'
    <2>1. Contents(Ring(s)) = remembered[s] /\ load[s] = NoLoad
        BY <1>1, <1>2 DEF ShellHolds
    <2>2. Contents(Ring(s)') = remembered'[s] /\ load'[s] = NoLoad
        BY <1>2, <1>3, <2>1
    <2> QED BY <1>4, <2>2 DEF ShellHolds
<1>9. SavesAlone'
    <2>1. Saving' = Saving \cup {s}
        BY <1>4 DEF Saving
    <2> QED BY <1>2, <2>1 DEF SavesAlone
<1> QED BY <1>2, <1>6, <1>7, <1>8, <1>9 DEF HistoryInv

LEMMA WriteInv == ASSUME HistoryInv, NEW s \in Shells, history_write(s) PROVE HistoryInv'
<1>1. HistoryTypes /\ (\A t \in Shells : ShellHolds(t)) /\ SavesAlone
    BY DEF HistoryInv
<1>2. PICK ls \in Seq(HistoryEntry) : ls = Contents(Ring(s)) /\ Len(ls) <= HISTORY_MAX
    BY <1>1, RingIs
<1>3. PICK out \in HistoryText : out = EncodedAll[Fitting(ls)] /\ Len(out) <= FS_FILE_MAX_SIZE
    BY <1>2, FittingIs
<1>4. out = history_serialize(s)
    BY <1>2, <1>3 DEF history_serialize
<1>5. /\ phase[s] = "saving"
      /\ file' = out \o SubSeq(file, Len(out) + 1, Len(file))
      /\ saved' = IF mixed THEN Unknown ELSE remembered[s]
      /\ Touched
      /\ phase' = [phase EXCEPT ![s] = "off"]
      /\ SetRing(s, NoRing)
      /\ remembered' = [remembered EXCEPT ![s] = <<>>]
      /\ UNCHANGED <<load, mixed>>
    BY <1>4 DEF history_write, NoRing
<1>6. /\ history' \in [Shells -> [HistorySlots -> HistoryLine]]
      /\ history_head' \in [Shells -> HistorySlots]
      /\ history_count' \in [Shells -> 0 .. HISTORY_MAX]
      /\ Ring(s)' = NoRing
      /\ \A t \in Shells : t # s => Ring(t)' = Ring(t)
      /\ \A t \in Shells : Ring(t)' \in GoodRing
    BY <1>1, <1>5, NoRingIs, SetRingIs
<1>7. /\ phase'[s] = "off" /\ \A t \in Shells : t # s => phase'[t] = phase[t]
      /\ \A t \in Shells : t # s => remembered'[t] = remembered[t]
    BY <1>1, <1>5 DEF HistoryTypes
<1>8. \A t \in Shells : phase[t] = "loading" => source'[t] = Unknown
    BY <1>5 DEF Touched
<1>9. file' \in HistoryText /\ Len(file') <= FS_FILE_MAX_SIZE /\ (file = <<>> => file' = out)
    <2>1. /\ file \in Seq(HistoryChar) /\ Len(file) \in Nat /\ Len(file) <= FS_FILE_MAX_SIZE
          /\ out \in Seq(HistoryChar) /\ Len(out) \in Nat /\ FS_FILE_MAX_SIZE \in Nat
        BY <1>1, LenProperties, HistoryLimits DEF HistoryTypes, HistoryText
    <2>2. PICK m \in Nat : m = Len(out) + 1
        BY <2>1
    <2>3. \A i \in m .. Len(file) : file[i] \in HistoryChar
        BY <2>1, <2>2, ElementOfSeq
    <2>4. PICK u \in Seq(HistoryChar) : /\ u = SubSeq(file, m, Len(file))
                                        /\ Len(u) = (IF m <= Len(file) THEN Len(file) - m + 1 ELSE 0)
        <3>1. /\ SubSeq(file, m, Len(file)) \in Seq(HistoryChar)
              /\ Len(SubSeq(file, m, Len(file))) = (IF m <= Len(file) THEN Len(file) - m + 1 ELSE 0)
            BY <2>1, <2>3, SubSeqProperties
        <3> QED BY <3>1
    <2>5. out \o u \in Seq(HistoryChar) /\ Len(out \o u) = Len(out) + Len(u) /\ out \o <<>> = out
        BY <2>1, Longer
    <2>6. Len(out) + Len(u) <= FS_FILE_MAX_SIZE
        <3>1. CASE m <= Len(file)
            <4>1. Len(u) = Len(file) - Len(out)
                BY <2>1, <2>2, <2>4, <3>1
            <4> QED BY <2>1, <4>1
        <3>2. CASE ~(m <= Len(file))
            BY <1>3, <2>1, <2>4, <3>2
        <3> QED BY <3>1, <3>2
    <2>7. file = <<>> => u = <<>>
        BY <2>1, <2>2, <2>4, EmptySeq
    <2> QED BY <1>5, <2>2, <2>4, <2>5, <2>6, <2>7 DEF HistoryText
<1>10. HistoryTypes'
    <2>1. /\ phase' \in [Shells -> {"off", "loading", "run", "saving"}]
          /\ DOMAIN source' = Shells /\ DOMAIN remembered' = Shells
        BY <1>1, <1>5 DEF HistoryTypes, Touched
    <2> QED BY <1>1, <1>5, <1>6, <1>9, <2>1 DEF HistoryTypes
<1>11. ASSUME NEW t \in Shells, t # s PROVE ShellHolds(t)'
    BY <1>1, <1>5, <1>6, <1>7, <1>8, <1>11, OthersHold
<1>12. ShellHolds(s)'
    <2>1. load'[s] = NoLoad
        BY <1>1, <1>5 DEF ShellHolds
    <2> QED BY <1>6, <1>7, <2>1 DEF ShellHolds
<1>13. s \in Saving
    BY <1>5 DEF Saving
<1>14. saved' # Unknown => Holds(saved)'
    <2> SUFFICES ASSUME saved' # Unknown PROVE Holds(saved)'
        OBVIOUS
    <2>1. ~mixed /\ saved' = remembered[s]
        BY <1>5
    <2>2. file' = out
        BY <1>1, <1>9, <1>13, <2>1 DEF SavesAlone
    <2>3. remembered[s] = ls
        BY <1>1, <1>2, <1>5 DEF ShellHolds
    <2> QED BY <1>2, <1>3, <2>1, <2>2, <2>3 DEF Holds
<1>15. SavesAlone'
    <2> SUFFICES ASSUME ~mixed', NEW t \in Saving' PROVE FALSE
        BY DEF SavesAlone
    <2>1. t \in Saving /\ t # s
        BY <1>7 DEF Saving
    <2>2. Saving = {s}
        BY <1>1, <1>5, <1>13 DEF SavesAlone
    <2> QED BY <2>1, <2>2
<1> QED BY <1>10, <1>11, <1>12, <1>14, <1>15 DEF HistoryInv

LEMMA KillInv == ASSUME HistoryInv, NEW s \in Shells, Kill(s) PROVE HistoryInv'
<1>1. HistoryTypes /\ (\A t \in Shells : ShellHolds(t)) /\ (saved # Unknown => Holds(saved)) /\ SavesAlone
    BY DEF HistoryInv
<1>2. /\ phase' = [phase EXCEPT ![s] = "off"] /\ SetRing(s, NoRing)
      /\ load' = [load EXCEPT ![s] = NoLoad] /\ source' = [source EXCEPT ![s] = Unknown]
      /\ remembered' = [remembered EXCEPT ![s] = <<>>]
      /\ UNCHANGED <<file, saved, mixed>>
    BY DEF Kill, NoRing
<1>3. /\ history' \in [Shells -> [HistorySlots -> HistoryLine]]
      /\ history_head' \in [Shells -> HistorySlots]
      /\ history_count' \in [Shells -> 0 .. HISTORY_MAX]
      /\ Ring(s)' = NoRing
      /\ \A t \in Shells : t # s => Ring(t)' = Ring(t)
      /\ \A t \in Shells : Ring(t)' \in GoodRing
    BY <1>1, <1>2, NoRingIs, SetRingIs
<1>4. NoLoad \in [offset : Nat, line : HistoryLine, escaped : BOOLEAN]
    BY HistoryChars DEF NoLoad
<1>5. phase'[s] = "off" /\ load'[s] = NoLoad
    BY <1>1, <1>2 DEF HistoryTypes
<1>6. \A t \in Shells : t # s => /\ phase'[t] = phase[t] /\ load'[t] = load[t]
                                 /\ remembered'[t] = remembered[t] /\ source'[t] = source[t]
    BY <1>1, <1>2 DEF HistoryTypes
<1>7. HistoryTypes'
    BY <1>1, <1>2, <1>3, <1>4 DEF HistoryTypes
<1>8. ASSUME NEW t \in Shells, t # s PROVE ShellHolds(t)'
    BY <1>1, <1>2, <1>3, <1>6, <1>8, OthersHold
<1>9. ShellHolds(s)'
    BY <1>3, <1>5 DEF ShellHolds
<1>10. saved' # Unknown => Holds(saved)'
    BY <1>1, <1>2 DEF Holds
<1>11. SavesAlone'
    <2>1. Saving' \subseteq Saving
        BY <1>5, <1>6 DEF Saving
    <2> QED BY <1>1, <1>2, <2>1, SavingLess
<1> QED BY <1>7, <1>8, <1>9, <1>10, <1>11 DEF HistoryInv

LEMMA HistoryInitInv == HistoryInit => HistoryInv
<1> SUFFICES ASSUME HistoryInit PROVE HistoryInv
    OBVIOUS
<1>1. NoLoad \in [offset : Nat, line : HistoryLine, escaped : BOOLEAN]
    BY HistoryChars DEF NoLoad
<1>2. ASSUME NEW s \in Shells PROVE Ring(s) = NoRing
    BY DEF HistoryInit, Ring, NoRing
<1>3. NoHistory \in [HistorySlots -> HistoryLine] /\ 0 \in HistorySlots /\ 0 \in 0 .. HISTORY_MAX
    BY HistoryChars, HistoryLimits DEF NoHistory, HistorySlots
<1>4. file \in HistoryText /\ Len(file) <= FS_FILE_MAX_SIZE
    BY HistoryChars, HistoryLimits DEF HistoryInit
<1>5. HistoryTypes
    BY <1>1, <1>2, <1>3, <1>4, NoRingIs DEF HistoryInit, HistoryTypes
<1>6. ASSUME NEW s \in Shells PROVE ShellHolds(s)
    BY <1>2 DEF HistoryInit, ShellHolds
<1>7. Holds(saved)
    <2>1. PICK ls \in Seq(HistoryEntry) : ls = <<>> /\ Len(ls) = 0
        <3>1. <<>> \in Seq(HistoryEntry) /\ Len(<<>>) = 0
            BY EmptySeq
        <3> QED BY <3>1
    <2>2. Fitting(ls) = <<>>
        <3>1. \A k : SubSeq(<<>>, k, 0) = <<>> \/ k \notin 1 .. 1
            BY SubSeqEmpty
        <3>2. PICK k : Fitting(ls) = SubSeq(ls, k, Len(ls)) /\ k \in 1 .. Len(ls) + 1
            BY FittingFrom, <2>1, HistoryLimits
        <3> QED BY <2>1, <3>1, <3>2
    <2>3. EncodedAll[<<>>] = <<>>
        BY EncodedAllIs
    <2> QED BY <2>1, <2>2, <2>3, HistoryLimits DEF Holds, HistoryInit
<1>8. SavesAlone
    <2>1. Saving = {}
        BY DEF Saving, HistoryInit
    <2> QED BY <2>1 DEF SavesAlone
<1> QED BY <1>5, <1>6, <1>7, <1>8 DEF HistoryInv

LEMMA HistoryStutter == ASSUME HistoryInv, UNCHANGED historyVars PROVE HistoryInv'
<1>1. HistoryTypes /\ (\A t \in Shells : ShellHolds(t)) /\ (saved # Unknown => Holds(saved)) /\ SavesAlone
    BY DEF HistoryInv
<1>2. UNCHANGED <<phase, history, history_head, history_count, load, file, saved, mixed, source, remembered>>
    BY DEF historyVars
<1>3. \A t \in Shells : Ring(t)' = Ring(t)
    BY <1>2, SameRing
<1>4. HistoryTypes'
    BY <1>1, <1>2, <1>3 DEF HistoryTypes
<1>5. ASSUME NEW t \in Shells PROVE ShellHolds(t)'
    BY <1>1, <1>2, <1>3, OthersHold
<1>6. saved' # Unknown => Holds(saved)'
    BY <1>1, <1>2 DEF Holds
<1>7. SavesAlone'
    BY <1>1, <1>2 DEF SavesAlone, Saving
<1> QED BY <1>4, <1>5, <1>6, <1>7 DEF HistoryInv

LEMMA HistoryInvImplies == HistoryInv => HistoryKept
<1> SUFFICES ASSUME HistoryInv PROVE HistoryKept
    OBVIOUS
<1>1. HistoryTypes /\ \A s \in Shells : ShellHolds(s)
    BY DEF HistoryInv
<1>2. ASSUME NEW s \in Shells
      PROVE  /\ history_head[s] \in HistorySlots /\ history_count[s] \in 0 .. HISTORY_MAX
             /\ Len(load[s].line) < CMDLINE_MAX
             /\ \A i \in HistorySlots : Len(history[s][i]) < CMDLINE_MAX
    BY <1>1 DEF HistoryTypes, HistoryLine
<1>3. HistoryTypeOK
    BY <1>1, <1>2 DEF HistoryTypeOK, HistoryTypes
<1>4. LinesRemembered
    BY <1>1 DEF ShellHolds, LinesRemembered
<1> QED BY <1>3, <1>4 DEF HistoryKept

\* The shell's history is kept, for any number of shells, any lines and sizes: a file
\* that is damaged or written by two is loaded within the limits (history_load), a
\* whole one gives the lines back that history_write found room for, as they were
\* entered, and the ring has the newest of them (history_push, history_get).
THEOREM HistorySafe == HistorySpec => []HistoryKept
<1>1. HistoryInv /\ [HistoryNext]_historyVars => HistoryInv'
    <2> SUFFICES ASSUME HistoryInv, [HistoryNext]_historyVars PROVE HistoryInv'
        OBVIOUS
    <2>1. ASSUME NEW s \in Shells,
                 \/ Start(s) \/ history_load_read(s) \/ history_load_end(s)
                 \/ \E line \in Entered : Push(s, line)
                 \/ history_write_open(s) \/ history_write(s)
                 \/ Kill(s)
          PROVE  HistoryInv'
        BY <2>1, StartInv, LoadReadInv, LoadEndInv, EnteredInv, WriteOpenInv, WriteInv, KillInv
    <2> QED BY <2>1, HistoryStutter DEF HistoryNext
<1> QED BY <1>1, HistoryInitInv, HistoryInvImplies, PTL DEF HistorySpec
=============================================================================
