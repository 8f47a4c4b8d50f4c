------------------------------- MODULE History ------------------------------
(***************************************************************************)
(* The command history of the shell (user/apps/shell/utils.c): a ring of   *)
(* lines in each shell process, loaded from /.history when it starts and   *)
(* saved there when it exits.                                              *)
(*                                                                         *)
(* A shell can be run from a shell, also in the background, so that several*)
(* use the file; only system calls are atomic.  A line is a sequence of    *)
(* characters: the escapes are what makes saving and loading hard.         *)
(***************************************************************************)
EXTENDS ShellLimits, Integers, Sequences, SequencesExt

CONSTANTS Shells, Entered,        \* processes; the lines that are entered
          FS_FILE_MAX_SIZE, BUF   \* bytes of a file; of a read in history_load

HistorySlots == 0 .. HISTORY_MAX - 1
Backslash == "\\"
Newline == "newline"
Return == "return"

HistoryChar == {Backslash, Newline, "n"} \cup UNION {Range(line) : line \in Entered}
HistoryText == Seq(HistoryChar)

ASSUME HistorySizes == {FS_FILE_MAX_SIZE, BUF} \subseteq Nat \ {0}
\* The line editor ends a line at a return and holds at most CMDLINE_MAX - 1
\* characters; of an empty line nothing is entered.
ASSUME EnteredAssumption ==
    /\ \A line \in Entered : line \in HistoryText /\ Len(line) \in 1 .. CMDLINE_MAX - 1
    /\ Return \notin HistoryChar

VARIABLES
    phase,          \* per shell: off, loading, run, saving
    history, history_head, history_count,
    load,           \* per shell: file offset, line read so far, escaped
    file,           \* /.history
    saved,          \* history: the lines of the last shell that saved alone, or Unknown
    mixed,          \* history: two shells were saving at a time
    source,         \* history, per shell: saved, if the file stayed as it was
    remembered      \* history, per shell: the lines it should have

historyVars == <<phase, history, history_head, history_count, load, file, saved, mixed,
          source, remembered>>

Unknown == << <<"unknown">> >>
NoLoad == [offset |-> 0, line |-> <<>>, escaped |-> FALSE]
NoHistory == [i \in HistorySlots |-> <<>>]

HistoryInit ==
    /\ phase = [s \in Shells |-> "off"]
    /\ history = [s \in Shells |-> NoHistory]
    /\ history_head = [s \in Shells |-> 0]
    /\ history_count = [s \in Shells |-> 0]
    /\ load = [s \in Shells |-> NoLoad]
    /\ file = <<>>
    /\ saved = <<>>
    /\ mixed = FALSE
    /\ source = [s \in Shells |-> Unknown]
    /\ remembered = [s \in Shells |-> <<>>]

-----------------------------------------------------------------------------
(* The ring.                                                               *)

Ring(s) == [lines |-> history[s], head |-> history_head[s], count |-> history_count[s]]

history_push(r, line) ==
    IF line = <<>> THEN r
    ELSE IF r.count < HISTORY_MAX
      THEN [r EXCEPT !.lines[(r.head + r.count) % HISTORY_MAX] = line, !.count = r.count + 1]
      ELSE [r EXCEPT !.lines[r.head] = line, !.head = (r.head + 1) % HISTORY_MAX]

history_get(r, pos) == r.lines[(r.head + pos) % HISTORY_MAX]

\* The lines of a ring, oldest first.
Contents(r) == [i \in 1 .. r.count |-> history_get(r, i - 1)]

SetRing(s, r) ==
    /\ history' = [history EXCEPT ![s] = r.lines]
    /\ history_head' = [history_head EXCEPT ![s] = r.head]
    /\ history_count' = [history_count EXCEPT ![s] = r.count]

LastOf(lines, n) == SubSeq(lines, IF Len(lines) > n THEN Len(lines) - n + 1 ELSE 1, Len(lines))

Push(s, line) ==
    /\ phase[s] = "run"
    /\ SetRing(s, history_push(Ring(s), line))
    /\ remembered' = [remembered EXCEPT ![s] = LastOf(Append(@, line), HISTORY_MAX)]
    /\ UNCHANGED <<phase, load, file, saved, mixed, source>>

-----------------------------------------------------------------------------
(* Saving.                                                                 *)

Encoded_Plain(line) == Append(line, Newline)

\* No line is entered with a newline in it, but a broken file can hold one.
Escape(c) ==
    CASE c = Backslash -> <<Backslash, Backslash>>
      [] c = Newline -> <<Backslash, "n">>
      [] OTHER -> <<c>>

Escaped[line \in HistoryText] ==
    IF line = <<>> THEN <<>> ELSE Escaped[Front(line)] \o Escape(Last(line))

Encoded(line) == Append(Escaped[line], Newline)

EncodedAll[lines \in Seq(HistoryText)] ==
    IF lines = <<>> THEN <<>> ELSE EncodedAll[Front(lines)] \o Encoded(Last(lines))

\* From the newest line back, as long as all of it fits.
Fitting(lines) ==
    LET fits == {i \in 1 .. Len(lines) + 1 :
                    Len(EncodedAll[SubSeq(lines, i, Len(lines))]) <= FS_FILE_MAX_SIZE}
    IN SubSeq(lines, CHOOSE i \in fits : \A j \in fits : i <= j, Len(lines))

history_serialize(s) == EncodedAll[Fitting(Contents(Ring(s)))]

Saving == {s \in Shells : phase[s] = "saving"}

Touched == source' = [t \in Shells |-> IF phase[t] = "loading" THEN Unknown ELSE source[t]]

history_write_open(s) ==
    /\ phase[s] = "run"
    /\ phase' = [phase EXCEPT ![s] = "saving"]
    /\ file' = <<>>
    /\ saved' = Unknown
    /\ mixed' = (Saving # {})
    /\ Touched
    /\ UNCHANGED <<history, history_head, history_count, load, remembered>>

\* The write starts at the beginning and leaves what is behind it.
history_write(s) ==
    LET out == history_serialize(s) IN
    /\ phase[s] = "saving"
    /\ file' = out \o SubSeq(file, Len(out) + 1, Len(file))
    /\ saved' = IF mixed THEN Unknown ELSE remembered[s]
    /\ Touched
    /\ phase' = [phase EXCEPT ![s] = "off"]
    /\ SetRing(s, [lines |-> NoHistory, head |-> 0, count |-> 0])
    /\ remembered' = [remembered EXCEPT ![s] = <<>>]
    /\ UNCHANGED <<load, mixed>>

-----------------------------------------------------------------------------
(* Loading.                                                                *)

Start(s) ==
    /\ phase[s] = "off"
    /\ phase' = [phase EXCEPT ![s] = "loading"]
    /\ source' = [source EXCEPT ![s] = saved]
    /\ UNCHANGED <<history, history_head, history_count, load, file, saved, mixed, remembered>>

\* What is longer than a command line is cut.
Extended(line, c) == IF Len(line) < CMDLINE_MAX - 1 THEN Append(line, c) ELSE line

Decoded(d, c) ==
    CASE c = Return -> d
      [] c # Return /\ d.escaped ->
           [d EXCEPT !.escaped = FALSE, !.line = Extended(@, IF c = "n" THEN Newline ELSE c)]
      [] ~d.escaped /\ c = Backslash -> [d EXCEPT !.escaped = TRUE]
      [] ~d.escaped /\ c = Newline -> [d EXCEPT !.line = <<>>, !.ring = history_push(@, d.line)]
      [] OTHER -> [d EXCEPT !.line = Extended(@, c)]

\* The characters of a read, one after the other.
Decode(d, chars) ==
    LET decode[cs \in HistoryText] ==
            IF cs = <<>> THEN d ELSE Decoded(decode[Front(cs)], Last(cs))
    IN decode[chars]

history_load_read(s) ==
    LET at == load[s].offset
        buf == SubSeq(file, at + 1, IF Len(file) < at + BUF THEN Len(file) ELSE at + BUF)
        d == Decode([line |-> load[s].line, escaped |-> load[s].escaped, ring |-> Ring(s)], buf)
    IN
    /\ phase[s] = "loading" /\ buf # <<>>
    /\ load' = [load EXCEPT ![s] =
           [offset |-> at + Len(buf), line |-> d.line, escaped |-> d.escaped]]
    /\ SetRing(s, d.ring)
    /\ UNCHANGED <<phase, file, saved, mixed, source, remembered>>

\* A cut off file may end inside a line or an escape.
history_load_end(s) ==
    LET line == IF load[s].escaped THEN Extended(load[s].line, Backslash) ELSE load[s].line
        ring == history_push(Ring(s), line)
    IN
    /\ phase[s] = "loading" /\ load[s].offset >= Len(file)
    /\ SetRing(s, ring)
    /\ remembered' = [remembered EXCEPT ![s] =
           IF source[s] = Unknown THEN Contents(ring) ELSE Fitting(source[s])]
    /\ phase' = [phase EXCEPT ![s] = "run"]
    /\ load' = [load EXCEPT ![s] = NoLoad]
    /\ source' = [source EXCEPT ![s] = Unknown]
    /\ UNCHANGED <<file, saved, mixed>>

Kill(s) ==
    /\ phase[s] # "off"
    /\ phase' = [phase EXCEPT ![s] = "off"]
    /\ SetRing(s, [lines |-> NoHistory, head |-> 0, count |-> 0])
    /\ load' = [load EXCEPT ![s] = NoLoad]
    /\ source' = [source EXCEPT ![s] = Unknown]
    /\ remembered' = [remembered EXCEPT ![s] = <<>>]
    /\ UNCHANGED <<file, saved, mixed>>

HistoryNext ==
    \E s \in Shells :
        \/ Start(s) \/ history_load_read(s) \/ history_load_end(s)
        \/ \E line \in Entered : Push(s, line)
        \/ history_write_open(s) \/ history_write(s)
        \/ Kill(s)

HistorySpec == HistoryInit /\ [][HistoryNext]_historyVars

-----------------------------------------------------------------------------
\* Lines fit their slots of the ring, also those of a file that two shells
\* wrote into or that was cut off (history_load).
HistoryTypeOK ==
    /\ phase \in [Shells -> {"off", "loading", "run", "saving"}]
    /\ \A s \in Shells :
          /\ history_head[s] \in HistorySlots /\ history_count[s] \in 0 .. HISTORY_MAX
          /\ Len(load[s].line) < CMDLINE_MAX
          /\ \A i \in HistorySlots : Len(history[s][i]) < CMDLINE_MAX
    /\ Len(file) <= FS_FILE_MAX_SIZE

\* A shell remembers, oldest first, the newest lines among those entered in it
\* and before them those the file holds of the shell that saved last: as many
\* as fit the file, each as it was entered, backslashes included.  Nothing is
\* claimed of a file that changed while it was read or that two wrote into.
LinesRemembered ==
    \A s \in Shells : phase[s] \in {"run", "saving"} =>
        Contents(Ring(s)) = remembered[s]

\* Together: a damaged file is loaded within the limits, a whole one as it was
\* saved (history_load, history_save).
HistoryKept == HistoryTypeOK /\ LinesRemembered
=============================================================================
