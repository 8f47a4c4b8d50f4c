------------------------------- MODULE Editor -------------------------------
(***************************************************************************)
(* What the line editor of the shell promises: a text, a cursor, the lines *)
(* entered before, and a draft that survives browsing through them.        *)
(***************************************************************************)
EXTENDS Integers, FiniteSets, Sequences, SequencesExt

CONSTANTS CMDLINE_MAX, HISTORY_MAX,
          Chars, Blank,      \* what can be typed; the character between words
          Names              \* the names that Tab completes

VARIABLES text, cursor, lines, browsing, draft

vars == <<text, cursor, lines, browsing, draft>>

Init == text = <<>> /\ cursor = 0 /\ lines = <<>> /\ browsing = -1 /\ draft = <<>>

\* The last HISTORY_MAX lines that are not empty.
Pushed(line) ==
    LET all == Append(lines, line) IN
    IF line = <<>> THEN lines
    ELSE SubSeq(all, IF Len(all) > HISTORY_MAX THEN 2 ELSE 1, Len(all))

Enter ==
    /\ lines' = Pushed(text)
    /\ text' = <<>> /\ cursor' = 0 /\ browsing' = -1 /\ draft' = <<>>

TooLong ==
    /\ Len(text) = CMDLINE_MAX - 1
    /\ text' = <<>> /\ cursor' = 0 /\ browsing' = -1 /\ draft' = <<>>
    /\ UNCHANGED lines

Type(ch) ==
    /\ Len(text) < CMDLINE_MAX - 1
    /\ text' = InsertAt(text, cursor + 1, ch)
    /\ cursor' = cursor + 1
    /\ UNCHANGED <<lines, browsing, draft>>

Backspace ==
    /\ cursor > 0
    /\ text' = RemoveAt(text, cursor)
    /\ cursor' = cursor - 1
    /\ UNCHANGED <<lines, browsing, draft>>

Delete ==
    /\ cursor < Len(text)
    /\ text' = RemoveAt(text, cursor + 1)
    /\ UNCHANGED <<cursor, lines, browsing, draft>>

Move ==
    /\ cursor' \in {cursor - 1, cursor + 1} \cap (0 .. Len(text))
    /\ UNCHANGED <<text, lines, browsing, draft>>

\* Show line b of the history, or the draft again when b = -1.
Browse(b) ==
    /\ browsing' = b
    /\ draft' = IF b = -1 THEN <<>> ELSE IF browsing = -1 THEN text ELSE draft
    /\ text' = IF b = -1 THEN draft ELSE lines[b + 1]
    /\ cursor' = Len(text')
    /\ UNCHANGED lines

Up ==
    /\ lines # <<>>
    /\ Browse(IF browsing = -1 THEN Len(lines) - 1 ELSE IF browsing > 0 THEN browsing - 1 ELSE 0)

Down ==
    /\ browsing # -1
    /\ Browse(IF browsing < Len(lines) - 1 THEN browsing + 1 ELSE -1)

\* The first word becomes what all names with the typed prefix agree on.
Complete ==
    LET blanks == {i \in 1 .. Len(text) : text[i] = Blank}
        word == IF blanks = {} THEN Len(text)
                ELSE (CHOOSE i \in blanks : \A j \in blanks : i <= j) - 1
        matches == {n \in Names : IsPrefix(SubSeq(text, 1, cursor), n)}
        best == LongestCommonPrefix(matches)
        completed == best \o SubSeq(text, word + 1, Len(text))
    IN
    /\ cursor \in 1 .. word
    /\ matches # {}
    /\ Cardinality(matches) = 1 \/ Len(best) > word
    /\ Len(completed) < CMDLINE_MAX
    /\ text' = completed
    /\ cursor' = Len(best)
    /\ UNCHANGED <<lines, browsing, draft>>

Next ==
    \/ Enter \/ TooLong \/ Backspace \/ Delete \/ Move \/ Up \/ Down \/ Complete
    \/ \E ch \in Chars : Type(ch)

Spec == Init /\ [][Next]_vars
=============================================================================
