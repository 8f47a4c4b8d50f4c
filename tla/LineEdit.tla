------------------------------ MODULE LineEdit ------------------------------
(***************************************************************************)
(* The line editor in main() of the shell (user/apps/shell/main.c): an     *)
(* array of characters, a length and a cursor, changed in place for every  *)
(* key, and what the console shows of them.                                *)
(*                                                                         *)
(* cmdline is never cleared: at a prompt it holds what the last line left  *)
(* there, at the first one anything.  It is terminated by some keys and    *)
(* not by others, but redraw_cmdline prints it up to the first NUL.  An    *)
(* escape sequence is one key here; an unknown one changes nothing.  The   *)
(* history is the list of its lines (module History has the ring).         *)
(***************************************************************************)
EXTENDS ShellLimits, Integers, FiniteSets, Sequences

CONSTANTS Chars, Blank,
          AppNames           \* shell_app_names, as a sequence of names

Cells == 0 .. CMDLINE_MAX - 1
NUL == "NUL"
Junk == "junk"               \* what follows the array in memory
AppChars == UNION {{AppNames[i][j] : j \in DOMAIN AppNames[i]} : i \in DOMAIN AppNames}
ASSUME NamesAssumption == AppNames \in Seq(Seq(AppChars)) /\ NUL \notin Chars \cup AppChars

VARIABLES
    cmdline, len, cursor,
    draft, history_cursor,   \* draft is dead, and empty here, while not browsing
    lines,                   \* history_get(0), history_get(1), ...
    screen                   \* what stands after the prompt

lineVars == <<cmdline, len, cursor, draft, history_cursor, lines, screen>>

LineInit ==
    /\ cmdline \in [Cells -> Chars \cup {NUL}]
    /\ len = 0 /\ cursor = 0
    /\ draft = <<>> /\ history_cursor = -1
    /\ lines = <<>>
    /\ screen = <<>>

-----------------------------------------------------------------------------
Text(c, n) == [i \in 1 .. n |-> c[i - 1]]

Ends(c) == {i \in Cells : c[i] = NUL}
str_len(c) == CHOOSE i \in Ends(c) : \A j \in Ends(c) : i <= j

\* printf("%s") and str_len run past an array that has no NUL in it.
redraw_cmdline(c) ==
    IF Ends(c) # {} THEN screen' = Text(c, str_len(c))
    ELSE \E beyond \in {<<>>, <<Junk>>} : screen' = Text(c, CMDLINE_MAX) \o beyond

\* s at the beginning of the array and a NUL after it.
Copied(s) ==
    [i \in Cells |-> IF i < Len(s) THEN s[i + 1] ELSE IF i = Len(s) THEN NUL ELSE cmdline[i]]

Prompt ==
    /\ len' = 0 /\ cursor' = 0
    /\ draft' = <<>> /\ history_cursor' = -1
    /\ screen' = <<>>

history_push_line(line) ==
    LET n == Len(lines) IN
    lines' = IF line = <<>> THEN lines
             ELSE IF n < HISTORY_MAX THEN Append(lines, line) ELSE Append(Tail(lines), line)

\* split_args cuts the words apart in the array itself.
Enter ==
    LET c == [cmdline EXCEPT ![len] = NUL]
        n == str_len(c)
    IN
    /\ history_push_line(Text(c, n))
    /\ cmdline' = [i \in Cells |-> IF i < n /\ c[i] = Blank THEN NUL ELSE c[i]]
    /\ Prompt

-----------------------------------------------------------------------------
(* Keys that move and edit.                                                *)

Right ==
    /\ cursor < len
    /\ cursor' = cursor + 1
    /\ redraw_cmdline(cmdline)
    /\ UNCHANGED <<cmdline, len, draft, history_cursor, lines>>

Left ==
    /\ cursor > 0
    /\ cursor' = cursor - 1
    /\ redraw_cmdline(cmdline)
    /\ UNCHANGED <<cmdline, len, draft, history_cursor, lines>>

\* The characters after position pos move down by one.
Removed(pos) ==
    [i \in Cells |-> IF i = len - 1 THEN NUL
                     ELSE IF i \in pos .. len - 2 THEN cmdline[i + 1]
                     ELSE cmdline[i]]

Delete ==
    /\ cursor < len
    /\ cmdline' = Removed(cursor)
    /\ len' = len - 1
    /\ redraw_cmdline(cmdline')
    /\ UNCHANGED <<cursor, draft, history_cursor, lines>>

Backspace ==
    /\ cursor > 0
    /\ cmdline' = Removed(cursor - 1)
    /\ len' = len - 1 /\ cursor' = cursor - 1
    /\ redraw_cmdline(cmdline')
    /\ UNCHANGED <<draft, history_cursor, lines>>

TooLong ==
    /\ len = CMDLINE_MAX - 1
    /\ Prompt
    /\ UNCHANGED <<cmdline, lines>>

\* The console overwrites the character under the cursor.
Echoed(ch) ==
    [i \in 1 .. (IF Len(screen) > cursor THEN Len(screen) ELSE cursor + 1) |->
        IF i = cursor + 1 THEN ch ELSE screen[i]]

TypeAtEnd(ch) ==
    /\ len < CMDLINE_MAX - 1 /\ cursor = len
    /\ cmdline' = [cmdline EXCEPT ![len] = ch]
    /\ len' = len + 1 /\ cursor' = len + 1
    /\ screen' = Echoed(ch)
    /\ UNCHANGED <<draft, history_cursor, lines>>

\* The shift takes cmdline[len] along, which need not be a NUL.
Inserted(ch) ==
    [i \in Cells |-> IF i = cursor THEN ch
                     ELSE IF i \in cursor + 1 .. len + 1 THEN cmdline[i - 1]
                     ELSE cmdline[i]]

TypeInside_Echo(ch) ==
    /\ len < CMDLINE_MAX - 1 /\ cursor < len
    /\ cmdline' = Inserted(ch)
    /\ len' = len + 1 /\ cursor' = cursor + 1
    /\ screen' = Echoed(ch)
    /\ UNCHANGED <<draft, history_cursor, lines>>

TypeInside(ch) ==
    /\ len < CMDLINE_MAX - 1 /\ cursor < len
    /\ cmdline' = Inserted(ch)
    /\ len' = len + 1 /\ cursor' = cursor + 1
    /\ redraw_cmdline(cmdline')
    /\ UNCHANGED <<draft, history_cursor, lines>>

-----------------------------------------------------------------------------
(* Browsing the history.                                                   *)

Show(s) ==
    /\ cmdline' = Copied(s)
    /\ len' = Len(s) /\ cursor' = Len(s)
    /\ redraw_cmdline(cmdline')
    /\ UNCHANGED lines

Up_Redraft ==
    /\ lines # <<>>
    /\ draft' = Text(cmdline, len)
    /\ history_cursor' = IF history_cursor = -1 THEN Len(lines) - 1
                         ELSE IF history_cursor > 0 THEN history_cursor - 1 ELSE history_cursor
    /\ Show(lines[history_cursor' + 1])

Up ==
    /\ lines # <<>>
    /\ \/ /\ history_cursor = -1
          /\ draft' = Text(cmdline, len)
          /\ history_cursor' = Len(lines) - 1
       \/ /\ history_cursor # -1
          /\ history_cursor' = IF history_cursor > 0 THEN history_cursor - 1 ELSE history_cursor
          /\ UNCHANGED draft
    /\ Show(lines[history_cursor' + 1])

Down ==
    /\ lines # <<>> /\ history_cursor # -1
    /\ \/ /\ history_cursor < Len(lines) - 1
          /\ history_cursor' = history_cursor + 1
          /\ UNCHANGED draft
          /\ Show(lines[history_cursor' + 1])
       \/ /\ history_cursor = Len(lines) - 1
          /\ history_cursor' = -1
          /\ draft' = <<>>
          /\ Show(draft)

-----------------------------------------------------------------------------
(* Completion.                                                             *)

Smallest(S) == CHOOSE i \in S : \A j \in S : i <= j

first_token_end == Smallest({i \in 0 .. len - 1 : cmdline[i] = Blank} \cup {len})

common_prefix_len(a, b) ==
    Smallest({i \in 0 .. Len(a) : i = Len(a) \/ i = Len(b)} \cup
             {i \in 0 .. Len(a) - 1 : i < Len(b) /\ a[i + 1] # b[i + 1]})

Matches ==
    {n \in DOMAIN AppNames :
        Len(AppNames[n]) >= cursor /\ \A j \in 0 .. cursor - 1 : AppNames[n][j + 1] = cmdline[j]}

\* The tail moves up or down; a line that would be too long stays as it is.
replace_first_token(old, name) ==
    LET by == Len(name) - old IN
    IF len + by >= CMDLINE_MAX
      THEN UNCHANGED <<cmdline, len, cursor>>
      ELSE /\ cmdline' = [i \in Cells |-> IF i < Len(name) THEN name[i + 1]
                                          ELSE IF i = len + by THEN NUL
                                          ELSE IF i \in Len(name) .. len + by THEN cmdline[i - by]
                                          ELSE cmdline[i]]
           /\ len' = len + by
           /\ cursor' = Len(name)

complete_app_name ==
    LET old == first_token_end
        first == AppNames[Smallest(Matches)]
        lcp == Smallest({Len(first)} \cup {common_prefix_len(first, AppNames[n]) : n \in Matches})
    IN
    /\ cursor \in 1 .. old
    /\ Matches # {}
    /\ \/ /\ Cardinality(Matches) = 1
          /\ replace_first_token(old, first)
       \/ /\ Cardinality(Matches) > 1 /\ lcp > old
          /\ replace_first_token(old, SubSeq(first, 1, lcp))
    /\ redraw_cmdline(cmdline')
    /\ UNCHANGED <<draft, history_cursor, lines>>

LineNext ==
    \/ Enter \/ TooLong \/ Right \/ Left \/ Delete \/ Backspace \/ Up \/ Down
    \/ \E ch \in Chars : TypeAtEnd(ch) \/ TypeInside(ch)
    \/ complete_app_name

LineSpec == LineInit /\ [][LineNext]_lineVars

-----------------------------------------------------------------------------
\* The cursor is in the line, the line with its NUL in the array, the history
\* cursor in the history (main).
LineTypeOK ==
    /\ cmdline \in [Cells -> Chars \cup AppChars \cup {NUL}]
    /\ len \in 0 .. CMDLINE_MAX - 1
    /\ cursor \in 0 .. len
    /\ history_cursor \in -1 .. Len(lines) - 1
    /\ Len(lines) <= HISTORY_MAX

\* Whatever is left in the array from longer lines, the console shows the line
\* up to its end; only behind it may something else stand (redraw_cmdline).
ScreenStartsWithLine ==
    Len(screen) >= len /\ \A i \in 1 .. len : screen[i] = cmdline[i - 1]

\* Together: array, cursor and screen agree (main, redraw_cmdline).
LineShown == LineTypeOK /\ ScreenStartsWithLine

\* The keys, on an array with what was in it before, do what they do to a text
\* with a cursor, a list of lines and a draft: insert, erase, browse, complete.
Abstract ==
    INSTANCE Editor WITH text <- Text(cmdline, len), browsing <- history_cursor,
                         Names <- {AppNames[i] : i \in DOMAIN AppNames}
ImplementsEditor == Abstract!Spec
=============================================================================
