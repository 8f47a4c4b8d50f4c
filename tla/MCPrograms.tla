----------------------------- MODULE MCPrograms -----------------------------
(***************************************************************************)
(* What runs in user mode and the pages it runs on, each part on a small   *)
(* instance.  The parts share no variable, so in one behaviour one of them *)
(* moves: TLC goes through the sum of their states and not the product.    *)
(***************************************************************************)
EXTENDS Shell, LineEdit, History, UserPath, Calendar, Memory

VARIABLE part

ProgramsInit ==
    /\ part \in {"shell", "line", "history", "paths", "calendar", "memory"}
    /\ ShellInit /\ LineInit /\ HistoryInit /\ PathInit /\ CalendarInit /\ Init
    /\ part # "line" => cmdline = [i \in Cells |-> NUL]    \* any one will do

ProgramsNext ==
    /\ UNCHANGED part
    /\ \/ part = "shell" /\ ShellNext
          /\ UNCHANGED <<lineVars, historyVars, pathVars, calendarVars, vars>>
       \/ part = "line" /\ LineNext
          /\ UNCHANGED <<shellVars, historyVars, pathVars, calendarVars, vars>>
       \/ part = "history" /\ HistoryNext
          /\ UNCHANGED <<shellVars, lineVars, pathVars, calendarVars, vars>>
       \/ part = "paths" /\ PathNext
          /\ UNCHANGED <<shellVars, lineVars, historyVars, calendarVars, vars>>
       \/ part = "calendar" /\ CalendarNext
          /\ UNCHANGED <<shellVars, lineVars, historyVars, pathVars, vars>>
       \/ part = "memory" /\ Next
          /\ UNCHANGED <<shellVars, lineVars, historyVars, pathVars, calendarVars>>

ProgramsSpec ==
    ProgramsInit /\ [][ProgramsNext]_<<part, shellVars, lineVars, historyVars, pathVars,
                                       calendarVars, vars>>

-----------------------------------------------------------------------------
(* Shell: every line of up to three words of this vocabulary, and longer   *)
(* ones with two redirections; f and g are files, d a directory that can   *)
(* be neither read nor written.                                            *)
Vocabulary == {"cat", "history", "<", ">", "f", "&"}
MCLines ==
    UNION {[1 .. n -> Vocabulary] : n \in 0 .. 3} \cup
    {<<"exit">>, <<"vi">>, <<"cat", "<", "d">>} \cup
    {<<c, "<", "f", ">", o>> : c \in {"cat", "history"}, o \in {"g", "d"}} \cup
    {<<"cat", ">", "f", "<", "g", "&">>, <<"cat", "<", "f", "<", "g">>,
     <<"cat", "<", "f", "f", "f", ">", "g">>}

(* LineEdit: names of which one is a prefix of another, and one alone.     *)
MCAppNames == << <<"r", "m">>, <<"r", "m", "r">>, <<"m", "m">> >>

(* History: lines with the characters that are escaped; two of the longer  *)
(* ones do not fit the file together, which takes several reads to load.   *)
MCEntered == {<<"a">>, <<Backslash, "n">>}

(* UserPath: all short arguments, and some at and over the limits.         *)
MCArgs ==
    UNION {[1 .. n -> {"/", ".", "a"}] : n \in 1 .. 3} \cup
    {<<"/", ".", ".", "a">>, <<"a", "/", ".", ".">>, <<"/", "a", "/", "a">>,
     <<"/", "a", "/", "a", "/", "a">>, <<"/", "a", "/", "a", "/", "a", "a">>,
     <<"a", "/", "/", ".", ".", "/", "a">>, <<".", ".", "/", ".", ".", "/", "a">>,
     <<"/", "a", "/", ".", "/", "a", "/", ".", ".">>}

(* Memory: one region of kernel addresses, programs of one and two pages.  *)
MCImages == {1, 2}
MCKernelVpn1 == {0}
=============================================================================
