----------------------------- MODULE ShellLimits ----------------------------
(* The sizes the shell's line editor and its history share (shell.h).      *)
EXTENDS Naturals

CONSTANTS CMDLINE_MAX,      \* characters of a line, with the NUL
          HISTORY_MAX       \* lines kept

ASSUME ShellLimitsAssumption == CMDLINE_MAX \in Nat \ {0, 1} /\ HISTORY_MAX \in Nat \ {0}
=============================================================================
