----------------------------- MODULE MCProcess -----------------------------
(***************************************************************************)
(* Process for TLC: the payload of a message is never looked at, so one    *)
(* value is enough; the liveness runs, which are about slots and the       *)
(* scheduler, send none.                                                   *)
(***************************************************************************)
EXTENDS Process

MCMessages == {7}
MCNoMessages == {}
=============================================================================
