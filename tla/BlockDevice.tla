---------------------------- MODULE BlockDevice ----------------------------
(***************************************************************************)
(* What include/blockdev.h promises its only user, pfs_sync and the boot   *)
(* code of fs.c: one call at a time; a call that returns 0 has been done,  *)
(* one that returns -1 may or may not have been; and nothing happens to    *)
(* the disk outside a call, nor to any block but the one the call names.   *)
(***************************************************************************)
EXTENDS Naturals

CONSTANTS Blocks, Data, NoData,
          MaxBlock          \* largest block index passed to a call

VARIABLES
    disk,       \* contents of the blocks
    call,       \* the last call: type, block and the data to write
    result,     \* idle (before the first call), busy, ok (0) or fail (-1)
    out         \* what a read that returned 0 has put in the caller's buffer

vars == <<disk, call, result, out>>

Init ==
    /\ disk \in [Blocks -> Data]
    /\ call = [type |-> "IN", blk |-> 0, data |-> NoData]
    /\ result = "idle"
    /\ out = NoData

\* A call that is not for a usable block may return -1 at once.
Call(type, blk, data) ==
    /\ result # "busy"
    /\ call' = [type |-> type, blk |-> blk, data |-> data]
    /\ result' \in {"busy", "fail"}
    /\ out' = NoData
    /\ UNCHANGED disk

\* The write reaches the disk, at any moment of the call.
Effect ==
    /\ result = "busy"
    /\ call.type = "OUT"
    /\ call.blk \in Blocks
    /\ disk' = [disk EXCEPT ![call.blk] = call.data]
    /\ UNCHANGED <<call, result, out>>

Succeed ==
    /\ result = "busy"
    /\ call.blk \in Blocks
    /\ call.type = "OUT" => disk[call.blk] = call.data
    /\ result' = "ok"
    /\ out' = IF call.type = "IN" THEN disk[call.blk] ELSE NoData
    /\ UNCHANGED <<disk, call>>

Fail ==
    /\ result = "busy"
    /\ result' = "fail"
    /\ UNCHANGED <<disk, call, out>>

Next ==
    \/ \E blk \in 0 .. MaxBlock : Call("IN", blk, NoData)
    \/ \E blk \in 0 .. MaxBlock, data \in Data : Call("OUT", blk, data)
    \/ Effect
    \/ Succeed
    \/ Fail

Spec == Init /\ [][Next]_vars
=============================================================================
