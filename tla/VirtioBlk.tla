----------------------------- MODULE VirtioBlk -----------------------------
(***************************************************************************)
(* The virtio block driver (kernel/fs/blockdev_virtio.c) and the device it *)
(* talks to through shared memory.  One request is in flight at a time and *)
(* all requests share descriptors 0 to 2, req_hdr and req_status; a request*)
(* the device does not answer within VIRTIO_IO_SPIN_LIMIT polls is given   *)
(* up, and then the device is reset, probed and asked once more.           *)
(*                                                                         *)
(* The device is external: it takes a request from the available ring,     *)
(* moves the data, writes the status and then the used index, and may hang *)
(* or report an error.  Late says whether an answer may still come after   *)
(* the driver has stopped waiting; when it is FALSE a device that misses   *)
(* the limit is silent until it is reset.                                  *)
(*                                                                         *)
(* blk_recovering needs no variable: recovery never calls blockdev_read or *)
(* blockdev_write, so its guard is never met.  Null buffers are not passed *)
(* by fs.c.                                                                *)
(***************************************************************************)
EXTENDS Integers

CONSTANTS BLOCKDEV_BLOCK_COUNT,     \* blocks the file system may use
          Capacity,                 \* blocks of the device
          MaxBlock,                 \* largest block index passed to a call
          IDX,                      \* ring indices are modulo IDX (2^16 in the code)
          Data, NoData,             \* contents of a block; of an unused buffer
          Late                      \* a request may be answered after its timeout

ASSUME BlocksAssumption ==
    /\ BLOCKDEV_BLOCK_COUNT \in Nat \ {0}
    /\ Capacity \in Nat \ {0}
    /\ MaxBlock \in Nat
ASSUME IdxAssumption == IDX \in Nat \ {0, 1}
ASSUME DataAssumption == NoData \notin Data /\ Data # {}
ASSUME LateAssumption == Late \in BOOLEAN

Blocks == 0 .. Capacity - 1
Buffers == {"caller", "probe"}
Types == {"IN", "OUT"}
Requests == [type : Types, blk : Blocks, buf : Buffers]

VARIABLES
    \* the driver
    pc, stage,          \* where the call is; which of its requests is being made
    call, result, io,   \* the call, its return value, and the arguments of virtio_do_io
    vq_last_used_idx,
    \* shared memory
    req_hdr,            \* the header and the buffer that the descriptors name
    req_status, avail_idx, used_idx, buffer,
    \* the device
    dev,                \* its state, its copies of the ring indices, its request
    disk,
    faults              \* what went wrong during the call (history)

driver == <<pc, stage, call, result, io, vq_last_used_idx>>
shared == <<req_hdr, req_status, avail_idx, used_idx, buffer>>
blkVars == <<driver, shared, dev, disk, faults>>

NoRequest == [type |-> "NONE", blk |-> 0, buf |-> "probe"]
Probe == [type |-> "IN", blk |-> 0, buf |-> "probe"]

BlkInit ==
    /\ pc = "off" /\ stage = "boot"
    /\ call = [type |-> "IN", blk |-> 0, data |-> NoData]
    /\ result = "idle"
    /\ io = Probe
    /\ vq_last_used_idx = 0
    /\ req_hdr = NoRequest
    /\ req_status = 0 /\ avail_idx = 0 /\ used_idx = 0
    /\ buffer = [b \in Buffers |-> NoData]
    /\ dev = [state |-> "off", avail |-> 0, used |-> 0, req |-> NoRequest, step |-> "idle"]
    /\ disk \in [Blocks -> Data]
    /\ faults = 0

Worse(n) == IF faults + n > 2 THEN 2 ELSE faults + n
Increment(i) == (i + 1) % IDX

-----------------------------------------------------------------------------
(* The device.                                                             *)

Running == dev.state = "run"

Take ==
    /\ Running /\ dev.step = "idle" /\ dev.avail # avail_idx
    /\ dev' = [dev EXCEPT !.avail = Increment(@), !.req = req_hdr, !.step = "taken"]
    /\ UNCHANGED <<driver, shared, disk, faults>>

Move ==
    /\ Running /\ dev.step = "taken"
    /\ LET r == dev.req IN
        /\ disk' = IF r.type = "OUT" THEN [disk EXCEPT ![r.blk] = buffer[r.buf]] ELSE disk
        /\ buffer' = IF r.type = "IN" THEN [buffer EXCEPT ![r.buf] = disk[r.blk]] ELSE buffer
    /\ dev' = [dev EXCEPT !.step = "moved"]
    /\ UNCHANGED <<driver, req_hdr, req_status, avail_idx, used_idx, faults>>

Error ==
    /\ Running /\ dev.step = "taken"
    /\ dev' = [dev EXCEPT !.step = "error"]
    /\ faults' = 2
    /\ UNCHANGED <<driver, shared, disk>>

Status ==
    /\ Running /\ dev.step \in {"moved", "error"}
    /\ req_status' = IF dev.step = "moved" THEN 0 ELSE 1
    /\ dev' = [dev EXCEPT !.step = "status"]
    /\ UNCHANGED <<driver, req_hdr, avail_idx, used_idx, buffer, disk, faults>>

Use ==
    /\ Running /\ dev.step = "status"
    /\ dev' = [dev EXCEPT !.used = Increment(@), !.req = NoRequest, !.step = "idle"]
    /\ used_idx' = Increment(dev.used)
    /\ UNCHANGED <<driver, req_hdr, req_status, avail_idx, buffer, disk, faults>>

Hang ==
    /\ Running
    /\ dev' = [dev EXCEPT !.state = "hung"]
    /\ faults' = Worse(1)
    /\ UNCHANGED <<driver, shared, disk>>

Device == Take \/ Move \/ Error \/ Status \/ Use

-----------------------------------------------------------------------------
(* virtio_do_io.                                                           *)

Fill ==
    /\ pc = "fill"
    /\ req_hdr' = io
    /\ req_status' = 255
    /\ pc' = "publish"
    /\ UNCHANGED <<stage, call, result, io, vq_last_used_idx, avail_idx, used_idx, buffer,
                   dev, disk, faults>>

Publish ==
    /\ pc = "publish"
    /\ avail_idx' = Increment(avail_idx)
    /\ pc' = "wait"
    /\ UNCHANGED <<stage, call, result, io, vq_last_used_idx, req_hdr, req_status, used_idx,
                   buffer, dev, disk, faults>>

\* The request that the current call is about.
Caller_AlwaysReads == [type |-> "IN", blk |-> call.blk, buf |-> "caller"]
Caller == [type |-> call.type, blk |-> call.blk, buf |-> "caller"]

Goto(p, s, request, r) == pc' = p /\ stage' = s /\ io' = request /\ result' = r

\* blockdev_read, blockdev_write, recovery and blockdev_init go on from the
\* result of their request.
do_io_returns(ok, last_io_timed_out) ==
    CASE stage = "boot" -> Goto(IF ok THEN "idle" ELSE "panic", stage, io, result)
      [] stage = "first" /\ ~ok /\ last_io_timed_out -> Goto("layout", "probe", Probe, result)
      [] stage = "probe" /\ ok -> Goto("fill", "retry", Caller, result)
      [] OTHER -> Goto("idle", stage, io, IF ok THEN "ok" ELSE "fail")

\* A probe that failed is followed by STATUS = FAILED, without a reset: whether
\* the device still works on what it has, or is silent from here, is its own.
StatusFailed(ok) ==
    IF stage \in {"boot", "probe"} /\ ~ok
      THEN dev' \in {dev, [dev EXCEPT !.state = "hung"]}
      ELSE UNCHANGED dev

PollUsed ==
    /\ pc = "wait"
    /\ used_idx # vq_last_used_idx
    /\ vq_last_used_idx' = used_idx
    /\ pc' = "check"
    /\ UNCHANGED <<stage, call, result, io, shared, dev, disk, faults>>

CheckStatus ==
    /\ pc = "check"
    /\ do_io_returns(req_status = 0, FALSE)
    /\ StatusFailed(req_status = 0)
    /\ UNCHANGED <<call, vq_last_used_idx, shared, disk, faults>>

Timeout_Never ==
    /\ pc = "wait" /\ FALSE
    /\ UNCHANGED blkVars

Timeout ==
    /\ pc = "wait"
    /\ used_idx = vq_last_used_idx
    /\ Late \/ ~Running
    /\ do_io_returns(FALSE, TRUE)
    /\ StatusFailed(FALSE)
    /\ UNCHANGED <<call, vq_last_used_idx, shared, disk, faults>>

-----------------------------------------------------------------------------
(* Set-up of the queue and of the device, at boot and after a timeout.     *)

virtio_setup_vq_layout_KeepsLast ==
    /\ pc \in {"off", "layout"}
    /\ req_hdr' = NoRequest /\ avail_idx' = 0 /\ used_idx' = 0
    /\ pc' = "configure"
    /\ UNCHANGED <<stage, call, result, io, vq_last_used_idx, req_status, buffer, dev, disk,
                   faults>>

virtio_setup_vq_layout ==
    /\ pc \in {"off", "layout"}
    /\ req_hdr' = NoRequest /\ avail_idx' = 0 /\ used_idx' = 0
    /\ vq_last_used_idx' = 0
    /\ pc' = "configure"
    /\ UNCHANGED <<stage, call, result, io, req_status, buffer, dev, disk, faults>>

Reset_Skipped(s) == [dev EXCEPT !.state = IF @ = "off" THEN s ELSE @]

\* Writing 0 to STATUS resets the device: it forgets its request.
Reset(s) == [state |-> s, avail |-> 0, used |-> 0, req |-> NoRequest, step |-> "idle"]

virtio_configure_device ==
    /\ pc = "configure"
    /\ dev' = Reset("run")
    /\ pc' = "fill"
    /\ UNCHANGED <<stage, call, result, io, vq_last_used_idx, shared, disk, faults>>

\* The device lacks a feature or a queue, or has no blocks: STATUS is FAILED.
ConfigureFails ==
    /\ pc = "configure"
    /\ dev' = Reset("off")
    /\ do_io_returns(FALSE, FALSE)
    /\ faults' = 2
    /\ UNCHANGED <<call, vq_last_used_idx, shared, disk>>

-----------------------------------------------------------------------------
(* blockdev_read and blockdev_write.                                       *)

InRange(blk) == blk < BLOCKDEV_BLOCK_COUNT /\ blk < Capacity

Start(type, blk, data) ==
    /\ pc = "idle"
    /\ call' = [type |-> type, blk |-> blk, data |-> data]
    /\ faults' = IF Running THEN 0 ELSE 1
    /\ IF InRange(blk)
         THEN /\ Goto("fill", "first", [type |-> type, blk |-> blk, buf |-> "caller"], "busy")
              /\ buffer' = [buffer EXCEPT !["caller"] = data]
         ELSE /\ Goto("idle", stage, io, "fail")
              /\ UNCHANGED buffer
    /\ UNCHANGED <<vq_last_used_idx, req_hdr, req_status, avail_idx, used_idx, dev, disk>>

blockdev_read(blk) == Start("IN", blk, NoData)
blockdev_write(blk, data) == Start("OUT", blk, data)

DriverStep ==
    \/ Fill \/ Publish \/ PollUsed \/ CheckStatus \/ Timeout
    \/ virtio_setup_vq_layout \/ virtio_configure_device \/ ConfigureFails

BlkNext ==
    \/ DriverStep
    \/ Device
    \/ Hang
    \/ \E blk \in 0 .. MaxBlock : blockdev_read(blk)
    \/ \E blk \in 0 .. MaxBlock, data \in Data : blockdev_write(blk, data)

BlkSpec == BlkInit /\ [][BlkNext]_blkVars

-----------------------------------------------------------------------------
\* Every variable has its type (the structures of blockdev_virtio.c).
BlkTypeOK ==
    /\ pc \in {"off", "layout", "configure", "fill", "publish", "wait", "check", "idle", "panic"}
    /\ stage \in {"boot", "first", "probe", "retry"}
    /\ call \in [type : Types, blk : 0 .. MaxBlock, data : Data \cup {NoData}]
    /\ result \in {"idle", "busy", "ok", "fail"}
    /\ io \in Requests
    /\ req_hdr \in Requests \cup {NoRequest}
    /\ req_status \in {0, 1, 255}
    /\ {vq_last_used_idx, avail_idx, used_idx} \subseteq 0 .. IDX - 1
    /\ buffer \in [Buffers -> Data \cup {NoData}]
    /\ dev \in [state : {"off", "run", "hung"}, avail : 0 .. IDX - 1, used : 0 .. IDX - 1,
                req : Requests \cup {NoRequest},
                step : {"idle", "taken", "moved", "error", "status"}]
    /\ disk \in [Blocks -> Data]
    /\ faults \in 0 .. 2

\* A call that returned 0 was done: the data of a write is on the disk, that
\* of a read is in the caller's buffer.  All requests share one used index
\* and one status byte, so this needs every answer to be the answer to the
\* request that is waited for (virtio_do_io).
SuccessIsDone ==
    result = "ok" =>
        IF call.type = "OUT" THEN disk[call.blk] = call.data
                             ELSE buffer["caller"] = disk[call.blk]

\* What the file system is told is on the disk is there: pfs_sync takes the 0
\* of blockdev_write for it.  With answers after the timeout it is not so.
WrittenIsOnDisk == result = "ok" /\ call.type = "OUT" => disk[call.blk] = call.data

\* The driver rewrites descriptors, header and status, or lets the caller
\* reuse its buffer, only while the device has no request it will still work
\* on: none is in its hands and none is in the ring (virtio_do_io, recovery).
Quiet == dev.step = "idle" /\ dev.avail = avail_idx
DescriptorsQuiet ==
    pc \in {"fill", "publish", "check", "idle"} => Quiet \/ ~Running

\* Together: what is shared with the device is quiet when the driver writes it,
\* and the device's answers are those to the calls that return (virtio_do_io).
DriverSound == BlkTypeOK /\ SuccessIsDone /\ DescriptorsQuiet

\* Recovery is worth having: a call for a block of the device during which the
\* device reports no error and hangs at most once, a hang it has left from an
\* earlier call included, returns 0 (virtio_recover_from_timeout).
OneHangIsSurvived ==
    result = "fail" /\ InRange(call.blk) => faults = 2

\* Every call returns: the spin limit ends the wait for a silent device and
\* recovery makes only one more attempt (virtio_do_io, blockdev_read).
CallReturns == result = "busy" ~> result # "busy"

\* The driver is the block device that the file system assumes.
Abstract == INSTANCE BlockDevice WITH
    out <- IF result = "ok" /\ call.type = "IN" THEN buffer["caller"] ELSE NoData

\* The driver and its device implement BlockDevice (blockdev.h): the effect of
\* a call falls inside the call, on its own block, before a return of 0.
ImplementsBlockDevice == Abstract!Spec
=============================================================================
