--------------------------- MODULE VirtioBlkProofs ---------------------------
(***************************************************************************)
(* Proofs about the virtio block driver.  CallInv says where in a call the *)
(* driver is; RingInv says what the driver, the shared memory and the      *)
(* device know of the one request.  Both need a device that does not       *)
(* answer after the timeout (~Late): with late answers the run block_late  *)
(* shows a write that is lost.                                             *)
(***************************************************************************)
EXTENDS VirtioBlk, TLAPS

-----------------------------------------------------------------------------
(* The inductive invariant.                                                *)

Busy == result = "busy"

\* Where in a call, or in booting, the driver can be.
Stages ==
    /\ pc = "off" => stage = "boot"
    /\ pc = "layout" => stage = "probe"
    /\ pc = "configure" => stage \in {"boot", "probe"}
    /\ pc = "panic" => stage = "boot"
    /\ Busy <=> stage # "boot" /\ pc # "idle"
    /\ result = "ok" => pc = "idle"
    /\ result = "ok" => InRange(call.blk)

\* A call in progress is for a usable block, and virtio_do_io has its
\* arguments, or those of the probe.
Asked ==
    /\ Busy => InRange(call.blk)
    /\ call.type = "OUT" => call.data \in Data
    /\ stage \in {"boot", "probe"} => io = Probe
    /\ stage \in {"first", "retry"} /\ Busy => io = Caller

CallInv == BlkTypeOK /\ Stages /\ Asked

\* What has been moved for a request: block and buffer hold the same.
Done == disk[io.blk] = buffer[io.buf]

\* The status byte tells what became of the request.
Answered ==
    /\ req_status = 0 => Done
    /\ req_status # 0 => faults = 2

\* The request is in the ring, then in the hands of the device, then used.
InRing == dev.step = "idle" /\ avail_idx = Increment(dev.avail) /\ req_hdr = io
InHands ==
    /\ dev.step # "idle" /\ dev.avail = avail_idx /\ dev.req = io
    /\ dev.step = "moved" => Done
    /\ dev.step = "error" => faults = 2
    /\ dev.step = "status" => Answered

\* While the device runs, its ring indices are the driver's, and the only
\* request it knows of is the one that is waited for.
Ring ==
    Running =>
        /\ pc \notin {"off", "layout", "configure"}
        /\ dev.used = used_idx
        /\ pc # "wait" => Quiet
        /\ pc = "wait" => \/ used_idx = vq_last_used_idx /\ (InRing \/ InHands)
                          \/ Quiet /\ Answered

\* An answer that is seen is the answer to this request, and the device is
\* started on an empty ring.
Seen ==
    /\ pc # "wait" => used_idx = vq_last_used_idx
    /\ pc = "wait" /\ used_idx # vq_last_used_idx => Answered
    /\ pc = "check" => Answered
    /\ pc = "publish" => req_hdr = io
    /\ pc = "configure" => avail_idx = 0 /\ used_idx = 0

\* The data to write is in the caller's buffer until the call has returned.
Kept == result \in {"busy", "ok"} /\ call.type = "OUT" => buffer["caller"] = call.data

\* What has gone wrong in a call is counted when the driver meets it.
Counted ==
    Busy =>
        /\ ~Running => faults > 0
        /\ stage \in {"probe", "retry"} => faults > 0
        /\ stage \in {"probe", "retry"} /\ pc \notin {"layout", "configure"} /\ ~Running
             => faults = 2

RingInv == Ring /\ Seen /\ Kept /\ Counted /\ SuccessIsDone /\ OneHangIsSurvived

BlkInv == CallInv /\ RingInv

DeviceType == [state : {"off", "run", "hung"}, avail : 0 .. IDX - 1, used : 0 .. IDX - 1,
               req : Requests \cup {NoRequest},
               step : {"idle", "taken", "moved", "error", "status"}]

-----------------------------------------------------------------------------
(* Lemmas.                                                                 *)

\* Ring indices stay in their range when they are incremented.
LEMMA IncrementType ==
    \A i \in 0 .. IDX - 1 : Increment(i) \in 0 .. IDX - 1
BY IdxAssumption DEF Increment

\* The ways on from virtio_do_io: booting goes on or panics, a first request
\* that timed out starts recovery, a probe that succeeded starts the second
\* request, and in all other cases the call returns.
LEMMA ReturnCases ==
    ASSUME NEW ok \in BOOLEAN, NEW timed_out \in BOOLEAN, BlkTypeOK,
           do_io_returns(ok, timed_out)
    PROVE  \/ stage = "boot" /\ ok /\ Goto("idle", stage, io, result)
           \/ stage = "boot" /\ ~ok /\ Goto("panic", stage, io, result)
           \/ stage = "first" /\ ~ok /\ timed_out /\ Goto("layout", "probe", Probe, result)
           \/ stage = "probe" /\ ok /\ Goto("fill", "retry", Caller, result)
           \/ /\ stage # "boot" /\ (stage = "probe" => ~ok)
              /\ stage = "first" => ok \/ ~timed_out
              /\ Goto("idle", stage, io, IF ok THEN "ok" ELSE "fail")
<1>1. CASE stage = "boot"
  BY <1>1 DEF do_io_returns, Goto
<1>2. CASE stage = "first"
  BY <1>2 DEF do_io_returns
<1>3. CASE stage = "probe"
  BY <1>3 DEF do_io_returns
<1>4. CASE stage = "retry"
  BY <1>4 DEF do_io_returns
<1> QED
  BY <1>1, <1>2, <1>3, <1>4 DEF BlkTypeOK

LEMMA InvInit == BlkInit => BlkInv
<1> SUFFICES ASSUME BlkInit PROVE BlkInv
  OBVIOUS
<1>1. BlkTypeOK
  BY BlocksAssumption, IdxAssumption, DataAssumption
     DEF BlkInit, BlkTypeOK, Types, Requests, Blocks, Buffers, Probe, NoRequest
<1>2. Stages /\ Asked
  BY DEF BlkInit, Stages, Asked, Busy, Probe
<1>3. RingInv
  BY DEF BlkInit, RingInv, Ring, Seen, Kept, Counted, SuccessIsDone, OneHangIsSurvived,
         Running, Busy
<1> QED
  BY <1>1, <1>2, <1>3 DEF BlkInv, CallInv

-----------------------------------------------------------------------------
(* The steps of the device.                                                *)

\* While the device holds a request, the driver waits for it.
LEMMA HoldsIsWaiting ==
    ASSUME BlkInv, Running, dev.step # "idle"
    PROVE  /\ pc = "wait" /\ used_idx = vq_last_used_idx /\ InHands
           /\ dev.req = io /\ io \in Requests
BY DEF BlkInv, CallInv, RingInv, Ring, Quiet, InRing, InHands, BlkTypeOK

LEMMA TakeInv == BlkInv /\ Take => BlkInv'
<1> SUFFICES ASSUME BlkInv, Take PROVE BlkInv'
  OBVIOUS
<1> USE DEF BlkInv, CallInv, RingInv
<1>1. pc = "wait" /\ used_idx = vq_last_used_idx /\ InRing /\ Running
  BY DEF Take, Ring, Quiet, InRing, InHands
<1>2. BlkTypeOK'
  <2>1. dev.avail \in 0 .. IDX - 1
    BY DEF BlkTypeOK
  <2>2. Increment(dev.avail) \in 0 .. IDX - 1
    BY <2>1, IncrementType
  <2>3. dev' \in DeviceType
    BY <2>2 DEF Take, BlkTypeOK, DeviceType
  <2> QED
    BY <2>2, <2>3 DEF Take, BlkTypeOK, DeviceType, driver, shared
<1>3. Stages' /\ Asked'
  BY DEF Take, Stages, Asked, Busy, InRange, Caller, driver
<1>4. Ring'
  <2>1. InHands'
    BY <1>1 DEF Take, InRing, InHands, driver, shared, BlkTypeOK
  <2> QED
    BY <1>1, <2>1 DEF Take, Ring, Running, driver, shared, BlkTypeOK
<1>5. Seen' /\ Kept' /\ Counted' /\ SuccessIsDone' /\ OneHangIsSurvived'
  BY <1>1 DEF Take, Seen, Kept, Counted, SuccessIsDone, OneHangIsSurvived, Answered, Done,
              Busy, Running, driver, shared, InRange, BlkTypeOK
<1> QED
  BY <1>2, <1>3, <1>4, <1>5

LEMMA MoveInv == BlkInv /\ Move => BlkInv'
<1> SUFFICES ASSUME BlkInv, Move PROVE BlkInv'
  OBVIOUS
<1> USE DEF BlkInv, CallInv, RingInv
<1>1. /\ pc = "wait" /\ used_idx = vq_last_used_idx /\ InHands /\ Running
      /\ dev.req = io /\ io \in Requests
  BY HoldsIsWaiting DEF Move
<1>2. \/ /\ io.type = "OUT" /\ disk' = [disk EXCEPT ![io.blk] = buffer[io.buf]]
         /\ buffer' = buffer
      \/ /\ io.type = "IN" /\ buffer' = [buffer EXCEPT ![io.buf] = disk[io.blk]]
         /\ disk' = disk
  BY <1>1 DEF Move, Requests, Types
<1>3. /\ io.blk \in Blocks /\ io.buf \in Buffers
      /\ io.type = "OUT" => Busy /\ io = Caller
      /\ Busy /\ io.buf = "caller" => io = Caller
  BY <1>1 DEF Requests, Asked, Stages, Busy, Probe, BlkTypeOK
<1>4. io.type = "OUT" => buffer[io.buf] \in Data
  BY <1>3 DEF Kept, Caller, Asked, Busy
<1>5. BlkTypeOK'
  <2>1. disk' \in [Blocks -> Data] /\ buffer' \in [Buffers -> Data \cup {NoData}]
    BY <1>2, <1>3, <1>4 DEF BlkTypeOK
  <2>2. dev' \in DeviceType
    BY DEF Move, BlkTypeOK, DeviceType
  <2> QED
    BY <2>1, <2>2 DEF Move, BlkTypeOK, DeviceType, driver
<1>6. Stages' /\ Asked'
  BY DEF Move, Stages, Asked, Busy, InRange, Caller, driver
<1>7. Done'
  BY <1>2, <1>3, io' = io DEF Done, Move, BlkTypeOK, driver
<1>8. Ring'
  <2>1. InHands'
    BY <1>1, <1>7 DEF Move, InHands, driver, BlkTypeOK
  <2> QED
    BY <1>1, <2>1 DEF Move, Ring, Running, driver, BlkTypeOK
<1>9. Kept'
  <2>1. Busy /\ call.type = "OUT" => buffer'["caller"] = buffer["caller"]
    <3>1. CASE io.type = "OUT"
      BY <1>2, <3>1
    <3>2. CASE io.type = "IN"
      <4>1. Busy /\ call.type = "OUT" => io.buf # "caller"
        BY <1>3, <3>2 DEF Caller
      <4> QED
        BY <1>2, <1>3, <3>2, <4>1 DEF BlkTypeOK, Buffers
    <3> QED
      BY <3>1, <3>2, <1>2
  <2> QED
    BY <1>1, <2>1 DEF Move, Kept, Busy, Stages, driver
<1>10. Seen' /\ Counted' /\ SuccessIsDone' /\ OneHangIsSurvived'
  BY <1>1 DEF Move, Seen, Counted, SuccessIsDone, OneHangIsSurvived, Stages,
              Busy, Running, driver, InRange, BlkTypeOK
<1> QED
  BY <1>5, <1>6, <1>8, <1>9, <1>10

LEMMA ErrorInv == BlkInv /\ Error => BlkInv'
<1> SUFFICES ASSUME BlkInv, Error PROVE BlkInv'
  OBVIOUS
<1> USE DEF BlkInv, CallInv, RingInv
<1>1. pc = "wait" /\ used_idx = vq_last_used_idx /\ InHands /\ Running
  BY HoldsIsWaiting DEF Error
<1>2. BlkTypeOK'
  BY DEF Error, BlkTypeOK, driver, shared
<1>3. Stages' /\ Asked'
  BY DEF Error, Stages, Asked, Busy, InRange, Caller, driver
<1>4. Ring'
  <2>1. InHands'
    BY <1>1 DEF Error, InHands, driver, shared, BlkTypeOK
  <2> QED
    BY <1>1, <2>1 DEF Error, Ring, Running, driver, shared, BlkTypeOK
<1>5. Seen' /\ Kept' /\ Counted' /\ SuccessIsDone' /\ OneHangIsSurvived'
  BY <1>1 DEF Error, Seen, Kept, Counted, SuccessIsDone, OneHangIsSurvived,
              Busy, Running, driver, shared, InRange, BlkTypeOK
<1> QED
  BY <1>2, <1>3, <1>4, <1>5

LEMMA StatusInv == BlkInv /\ Status => BlkInv'
<1> SUFFICES ASSUME BlkInv, Status PROVE BlkInv'
  OBVIOUS
<1> USE DEF BlkInv, CallInv, RingInv
<1>1. pc = "wait" /\ used_idx = vq_last_used_idx /\ InHands /\ Running
  BY HoldsIsWaiting DEF Status
<1>2. BlkTypeOK'
  BY DEF Status, BlkTypeOK, driver
<1>3. Stages' /\ Asked'
  BY DEF Status, Stages, Asked, Busy, InRange, Caller, driver
<1>4. Answered'
  BY <1>1 DEF Status, InHands, Answered, Done, driver
<1>5. Ring'
  <2>1. InHands'
    BY <1>1, <1>4 DEF Status, InHands, driver, BlkTypeOK
  <2> QED
    BY <1>1, <2>1 DEF Status, Ring, Running, driver, BlkTypeOK
<1>6. Seen' /\ Kept' /\ Counted' /\ SuccessIsDone' /\ OneHangIsSurvived'
  BY <1>1 DEF Status, Seen, Kept, Counted, SuccessIsDone, OneHangIsSurvived,
              Busy, Running, driver, InRange, BlkTypeOK
<1> QED
  BY <1>2, <1>3, <1>5, <1>6

LEMMA UseInv == BlkInv /\ Use => BlkInv'
<1> SUFFICES ASSUME BlkInv, Use PROVE BlkInv'
  OBVIOUS
<1> USE DEF BlkInv, CallInv, RingInv
<1>1. /\ pc = "wait" /\ used_idx = vq_last_used_idx /\ InHands /\ Running
      /\ dev.used = used_idx
  BY HoldsIsWaiting DEF Use, Ring
<1>2. BlkTypeOK'
  <2>1. dev.used \in 0 .. IDX - 1
    BY DEF BlkTypeOK
  <2>2. Increment(dev.used) \in 0 .. IDX - 1
    BY <2>1, IncrementType
  <2>3. dev' \in DeviceType
    BY <2>2 DEF Use, BlkTypeOK, DeviceType
  <2> QED
    BY <2>2, <2>3 DEF Use, BlkTypeOK, DeviceType, driver
<1>3. Stages' /\ Asked'
  BY DEF Use, Stages, Asked, Busy, InRange, Caller, driver
<1>4. Answered'
  BY <1>1 DEF Use, InHands, Answered, Done, driver
<1>5. Ring'
  <2>1. Quiet'
    BY <1>1 DEF Use, InHands, Quiet, driver, BlkTypeOK
  <2> QED
    BY <1>1, <1>4, <2>1 DEF Use, Ring, Running, driver, BlkTypeOK
<1>6. Seen' /\ Kept' /\ Counted' /\ SuccessIsDone' /\ OneHangIsSurvived'
  BY <1>1, <1>4 DEF Use, Seen, Kept, Counted, SuccessIsDone, OneHangIsSurvived,
              Busy, Running, driver, InRange, BlkTypeOK
<1> QED
  BY <1>2, <1>3, <1>5, <1>6

LEMMA HangInv == BlkInv /\ Hang => BlkInv'
<1> SUFFICES ASSUME BlkInv, Hang PROVE BlkInv'
  OBVIOUS
<1> USE DEF BlkInv, CallInv, RingInv
<1>1. ~Running' /\ faults' \in 1 .. 2 /\ (faults > 0 => faults' = 2)
  BY DEF Hang, Running, Worse, BlkTypeOK
<1>2. BlkTypeOK'
  BY <1>1 DEF Hang, BlkTypeOK, driver, shared
<1>3. Stages' /\ Asked'
  BY DEF Hang, Stages, Asked, Busy, InRange, Caller, driver
<1>4. Ring' /\ Kept' /\ SuccessIsDone' /\ OneHangIsSurvived'
  BY <1>1 DEF Hang, Ring, Kept, SuccessIsDone, OneHangIsSurvived, driver, shared, InRange
<1>5. Seen'
  BY <1>1 DEF Hang, Seen, Answered, Done, driver, shared
<1>6. Counted'
  BY <1>1 DEF Hang, Counted, Busy, driver, BlkTypeOK
<1> QED
  BY <1>2, <1>3, <1>4, <1>5, <1>6

-----------------------------------------------------------------------------
(* The steps of the driver.                                                *)

LEMMA FillInv == BlkInv /\ Fill => BlkInv'
<1> SUFFICES ASSUME BlkInv, Fill PROVE BlkInv'
  OBVIOUS
<1> USE DEF BlkInv, CallInv, RingInv
<1>1. BlkTypeOK'
  BY DEF Fill, BlkTypeOK
<1>2. Stages' /\ Asked'
  BY DEF Fill, Stages, Asked, Busy, InRange, Caller
<1>3. Ring' /\ Seen'
  BY DEF Fill, Ring, Seen, Running, Quiet
<1>4. Kept' /\ Counted' /\ SuccessIsDone' /\ OneHangIsSurvived'
  BY DEF Fill, Kept, Counted, SuccessIsDone, OneHangIsSurvived, Busy, Running, InRange
<1> QED
  BY <1>1, <1>2, <1>3, <1>4

LEMMA PublishInv == BlkInv /\ Publish => BlkInv'
<1> SUFFICES ASSUME BlkInv, Publish PROVE BlkInv'
  OBVIOUS
<1> USE DEF BlkInv, CallInv, RingInv
<1>1. BlkTypeOK'
  BY IncrementType DEF Publish, BlkTypeOK
<1>2. Stages' /\ Asked'
  BY DEF Publish, Stages, Asked, Busy, InRange, Caller
<1>3. Ring'
  <2>1. Running' => InRing' /\ used_idx' = vq_last_used_idx'
    BY DEF Publish, Ring, Seen, Running, Quiet, InRing
  <2> QED
    BY <2>1 DEF Publish, Ring, Running
<1>4. Seen'
  BY DEF Publish, Seen
<1>5. Kept' /\ Counted' /\ SuccessIsDone' /\ OneHangIsSurvived'
  BY DEF Publish, Kept, Counted, SuccessIsDone, OneHangIsSurvived, Busy, Running, InRange
<1> QED
  BY <1>1, <1>2, <1>3, <1>4, <1>5

LEMMA PollUsedInv == BlkInv /\ PollUsed => BlkInv'
<1> SUFFICES ASSUME BlkInv, PollUsed PROVE BlkInv'
  OBVIOUS
<1> USE DEF BlkInv, CallInv, RingInv
<1>1. BlkTypeOK'
  BY DEF PollUsed, BlkTypeOK, shared
<1>2. Stages' /\ Asked'
  BY DEF PollUsed, Stages, Asked, Busy, InRange, Caller
<1>3. Ring'
  BY DEF PollUsed, Ring, Running, Quiet, shared
<1>4. Seen'
  BY DEF PollUsed, Seen, Answered, Done, shared
<1>5. Kept' /\ Counted' /\ SuccessIsDone' /\ OneHangIsSurvived'
  BY DEF PollUsed, Kept, Counted, SuccessIsDone, OneHangIsSurvived, Busy, Running, InRange,
         shared
<1> QED
  BY <1>1, <1>2, <1>3, <1>4, <1>5

LEMMA LayoutInv == BlkInv /\ virtio_setup_vq_layout => BlkInv'
<1> SUFFICES ASSUME BlkInv, virtio_setup_vq_layout PROVE BlkInv'
  OBVIOUS
<1> USE DEF BlkInv, CallInv, RingInv
<1>1. BlkTypeOK'
  BY IdxAssumption DEF virtio_setup_vq_layout, BlkTypeOK
<1>2. Stages' /\ Asked'
  BY DEF virtio_setup_vq_layout, Stages, Asked, Busy, InRange, Caller
<1>3. Ring' /\ Seen'
  BY DEF virtio_setup_vq_layout, Ring, Seen, Running
<1>4. Kept' /\ Counted' /\ SuccessIsDone' /\ OneHangIsSurvived'
  BY DEF virtio_setup_vq_layout, Kept, Counted, SuccessIsDone, OneHangIsSurvived, Busy,
         Running, InRange
<1> QED
  BY <1>1, <1>2, <1>3, <1>4

LEMMA ConfigureInv == BlkInv /\ virtio_configure_device => BlkInv'
<1> SUFFICES ASSUME BlkInv, virtio_configure_device PROVE BlkInv'
  OBVIOUS
<1> USE DEF BlkInv, CallInv, RingInv
<1>1. dev' = [state |-> "run", avail |-> 0, used |-> 0, req |-> NoRequest, step |-> "idle"]
  BY DEF virtio_configure_device, Reset
<1>2. BlkTypeOK'
  BY <1>1, IdxAssumption DEF virtio_configure_device, BlkTypeOK, shared
<1>3. Stages' /\ Asked'
  BY DEF virtio_configure_device, Stages, Asked, Busy, InRange, Caller
<1>4. Ring' /\ Seen'
  BY <1>1 DEF virtio_configure_device, Ring, Seen, Running, Quiet, shared
<1>5. Kept' /\ SuccessIsDone' /\ OneHangIsSurvived'
  BY DEF virtio_configure_device, Kept, SuccessIsDone, OneHangIsSurvived, Busy, InRange, shared
<1>6. Counted'
  BY <1>1 DEF virtio_configure_device, Counted, Stages, Busy, Running, shared
<1> QED
  BY <1>2, <1>3, <1>4, <1>5, <1>6

LEMMA ConfigureFailsInv == BlkInv /\ ConfigureFails => BlkInv'
<1> SUFFICES ASSUME BlkInv, ConfigureFails PROVE BlkInv'
  OBVIOUS
<1> USE DEF BlkInv, CallInv, RingInv
<1>1. dev' = [state |-> "off", avail |-> 0, used |-> 0, req |-> NoRequest, step |-> "idle"]
  BY DEF ConfigureFails, Reset
<1>2. \/ stage = "boot" /\ Goto("panic", stage, io, result)
      \/ stage = "probe" /\ Goto("idle", stage, io, "fail")
  BY ReturnCases DEF ConfigureFails, Stages
<1>3. BlkTypeOK'
  BY <1>1, <1>2, IdxAssumption DEF ConfigureFails, Goto, BlkTypeOK, shared
<1>4. Stages' /\ Asked'
  BY <1>2 DEF ConfigureFails, Goto, Stages, Asked, Busy, InRange, Caller
<1>5. Ring' /\ Seen'
  BY <1>1, <1>2 DEF ConfigureFails, Goto, Ring, Seen, Running, shared
<1>6. Kept' /\ Counted' /\ SuccessIsDone' /\ OneHangIsSurvived'
  BY <1>2 DEF ConfigureFails, Goto, Kept, Counted, SuccessIsDone, OneHangIsSurvived, Busy,
              Stages, shared
<1> QED
  BY <1>3, <1>4, <1>5, <1>6

LEMMA CheckStatusInv == BlkInv /\ CheckStatus => BlkInv'
<1> SUFFICES ASSUME BlkInv, CheckStatus PROVE BlkInv'
  OBVIOUS
<1> USE DEF BlkInv, CallInv, RingInv
<1> DEFINE ok == req_status = 0
<1>1. \/ stage = "boot" /\ Goto("idle", stage, io, result)
      \/ stage = "boot" /\ Goto("panic", stage, io, result)
      \/ stage = "probe" /\ ok /\ Goto("fill", "retry", Caller, result)
      \/ stage \in {"first", "retry"} /\ ok /\ Goto("idle", stage, io, "ok")
      \/ stage # "boot" /\ ~ok /\ Goto("idle", stage, io, "fail")
  <2>1. do_io_returns(ok, FALSE)
    BY DEF CheckStatus
  <2> QED
    BY <2>1, ReturnCases DEF BlkTypeOK
<1>2. /\ UNCHANGED <<call, vq_last_used_idx, req_hdr, req_status, avail_idx, used_idx, buffer,
                     disk, faults>>
      /\ pc = "check" /\ Answered /\ used_idx = vq_last_used_idx
  BY DEF CheckStatus, shared, Seen
<1>11. /\ dev' \in DeviceType
       /\ \/ dev' = dev
          \/ stage \in {"boot", "probe"} /\ ~ok /\ ~Running'
  <2>1. dev \in DeviceType
    BY DEF BlkTypeOK, DeviceType
  <2>2. StatusFailed(ok)
    BY DEF CheckStatus
  <2> QED
    BY <2>1, <2>2 DEF StatusFailed, DeviceType, Running
<1>3. stage # "boot" => Busy /\ InRange(call.blk)
  BY <1>2 DEF Stages, Asked
<1>4. stage = "probe" => Caller \in Requests
  BY <1>3, BlocksAssumption DEF Caller, Requests, InRange, BlkTypeOK, Blocks, Buffers
<1>5. BlkTypeOK'
  BY <1>1, <1>2, <1>4, <1>11 DEF Goto, BlkTypeOK, DeviceType
<1>6. Stages' /\ Asked'
  BY <1>1, <1>2, <1>3 DEF Goto, Stages, Asked, Busy, InRange, Caller, BlkTypeOK
<1>7. Ring' /\ Seen'
  BY <1>1, <1>2, <1>11 DEF Goto, Ring, Seen, Running, Quiet
<1>8. Kept' /\ Counted'
  BY <1>1, <1>2, <1>3, <1>11 DEF Goto, Kept, Counted, Busy, Running, Stages
<1>9. SuccessIsDone'
  BY <1>1, <1>2, <1>3 DEF Goto, SuccessIsDone, Stages, Asked, Kept, Busy, Answered, Done, Caller
<1>10. OneHangIsSurvived'
  BY <1>1, <1>2, <1>3 DEF Goto, OneHangIsSurvived, Busy, Answered, InRange
<1> QED
  BY <1>5, <1>6, <1>7, <1>8, <1>9, <1>10

\* Only here is it needed that a device that is not silent is waited for.
LEMMA TimeoutInv == ASSUME ~Late PROVE BlkInv /\ Timeout => BlkInv'
<1> SUFFICES ASSUME BlkInv, Timeout PROVE BlkInv'
  OBVIOUS
<1> USE DEF BlkInv, CallInv, RingInv
<1>1. \/ stage = "boot" /\ Goto("panic", stage, io, result)
      \/ stage = "first" /\ Goto("layout", "probe", Probe, result)
      \/ stage \in {"probe", "retry"} /\ Goto("idle", stage, io, "fail")
  <2>1. do_io_returns(FALSE, TRUE)
    BY DEF Timeout
  <2> QED
    BY <2>1, ReturnCases DEF BlkTypeOK
<1>2. /\ UNCHANGED <<call, vq_last_used_idx, req_hdr, req_status, avail_idx, used_idx, buffer,
                     disk, faults>>
      /\ pc = "wait" /\ used_idx = vq_last_used_idx /\ ~Running
  BY DEF Timeout, shared
<1>9. dev' \in DeviceType /\ ~Running'
  <2>1. dev \in DeviceType
    BY DEF BlkTypeOK, DeviceType
  <2> QED
    BY <1>2, <2>1 DEF Timeout, StatusFailed, DeviceType, Running
<1>3. stage # "boot" => Busy /\ InRange(call.blk)
  BY <1>2 DEF Stages, Asked
<1>4. BlkTypeOK'
  BY <1>1, <1>2, <1>9, BlocksAssumption
     DEF Goto, BlkTypeOK, DeviceType, Probe, Requests, Types, Blocks, Buffers
<1>5. Stages' /\ Asked'
  BY <1>1, <1>2, <1>3 DEF Goto, Stages, Asked, Busy, InRange, Caller, BlkTypeOK
<1>6. Ring' /\ Seen'
  BY <1>1, <1>2, <1>9 DEF Goto, Ring, Seen
<1>7. Kept' /\ Counted'
  BY <1>1, <1>2, <1>3, <1>9 DEF Goto, Kept, Counted, Busy, Stages
<1>8. SuccessIsDone' /\ OneHangIsSurvived'
  BY <1>1, <1>2, <1>3 DEF Goto, SuccessIsDone, OneHangIsSurvived, Counted, Stages, Busy, InRange
<1> QED
  BY <1>4, <1>5, <1>6, <1>7, <1>8

\* blockdev_read and blockdev_write.
LEMMA StartInv ==
    ASSUME NEW type \in Types, NEW blk \in 0 .. MaxBlock, NEW data \in Data \cup {NoData},
           type = "OUT" => data \in Data
    PROVE  BlkInv /\ Start(type, blk, data) => BlkInv'
<1> SUFFICES ASSUME BlkInv, Start(type, blk, data) PROVE BlkInv'
  OBVIOUS
<1> USE DEF BlkInv, CallInv, RingInv
<1>1. /\ UNCHANGED <<vq_last_used_idx, req_hdr, req_status, avail_idx, used_idx, dev, disk>>
      /\ call' = [type |-> type, blk |-> blk, data |-> data]
      /\ pc = "idle" /\ faults' = IF Running THEN 0 ELSE 1
      /\ used_idx = vq_last_used_idx /\ (Running => Quiet) /\ ~Busy
  BY DEF Start, Ring, Seen, Stages
<1>2. CASE InRange(blk)
  <2>1. /\ pc' = "fill" /\ stage' = "first" /\ result' = "busy"
        /\ io' = [type |-> type, blk |-> blk, buf |-> "caller"]
        /\ buffer' = [buffer EXCEPT !["caller"] = data]
    BY <1>2 DEF Start, Goto
  <2>2. io' \in Requests
    BY <1>2, <2>1, BlocksAssumption DEF Requests, Blocks, Buffers, InRange
  <2>3. BlkTypeOK'
    BY <1>1, <2>1, <2>2 DEF BlkTypeOK, Buffers
  <2>4. Stages' /\ Asked'
    BY <1>1, <1>2, <2>1 DEF Stages, Asked, Busy, InRange, Caller
  <2>5. Ring' /\ Seen'
    BY <1>1, <2>1 DEF Ring, Seen, Running, Quiet
  <2>6. Kept' /\ Counted' /\ SuccessIsDone' /\ OneHangIsSurvived'
    BY <1>1, <2>1 DEF Kept, Counted, Busy, Running, SuccessIsDone, OneHangIsSurvived,
                      BlkTypeOK, Buffers
  <2> QED
    BY <2>3, <2>4, <2>5, <2>6
<1>3. CASE ~InRange(blk)
  <2>1. /\ pc' = "idle" /\ result' = "fail"
        /\ UNCHANGED <<stage, io, buffer>>
    BY <1>3 DEF Start, Goto
  <2>2. BlkTypeOK'
    BY <1>1, <2>1 DEF BlkTypeOK
  <2>3. Stages' /\ Asked'
    BY <1>1, <2>1 DEF Stages, Asked, Busy
  <2>4. Ring' /\ Seen'
    BY <1>1, <2>1 DEF Ring, Seen, Running, Quiet
  <2>5. Kept' /\ Counted' /\ SuccessIsDone' /\ OneHangIsSurvived'
    BY <1>1, <1>3, <2>1 DEF Kept, Counted, Busy, SuccessIsDone, OneHangIsSurvived, InRange
  <2> QED
    BY <2>2, <2>3, <2>4, <2>5
<1> QED
  BY <1>2, <1>3

-----------------------------------------------------------------------------
(* The theorems.                                                           *)

LEMMA InvNext == ASSUME ~Late PROVE BlkInv /\ [BlkNext]_blkVars => BlkInv'
<1> SUFFICES ASSUME BlkInv, [BlkNext]_blkVars PROVE BlkInv'
  OBVIOUS
<1>1. CASE DriverStep
  BY <1>1, FillInv, PublishInv, PollUsedInv, CheckStatusInv, TimeoutInv, LayoutInv,
     ConfigureInv, ConfigureFailsInv DEF DriverStep
<1>2. CASE Device
  BY <1>2, TakeInv, MoveInv, ErrorInv, StatusInv, UseInv DEF Device
<1>3. CASE Hang
  BY <1>3, HangInv
<1>4. ASSUME NEW blk \in 0 .. MaxBlock, blockdev_read(blk) PROVE BlkInv'
  BY <1>4, StartInv DEF blockdev_read, Types
<1>5. ASSUME NEW blk \in 0 .. MaxBlock, NEW data \in Data, blockdev_write(blk, data)
      PROVE  BlkInv'
  BY <1>5, StartInv DEF blockdev_write, Types
<1>6. CASE UNCHANGED blkVars
  BY <1>6 DEF blkVars, driver, shared, BlkInv, CallInv, BlkTypeOK, Stages, Asked, RingInv, Ring,
              Seen, Kept, Counted, SuccessIsDone, OneHangIsSurvived, Busy, Running, Quiet,
              Answered, Done, InRing, InHands, InRange, Caller
<1> QED
  BY <1>1, <1>2, <1>3, <1>4, <1>5, <1>6 DEF BlkNext

LEMMA BlkInvariant == ASSUME ~Late PROVE BlkSpec => []BlkInv
BY InvInit, InvNext, PTL DEF BlkSpec

\* The driver never rewrites what the device still works on, and a call that
\* returned 0 has been done, for every size of disk, ring and data
\* (virtio_do_io, virtio_recover_from_timeout): an answer that the driver sees
\* is the answer to the request it waits for.
THEOREM DriverSafe == ASSUME ~Late PROVE BlkSpec => []DriverSound
<1>1. BlkInv => DriverSound
  BY DEF BlkInv, CallInv, RingInv, DriverSound, DescriptorsQuiet, Ring
<1> QED
  BY <1>1, BlkInvariant, PTL

\* A call fails on a usable block only if two things went wrong in it: the one
\* retry after virtio_recover_from_timeout outlasts any single hang.
THEOREM RecoverySafe == ASSUME ~Late PROVE BlkSpec => []OneHangIsSurvived
<1>1. BlkInv => OneHangIsSurvived
  BY DEF BlkInv, RingInv
<1> QED
  BY <1>1, BlkInvariant, PTL

-----------------------------------------------------------------------------
(* The driver implements BlockDevice.                                      *)

LEMMA AbstractInit == BlkInit => Abstract!Init
BY DEF BlkInit, Abstract!Init

\* The driver's own steps between call and return, and those of the device
\* other than Move, are not seen by the caller.
LEMMA InnerSteps ==
    ASSUME BlkInv,
           \/ Fill \/ Publish \/ PollUsed \/ virtio_setup_vq_layout \/ virtio_configure_device
           \/ Take \/ Error \/ Status \/ Use \/ Hang
    PROVE  UNCHANGED Abstract!vars
BY DEF Abstract!vars, Fill, Publish, PollUsed, virtio_setup_vq_layout, virtio_configure_device,
       Take, Error, Status, Use, Hang, driver, shared

LEMMA AbstractReturn ==
    ASSUME BlkInv, ConfigureFails \/ CheckStatus \/ (Timeout /\ ~Late)
    PROVE  [Abstract!Next]_(Abstract!vars)
<1>1. UNCHANGED <<call, disk, buffer, req_status>>
  BY DEF ConfigureFails, CheckStatus, Timeout, shared
<1>2. BlkTypeOK /\ Stages /\ Asked /\ SuccessIsDone /\ Kept /\ pc \notin {"off", "idle"}
  BY DEF BlkInv, CallInv, RingInv, ConfigureFails, CheckStatus, Timeout
<1>3. PICK ok \in BOOLEAN, timed_out \in BOOLEAN :
        do_io_returns(ok, timed_out) /\ (ok => CheckStatus /\ req_status = 0)
  BY DEF ConfigureFails, CheckStatus, Timeout
<1>4. CASE UNCHANGED result
  BY <1>1, <1>4 DEF Abstract!vars
<1>5. CASE result' # result
  <2>1. /\ stage # "boot" /\ Busy /\ result' = IF ok THEN "ok" ELSE "fail"
        /\ ok => stage \in {"first", "retry"}
    BY <1>2, <1>3, <1>5, ReturnCases DEF Goto, Stages, BlkTypeOK
  <2>2. CASE ok
    <3>1. Done /\ io = Caller /\ call.blk \in Blocks
      BY <1>2, <1>3, <2>1, <2>2, BlocksAssumption
         DEF BlkInv, RingInv, Seen, CheckStatus, Answered, Asked, InRange, BlkTypeOK, Blocks
    <3>2. disk[call.blk] = buffer["caller"] /\ (call.type = "OUT" => disk[call.blk] = call.data)
      BY <1>2, <2>1, <3>1 DEF Done, Caller, Kept, Busy
    <3>3. Abstract!Succeed
      BY <1>1, <2>1, <2>2, <3>1, <3>2 DEF Abstract!Succeed, Busy
    <3> QED
      BY <3>3 DEF Abstract!Next
  <2>3. CASE ~ok
    <3>1. Abstract!Fail
      BY <1>1, <2>1, <2>3 DEF Abstract!Fail, Busy
    <3> QED
      BY <3>1 DEF Abstract!Next
  <2> QED
    BY <2>2, <2>3
<1> QED
  BY <1>4, <1>5

LEMMA AbstractMove == ASSUME BlkInv, Move PROVE [Abstract!Next]_(Abstract!vars)
<1>1. dev.req = io /\ io \in Requests /\ pc = "wait"
  BY HoldsIsWaiting DEF Move
<1>2. BlkTypeOK /\ Stages /\ Asked /\ Kept /\ result # "ok"
  BY <1>1 DEF BlkInv, CallInv, RingInv, Stages
<1>3. UNCHANGED <<call, result>>
  BY DEF Move, driver
<1>4. CASE io.type = "IN"
  BY <1>1, <1>2, <1>3, <1>4 DEF Move, Abstract!vars
<1>5. CASE io.type = "OUT"
  <2>1. Busy /\ io = Caller
    BY <1>1, <1>2, <1>5 DEF Asked, Stages, Probe, BlkTypeOK, Busy
  <2>2. call.blk \in Blocks /\ call.type = "OUT" /\ buffer["caller"] = call.data
    BY <1>1, <1>2, <1>5, <2>1 DEF Caller, Kept, Busy, Requests
  <2>3. disk' = [disk EXCEPT ![call.blk] = call.data]
    <3>1. disk' = [disk EXCEPT ![io.blk] = buffer[io.buf]]
      BY <1>1, <1>5 DEF Move
    <3>2. io.blk = call.blk /\ io.buf = "caller"
      BY <2>1 DEF Caller
    <3> QED
      BY <2>2, <3>1, <3>2
  <2>4. Abstract!Effect
    BY <1>2, <1>3, <2>1, <2>2, <2>3 DEF Abstract!Effect, Busy
  <2> QED
    BY <2>4 DEF Abstract!Next
<1> QED
  BY <1>1, <1>4, <1>5 DEF Requests, Types

LEMMA AbstractCall ==
    ASSUME NEW type, NEW blk, NEW data, BlkInv, Start(type, blk, data)
    PROVE  Abstract!Call(type, blk, data)
<1>1. result # "busy"
  BY DEF BlkInv, CallInv, Stages, Busy, Start
<1>2. result' \in {"busy", "fail"} /\ UNCHANGED disk
  BY DEF Start, Goto
<1> QED
  BY <1>1, <1>2 DEF Start, Abstract!Call

\* Every step of the driver and its device is a step that blockdev.h promises,
\* or one that its caller does not see: a write reaches its own block, inside
\* its own call, before a return of 0; a read that returned 0 has the block.
THEOREM DriverImplements == ASSUME ~Late PROVE BlkSpec => ImplementsBlockDevice
<1>1. BlkInv /\ [BlkNext]_blkVars => [Abstract!Next]_(Abstract!vars)
  <2> SUFFICES ASSUME BlkInv, [BlkNext]_blkVars PROVE [Abstract!Next]_(Abstract!vars)
    OBVIOUS
  <2>1. CASE DriverStep
    BY <2>1, InnerSteps, AbstractReturn DEF DriverStep
  <2>2. CASE Device
    BY <2>2, InnerSteps, AbstractMove DEF Device
  <2>3. CASE Hang
    BY <2>3, InnerSteps
  <2>4. ASSUME NEW blk \in 0 .. MaxBlock, blockdev_read(blk)
        PROVE  [Abstract!Next]_(Abstract!vars)
    BY <2>4, AbstractCall DEF blockdev_read, Abstract!Next
  <2>5. ASSUME NEW blk \in 0 .. MaxBlock, NEW data \in Data, blockdev_write(blk, data)
        PROVE  [Abstract!Next]_(Abstract!vars)
    BY <2>5, AbstractCall DEF blockdev_write, Abstract!Next
  <2>6. CASE UNCHANGED blkVars
    BY <2>6 DEF blkVars, driver, shared, Abstract!vars
  <2> QED
    BY <2>1, <2>2, <2>3, <2>4, <2>5, <2>6 DEF BlkNext
<1> QED
  BY <1>1, AbstractInit, BlkInvariant, PTL DEF BlkSpec, ImplementsBlockDevice, Abstract!Spec
=============================================================================
