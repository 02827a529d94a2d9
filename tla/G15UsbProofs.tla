---------------------------- MODULE G15UsbProofs ----------------------------
(***************************************************************************)
(* Proofs about G15Usb, for every set of keys and every number of losses:  *)
(* type correctness, and the two invariants on which the safety of the     *)
(* transfers rests.  They are inductive only together: that the key        *)
(* callback runs with an open handle follows from FreedWithDevice, that a  *)
(* freed transfer is not flying any more from ActiveIsFlying.              *)
(***************************************************************************)
EXTENDS G15Usb, TLAPS

\* What ActiveIsFlying says of one transfer.
Sound(tr) == (tr.active <=> tr.flying # "no") /\ (tr.active => Allocated(tr))

IInv == TypeOK /\ ActiveIsFlying /\ FreedWithDevice

-----------------------------------------------------------------------------
(* The operators on one transfer.                                          *)

\* alloc_transfer keeps a sound transfer sound and leaves it allocated.
LEMMA AllocSound ==
    ASSUME NEW tr \in TransferRecord, Sound(tr)
    PROVE  /\ AllocTransfer(tr) \in TransferRecord
           /\ Sound(AllocTransfer(tr))
           /\ Allocated(AllocTransfer(tr))
           /\ AllocTransfer(tr).active = tr.active
  BY DEF AllocTransfer, Allocated, Sound, TransferRecord, Completion

\* free_transfer of an inactive transfer.
LEMMA FreeSound ==
    ASSUME NEW tr \in TransferRecord, ~tr.active
    PROVE  /\ FreeTransfer(tr) \in TransferRecord
           /\ Sound(FreeTransfer(tr))
           /\ ~Allocated(FreeTransfer(tr))
  BY DEF FreeTransfer, Allocated, Sound, TransferRecord

\* A direct cancel frees whatever it is given, provided that what is not allocated
\* is not flying either.
LEMMA CancelSound ==
    ASSUME NEW tr \in TransferRecord, Allocated(tr) \/ (tr.flying = "no" /\ ~tr.active)
    PROVE  /\ CancelDirect(tr) \in TransferRecord
           /\ Sound(CancelDirect(tr))
           /\ ~Allocated(CancelDirect(tr))
  BY DEF CancelDirect, FreeTransfer, Allocated, Sound, TransferRecord

\* After a callback's common part the transfer is inactive and not flying.
LEMMA ReturnedSound ==
    ASSUME NEW tr \in TransferRecord, NEW s \in Completion
    PROVE  /\ Returned(tr, s) \in TransferRecord
           /\ Sound(Returned(tr, s))
  BY DEF Returned, FreeTransfer, Allocated, Sound, TransferRecord, Completion

\* Marking a transfer inactive changes nothing else.
LEMMA Deactivated ==
    ASSUME NEW tr \in TransferRecord
    PROVE  LET d == [tr EXCEPT !.active = FALSE]
           IN  /\ d \in TransferRecord
               /\ ~d.active
               /\ d.flying = tr.flying
               /\ d.status = tr.status
  BY DEF TransferRecord

-----------------------------------------------------------------------------
(* The operators on both transfers.                                        *)

\* A record function that is typed and sound everywhere.
SoundAll(x) == x \in [Transfers -> TransferRecord] /\ \A t \in Transfers : Sound(x[t])

\* Changing one transfer soundly.
LEMMA UpdateSound ==
    ASSUME NEW x, SoundAll(x), NEW u \in Transfers,
           NEW tr \in TransferRecord, Sound(tr)
    PROVE  SoundAll([x EXCEPT ![u] = tr])
  BY DEF SoundAll

\* Transfers that are flying are transfers.
LEMMA FlyingType ==
    ASSUME NEW x \in [Transfers -> TransferRecord]
    PROVE  Flying(x) \subseteq Transfers
  BY DEF Flying

\* Losing the device frees both transfers and keyboard_device.
LEMMA LoseDeviceSound ==
    ASSUME NEW x \in [Transfers -> TransferRecord],
           \A t \in Transfers : Allocated(x[t]) \/ x[t].flying = "no",
           orphans \subseteq Transfers,
           LoseDevice(x)
    PROVE  /\ handle' = "NULL"
           /\ SoundAll(xfer')
           /\ \A t \in Transfers : ~Allocated(xfer'[t])
           /\ orphans' \subseteq Transfers
<1>1. handle' = "NULL" /\ orphans' \subseteq Transfers
  BY FlyingType DEF LoseDevice
<1>2. xfer' = [t \in Transfers |-> CancelDirect([x[t] EXCEPT !.active = FALSE])]
  BY DEF LoseDevice
<1>3. ASSUME NEW t \in Transfers
      PROVE  /\ xfer'[t] \in TransferRecord
             /\ Sound(xfer'[t])
             /\ ~Allocated(xfer'[t])
  <2> DEFINE d == [x[t] EXCEPT !.active = FALSE]
  <2>1. d \in TransferRecord /\ (Allocated(d) \/ (d.flying = "no" /\ ~d.active))
    BY Deactivated DEF Allocated
  <2>2. xfer'[t] = CancelDirect(d)
    BY <1>2
  <2> QED
    BY <2>1, <2>2, CancelSound
<1>4. SoundAll(xfer')
  BY <1>2, <1>3 DEF SoundAll
<1> QED
  BY <1>1, <1>3, <1>4

\* The invariant as the lemmas use it.
LEMMA InvSound ==
    ASSUME IInv
    PROVE  /\ SoundAll(xfer)
           /\ \A t \in Transfers : Allocated(xfer[t]) \/ xfer[t].flying = "no"
           /\ orphans \subseteq Transfers
  BY DEF IInv, TypeOK, ActiveIsFlying, SoundAll, Sound

\* A failed submit: the transfer it was for is inactive.
LEMMA SubmitFailedSound ==
    ASSUME NEW x, SoundAll(x), NEW t \in Transfers, ~x[t].active,
           NEW h \in {"live", "lost"}, NEW ret,
           orphans \subseteq Transfers,
           SubmitFailed(x, t, h, ret)
    PROVE  /\ SoundAll(xfer')
           /\ orphans' \subseteq Transfers
           /\ \/ handle' = h
              \/ handle' = "NULL" /\ \A u \in Transfers : ~Allocated(xfer'[u])
<1>1. CASE LoseDevice(x)
  <2>1. \A u \in Transfers : Allocated(x[u]) \/ x[u].flying = "no"
    BY DEF SoundAll, Sound
  <2> QED
    BY <1>1, <2>1, LoseDeviceSound DEF SoundAll
<1>2. CASE handle' = h /\ xfer' = [x EXCEPT ![t] = FreeTransfer(x[t])] /\ UNCHANGED orphans
  <2>1. x[t] \in TransferRecord
    BY DEF SoundAll
  <2> QED
    BY <1>2, <2>1, FreeSound, UpdateSound
<1> QED
  BY <1>1, <1>2 DEF SubmitFailed

\* A successful submit of an allocated transfer.
LEMMA SubmittedSound ==
    ASSUME NEW x, SoundAll(x), NEW t \in Transfers, Allocated(x[t])
    PROVE  SoundAll(Submitted(x, t))
<1> DEFINE tr == [x[t] EXCEPT !.active = TRUE, !.flying = "yes"]
<1>1. tr \in TransferRecord /\ Sound(tr)
  BY DEF SoundAll, Sound, Allocated, TransferRecord
<1>2. Submitted(x, t) = [x EXCEPT ![t] = tr]
  BY DEF Submitted, SoundAll, TransferRecord
<1> HIDE DEF tr
<1> QED
  BY <1>1, <1>2, UpdateSound

\* alloc_transfer of one of the two transfers.
LEMMA AllocAllSound ==
    ASSUME NEW x, SoundAll(x), NEW t \in Transfers
    PROVE  LET y == [x EXCEPT ![t] = AllocTransfer(@)]
           IN  /\ SoundAll(y)
               /\ Allocated(y[t])
               /\ y[t].active = x[t].active
<1>1. x[t] \in TransferRecord /\ Sound(x[t]) /\ x \in [Transfers -> TransferRecord]
  BY DEF SoundAll
<1> QED
  BY <1>1, AllocSound, UpdateSound

\* What a step has to establish: the parts of the invariant that are not about
\* transfers are typed, and the transfers are sound and freed with the device.
LEMMA InvNext ==
    ASSUME SoundAll(xfer'), orphans' \subseteq Transfers,
           plugged' \in BOOLEAN, plugs' \in 0..MaxPlugs,
           handle' \in {"NULL", "live", "lost"},
           result' \subseteq Keys, pressed' \subseteq Keys,
           pc' \in {"loop", "polled"} \cup Handling \cup Stopped, pump' \in BOOLEAN,
           handle' = "NULL" /\ pc' # "closed" => \A t \in Transfers : ~Allocated(xfer'[t])
    PROVE  IInv'
  BY DEF IInv, TypeOK, ActiveIsFlying, FreedWithDevice, SoundAll, Sound

-----------------------------------------------------------------------------
(* The steps.                                                              *)

\* The bus does not touch the transfers.
LEMMA BusStep == ASSUME IInv, Unplug \/ Plug PROVE IInv'
<1> USE DEF IInv, TypeOK, ActiveIsFlying, FreedWithDevice, Allocated
<1>1. CASE Unplug
  BY <1>1 DEF Unplug
<1>2. CASE Plug
  BY <1>2, MaxPlugsAssumption DEF Plug
<1> QED
  BY <1>1, <1>2

\* key_transfer_cb, in each of its outcomes.
LEMMA KeyCallbackStep ==
    ASSUME IInv, NEW s \in Completion, NEW report \in SUBSET Keys,
           KeyCallback(s, report)
    PROVE  IInv'
<1> DEFINE back == [xfer EXCEPT !["key"].status = s, !["key"].flying = "no"]
<1>1. /\ SoundAll(xfer) /\ orphans \subseteq Transfers
      /\ \A t \in Transfers : Allocated(xfer[t]) \/ xfer[t].flying = "no"
  BY InvSound
<1>2. xfer["key"] \in TransferRecord /\ "key" \in Transfers /\ xfer \in [Transfers -> TransferRecord]
  BY <1>1 DEF SoundAll, Transfers
<1>3. xfer["key"].active /\ Allocated(xfer["key"])
  BY <1>1, <1>2 DEF KeyCallback, InLibusb, SoundAll, Sound
<1>4. handle \in {"live", "lost"} \/ pc = "closed"
  BY <1>2, <1>3 DEF IInv, TypeOK, FreedWithDevice
<1>5. handle \in {"live", "lost"}
  BY <1>4 DEF KeyCallback, InLibusb, Handling
<1>6. /\ result' \subseteq Keys /\ pressed' \subseteq Keys /\ plugged' \in BOOLEAN
      /\ plugs' \in 0..MaxPlugs /\ pump' \in BOOLEAN
      /\ pc' \in {"loop", "polled"} \cup Handling \cup Stopped
  BY DEF KeyCallback, IInv, TypeOK, libusb
<1>7. CASE xfer' = [xfer EXCEPT !["key"] = Returned(@, s)] /\ UNCHANGED <<handle, orphans>>
  <2>1. SoundAll(xfer')
    BY <1>1, <1>2, <1>7, ReturnedSound, UpdateSound
  <2> QED
    BY <1>1, <1>5, <1>6, <1>7, <2>1, InvNext
<1>8. ASSUME s \notin {"CANCELLED", "NO_DEVICE"}, NEW ret \in SubmitResult(handle),
             ret = "SUCCESS", xfer' = [back EXCEPT !["key"].flying = "yes"],
             UNCHANGED <<handle, orphans>>
      PROVE  IInv'
  <2> DEFINE tr == [xfer["key"] EXCEPT !.status = s, !.flying = "yes"]
  <2>1. tr \in TransferRecord /\ Sound(tr)
    BY <1>2, <1>3 DEF Sound, Allocated, TransferRecord, Completion
  <2>2. xfer' = [xfer EXCEPT !["key"] = tr]
    BY <1>2, <1>8 DEF TransferRecord
  <2>3. SoundAll(xfer')
    BY <1>1, <1>2, <2>1, <2>2, UpdateSound
  <2> QED
    BY <1>1, <1>5, <1>6, <1>8, <2>3, InvNext
<1>9. ASSUME NEW ret \in SubmitResult(handle),
             ret = "IO", xfer' = [back EXCEPT !["key"].active = FALSE],
             UNCHANGED <<handle, orphans>>
      PROVE  IInv'
  <2> DEFINE tr == [xfer["key"] EXCEPT !.status = s, !.flying = "no", !.active = FALSE]
  <2>1. tr \in TransferRecord /\ Sound(tr)
    BY <1>2 DEF Sound, Allocated, TransferRecord, Completion
  <2>2. xfer' = [xfer EXCEPT !["key"] = tr]
    BY <1>2, <1>9 DEF TransferRecord
  <2>3. SoundAll(xfer')
    BY <1>1, <1>2, <2>1, <2>2, UpdateSound
  <2> QED
    BY <1>1, <1>5, <1>6, <1>9, <2>3, InvNext
<1>10. ASSUME LoseDevice(back) PROVE IInv'
  <2>1. back \in [Transfers -> TransferRecord]
    BY <1>2 DEF TransferRecord
  <2>2. \A t \in Transfers : Allocated(back[t]) \/ back[t].flying = "no"
    BY <1>1, <1>2 DEF Transfers, Allocated, TransferRecord
  <2>3. /\ handle' = "NULL" /\ SoundAll(xfer') /\ orphans' \subseteq Transfers
        /\ \A t \in Transfers : ~Allocated(xfer'[t])
    BY <1>1, <1>10, <2>1, <2>2, LoseDeviceSound
  <2> QED
    BY <1>6, <2>3, InvNext
<1> QED
  BY <1>7, <1>8, <1>9, <1>10 DEF KeyCallback

\* lcd_transfer_cb, in each of its outcomes.
LEMMA LcdCallbackStep ==
    ASSUME IInv, NEW s \in Completion, LcdCallback(s)
    PROVE  IInv'
<1>1. SoundAll(xfer) /\ xfer["lcd"] \in TransferRecord /\ "lcd" \in Transfers
  BY InvSound DEF SoundAll, Transfers
<1>2. handle # "NULL"
  BY <1>1 DEF IInv, FreedWithDevice, ActiveIsFlying, LcdCallback, InLibusb, Handling
<1>3. xfer' = [xfer EXCEPT !["lcd"] = Returned(@, s)]
  BY DEF LcdCallback
<1>4. SoundAll(xfer')
  BY <1>1, <1>3, ReturnedSound, UpdateSound
<1> QED
  BY <1>2, <1>4, InvNext DEF LcdCallback, IInv, TypeOK, libusb

\* A freed transfer comes back: whatever the static structure holds then is freed.
LEMMA OrphanCallbackStep ==
    ASSUME IInv, NEW t \in Transfers, OrphanCallback(t)
    PROVE  IInv'
<1>1. SoundAll(xfer) /\ xfer[t] \in TransferRecord /\ orphans \subseteq Transfers
  BY InvSound DEF SoundAll
<1>2. CASE pc' = "crashed" /\ UNCHANGED <<xfer, orphans>>
  <2>1. handle = "NULL" => \A u \in Transfers : ~Allocated(xfer'[u])
    BY <1>2 DEF OrphanCallback, IInv, FreedWithDevice, Handling
  <2> QED
    BY <1>1, <1>2, <2>1, InvNext DEF OrphanCallback, IInv, TypeOK, libusb, Stopped
<1>3. CASE /\ xfer' = [xfer EXCEPT ![t] = Returned(@, "NO_DEVICE")]
           /\ orphans' = (orphans \ {t}) \cup (Flying(xfer) \cap {t})
           /\ UNCHANGED pc
  <2>1. SoundAll(xfer')
    BY <1>1, <1>3, ReturnedSound, UpdateSound DEF Completion
  <2>2. handle = "NULL" => \A u \in Transfers : ~Allocated(xfer'[u])
    BY <1>1, <1>3 DEF OrphanCallback, IInv, FreedWithDevice, Handling, Returned,
                      FreeTransfer, Allocated, SoundAll, TransferRecord
  <2> QED
    BY <1>1, <1>3, <2>1, <2>2, InvNext DEF OrphanCallback, IInv, TypeOK, libusb
<1> QED
  BY <1>2, <1>3 DEF OrphanCallback

\* getPressedKeys up to its event handling.
LEMMA PollStep == ASSUME IInv, Poll PROVE IInv'
<1>1. SoundAll(xfer) /\ orphans \subseteq Transfers
  BY InvSound
<1>2. /\ SoundAll(PollAlloc) /\ Allocated(PollAlloc["key"])
      /\ "key" \in Transfers
  BY <1>1, AllocAllSound DEF PollAlloc, Transfers
<1>3. CASE PollAbsent
  BY <1>1, <1>3, InvNext DEF PollAbsent, IInv, TypeOK, FreedWithDevice, libusb
<1>4. ASSUME NEW ret \in {"SUCCESS", "IO", "NO_DEVICE"}, PollSubmit(ret)
      PROVE  IInv'
  <2>1. PICK h \in {"live", "lost"} :
          /\ result' = IF Allocated(xfer["key"]) THEN result ELSE {}
          /\ IF ret = "SUCCESS"
             THEN /\ handle' = h
                  /\ xfer' = Submitted(PollAlloc, "key")
                  /\ pump' = NeedHandle(xfer', FALSE)
                  /\ pc' = "poll"
                  /\ UNCHANGED orphans
             ELSE /\ SubmitFailed(PollAlloc, "key", h, ret)
                  /\ UNCHANGED <<pump, pc>>
    BY <1>4 DEF PollSubmit
  <2>2. result' \subseteq Keys /\ pressed' \subseteq Keys /\ plugged' \in BOOLEAN /\ plugs' \in 0..MaxPlugs
    BY <1>4, <2>1 DEF PollSubmit, IInv, TypeOK, libusb
  <2>3. ~PollAlloc["key"].active /\ pc = "loop"
    BY <1>4 DEF PollSubmit
  <2>4. CASE ret = "SUCCESS"
    <3>1. SoundAll(xfer')
      BY <1>2, <2>1, <2>4, SubmittedSound
    <3>2. pump' \in BOOLEAN
      BY <2>1, <2>4 DEF NeedHandle
    <3> QED
      BY <1>1, <2>1, <2>2, <2>4, <3>1, <3>2, InvNext DEF Handling
  <2>5. CASE ret # "SUCCESS"
    <3>1. SubmitFailed(PollAlloc, "key", h, ret) /\ UNCHANGED <<pump, pc>>
      BY <2>1, <2>5
    <3>2. /\ SoundAll(xfer') /\ orphans' \subseteq Transfers
          /\ \/ handle' = h
             \/ handle' = "NULL" /\ \A u \in Transfers : ~Allocated(xfer'[u])
      BY <1>1, <1>2, <2>3, <3>1, SubmitFailedSound
    <3> QED
      BY <2>2, <3>1, <3>2, InvNext DEF IInv, TypeOK
  <2> QED
    BY <2>4, <2>5
<1>5. CASE PollActive
  <2>1. xfer' = PollAlloc /\ pump' \in BOOLEAN
    BY <1>5 DEF PollActive, NeedHandle
  <2> QED
    BY <1>1, <1>2, <1>5, <2>1, InvNext DEF PollActive, IInv, TypeOK, libusb, Handling
<1>6. CASE PollReturn
  BY <1>1, <1>6, InvNext DEF PollReturn, IInv, TypeOK, FreedWithDevice, libusb, Stopped
<1> QED
  BY <1>3, <1>4, <1>5, <1>6 DEF Poll

\* The last part of writePixmapToLCD, from any sound pair of transfers.
LEMMA WriteSubmitSound ==
    ASSUME IInv, NEW x, SoundAll(x), NEW h \in {"NULL", "live", "lost"},
           h = "NULL" => \A t \in Transfers : ~Allocated(x[t]),
           pc # "closed",
           WriteSubmit(x, h)
    PROVE  IInv'
<1>1. /\ orphans \subseteq Transfers /\ result' \subseteq Keys /\ pressed' \subseteq Keys
      /\ plugged' \in BOOLEAN /\ plugs' \in 0..MaxPlugs /\ pump' \in BOOLEAN /\ pc' = "loop"
  BY DEF WriteSubmit, IInv, TypeOK, libusb
<1>2. CASE handle' = h /\ xfer' = x /\ UNCHANGED orphans
  BY <1>1, <1>2, InvNext
<1>3. ASSUME Allocated(x["lcd"]), ~x["lcd"].active, NEW ret \in SubmitResult(h),
             handle' = h, xfer' = Submitted(x, "lcd"), UNCHANGED orphans
      PROVE  IInv'
  <2>1. SoundAll(xfer') /\ h # "NULL"
    BY <1>3, SubmittedSound DEF Transfers
  <2> QED
    BY <1>1, <1>3, <2>1, InvNext
<1>4. ASSUME Allocated(x["lcd"]), ~x["lcd"].active, NEW ret \in SubmitResult(h),
             SubmitFailed(x, "lcd", h, ret)
      PROVE  IInv'
  <2>1. h \in {"live", "lost"}
    BY <1>4 DEF Transfers
  <2>2. /\ SoundAll(xfer') /\ orphans' \subseteq Transfers
        /\ \/ handle' = h
           \/ handle' = "NULL" /\ \A u \in Transfers : ~Allocated(xfer'[u])
    BY <1>1, <1>4, <2>1, SubmitFailedSound DEF Transfers
  <2> QED
    BY <1>1, <2>1, <2>2, InvNext
<1> QED
  BY <1>2, <1>3, <1>4 DEF WriteSubmit

\* writePixmapToLCD.
LEMMA WriteStep == ASSUME IInv, WritePixmap PROVE IInv'
<1>1. SoundAll(xfer) /\ orphans \subseteq Transfers /\ "lcd" \in Transfers
  BY InvSound DEF Transfers
<1>2. SoundAll(WriteAlloc)
  BY <1>1, AllocAllSound DEF WriteAlloc
<1>3. CASE NoWrite
  BY <1>1, <1>3, InvNext DEF NoWrite, IInv, TypeOK, FreedWithDevice, libusb
<1>4. CASE Write
  <2>1. PICK h \in {"live", "lost"} : WriteSubmit(WriteAlloc, h)
    BY <1>4 DEF Write
  <2>2. pc # "closed"
    BY <1>4 DEF Write
  <2> QED
    BY <1>2, <2>1, <2>2, WriteSubmitSound
<1>5. CASE WriteBusy
  <2>1. pump' \in BOOLEAN
    BY <1>5 DEF WriteBusy, NeedHandle
  <2> QED
    BY <1>1, <1>2, <1>5, <2>1, InvNext DEF WriteBusy, IInv, TypeOK, libusb, Handling
<1>6. CASE WriteAfterEvents
  <2>1. handle = "NULL" => \A t \in Transfers : ~Allocated(xfer[t])
    BY <1>6 DEF WriteAfterEvents, IInv, FreedWithDevice
  <2> QED
    BY <1>1, <1>6, <2>1, WriteSubmitSound DEF WriteAfterEvents, IInv, TypeOK
<1>7. CASE WriteCancel
  <2>1. xfer["lcd"].active /\ xfer["lcd"] \in TransferRecord /\ Allocated(xfer["lcd"])
    BY <1>1, <1>7 DEF WriteCancel, SoundAll, Sound
  <2>2. handle # "NULL"
    BY <1>1, <1>7, <2>1 DEF WriteCancel, IInv, FreedWithDevice
  <2>3. SoundAll(xfer')
    <3> DEFINE tr == [xfer["lcd"] EXCEPT !.flying = "cancelling"]
    <3>1. CASE xfer' = Cancelling(xfer, "lcd")
      <4>1. tr \in TransferRecord /\ Sound(tr)
        BY <2>1 DEF Sound, Allocated, TransferRecord
      <4>2. xfer' = [xfer EXCEPT !["lcd"] = tr]
        BY <3>1, <2>1 DEF Cancelling
      <4> HIDE DEF tr
      <4> QED
        BY <1>1, <4>1, <4>2, UpdateSound
    <3>2. CASE UNCHANGED xfer
      BY <1>1, <3>2
    <3> QED
      BY <1>7, <2>1, <3>1, <3>2 DEF WriteCancel
  <2>4. pump' \in BOOLEAN
    BY <1>7, <2>1 DEF WriteCancel, NeedHandle
  <2> QED
    BY <1>1, <1>7, <2>1, <2>2, <2>3, <2>4, InvNext
       DEF WriteCancel, IInv, TypeOK, libusb, Handling
<1> QED
  BY <1>3, <1>4, <1>5, <1>6, <1>7 DEF WritePixmap

\* cancel_transfer leaves both transfers sound, and what was freed stays freed.
LEMMA CancelStartSound ==
    ASSUME NEW x, SoundAll(x), NEW t \in Transfers, orphans \subseteq Transfers,
           handle = "NULL" => \A u \in Transfers : ~Allocated(x[u]),
           CancelStart(x, t)
    PROVE  /\ SoundAll(xfer') /\ orphans' \subseteq Transfers /\ pump' \in BOOLEAN
           /\ handle = "NULL" => \A u \in Transfers : ~Allocated(xfer'[u])
<1>1. x[t] \in TransferRecord /\ Sound(x[t]) /\ x \in [Transfers -> TransferRecord]
  BY DEF SoundAll
<1>2. CASE /\ x[t].active
           /\ xfer' = Cancelling([x EXCEPT ![t].free = TRUE], t)
           /\ pump' = NeedHandle(xfer', TRUE)
           /\ UNCHANGED orphans
  <2> DEFINE tr == [x[t] EXCEPT !.free = TRUE, !.flying = "cancelling"]
  <2>1. tr \in TransferRecord /\ Sound(tr)
    BY <1>1, <1>2 DEF Sound, Allocated, TransferRecord
  <2>2. xfer' = [x EXCEPT ![t] = tr]
    BY <1>1, <1>2 DEF Cancelling, TransferRecord
  <2>3. handle # "NULL" /\ pump' \in BOOLEAN
    BY <1>1, <1>2 DEF Sound, NeedHandle
  <2> HIDE DEF tr
  <2>4. SoundAll(xfer')
    BY <2>1, <2>2, UpdateSound
  <2>5. orphans' \subseteq Transfers
    BY <1>2
  <2> QED
    BY <2>3, <2>4, <2>5
<1>3. CASE /\ xfer' = [x EXCEPT ![t] = CancelDirect(@)]
           /\ orphans' = orphans \cup (Flying(x) \cap {t})
           /\ pump' = FALSE
  <2> DEFINE tr == CancelDirect(x[t])
  <2>1. tr \in TransferRecord /\ Sound(tr) /\ ~Allocated(tr)
    BY <1>1, CancelSound DEF Sound
  <2>2. xfer' = [x EXCEPT ![t] = tr]
    BY <1>3
  <2> HIDE DEF tr
  <2>3. SoundAll(xfer')
    BY <2>1, <2>2, UpdateSound
  <2>4. handle = "NULL" => \A u \in Transfers : ~Allocated(xfer'[u])
    BY <1>1, <2>1, <2>2
  <2>5. orphans' \subseteq Transfers /\ pump' \in BOOLEAN
    BY <1>3
  <2> QED
    BY <2>3, <2>4, <2>5
<1> QED
  BY <1>2, <1>3 DEF CancelStart

\* Its last part, likewise.
LEMMA CancelFinishSound ==
    ASSUME NEW x, SoundAll(x), NEW t \in Transfers
    PROVE  /\ SoundAll(CancelFinish(x, t))
           /\ \A u \in Transfers : ~Allocated(x[u]) => ~Allocated(CancelFinish(x, t)[u])
<1>1. x[t] \in TransferRecord /\ Sound(x[t]) /\ x \in [Transfers -> TransferRecord]
  BY DEF SoundAll
<1>2. CASE x[t].active
  BY <1>2 DEF CancelFinish
<1>3. CASE ~x[t].active
  <2> DEFINE tr == CancelDirect(x[t])
  <2>1. tr \in TransferRecord /\ Sound(tr) /\ ~Allocated(tr)
    BY <1>1, <1>3, CancelSound DEF Sound
  <2>2. CancelFinish(x, t) = [x EXCEPT ![t] = tr]
    BY <1>3 DEF CancelFinish
  <2> HIDE DEF tr
  <2>3. SoundAll(CancelFinish(x, t))
    BY <2>1, <2>2, UpdateSound
  <2> QED
    BY <1>1, <2>1, <2>2, <2>3
<1> QED
  BY <1>2, <1>3

\* exitLibG15.
LEMMA ExitStep == ASSUME IInv, Exit PROVE IInv'
<1>1. /\ SoundAll(xfer) /\ orphans \subseteq Transfers
      /\ "key" \in Transfers /\ "lcd" \in Transfers
  BY InvSound DEF Transfers
<1>2. pc # "closed" /\ handle = "NULL" => \A u \in Transfers : ~Allocated(xfer[u])
  BY DEF IInv, FreedWithDevice
<1>3. CASE ExitAbsent
  BY <1>1, <1>3, InvNext DEF ExitAbsent, IInv, TypeOK, libusb, Stopped
<1>4. CASE ExitCancelKey
  <2>1. /\ SoundAll(xfer') /\ orphans' \subseteq Transfers /\ pump' \in BOOLEAN
        /\ handle = "NULL" => \A u \in Transfers : ~Allocated(xfer'[u])
    BY <1>1, <1>2, <1>4, CancelStartSound DEF ExitCancelKey
  <2> QED
    BY <1>4, <2>1, InvNext DEF ExitCancelKey, IInv, TypeOK, libusb, Handling
<1>5. CASE ExitCancelLcd
  <2> DEFINE x == CancelFinish(xfer, "key")
  <2>1. SoundAll(x) /\ (handle = "NULL" => \A u \in Transfers : ~Allocated(x[u]))
    BY <1>1, <1>2, <1>5, CancelFinishSound DEF ExitCancelLcd
  <2>2. CancelStart(x, "lcd")
    BY <1>5 DEF ExitCancelLcd
  <2> HIDE DEF x
  <2>3. /\ SoundAll(xfer') /\ orphans' \subseteq Transfers /\ pump' \in BOOLEAN
        /\ handle = "NULL" => \A u \in Transfers : ~Allocated(xfer'[u])
    BY <1>1, <2>1, <2>2, CancelStartSound
  <2> QED
    BY <1>5, <2>3, InvNext DEF ExitCancelLcd, IInv, TypeOK, libusb, Handling
<1>6. CASE ExitClose
  <2>1. SoundAll(xfer')
    BY <1>1, <1>6, CancelFinishSound DEF ExitClose
  <2>2. handle' = "NULL" /\ pc' # "closed" => \A u \in Transfers : ~Allocated(xfer'[u])
    BY <1>2, <1>6 DEF ExitClose
  <2> QED
    BY <1>1, <1>6, <2>1, <2>2, InvNext DEF ExitClose, IInv, TypeOK, libusb, Stopped
<1> QED
  BY <1>3, <1>4, <1>5, <1>6 DEF Exit

-----------------------------------------------------------------------------
(* The theorems.                                                           *)

\* The initial state, and a step of any kind.
LEMMA InitInv == Init => IInv
<1> SUFFICES ASSUME Init PROVE IInv
  OBVIOUS
<1>1. xfer \in [Transfers -> TransferRecord]
  BY DEF Init, TransferRecord
<1>2. TypeOK
  <2>1. plugs \in 0..MaxPlugs
    BY MaxPlugsAssumption DEF Init
  <2> QED
    BY <1>1, <2>1 DEF Init, TypeOK
<1>3. ActiveIsFlying /\ FreedWithDevice
  BY DEF Init, ActiveIsFlying, FreedWithDevice
<1> QED
  BY <1>2, <1>3 DEF IInv

LEMMA NextInv == IInv /\ [Next]_vars => IInv'
<1> SUFFICES ASSUME IInv, [Next]_vars PROVE IInv'
  OBVIOUS
<1>1. CASE Callback
  BY <1>1, KeyCallbackStep, LcdCallbackStep, OrphanCallbackStep DEF Callback
<1>2. CASE UNCHANGED vars
  BY <1>2 DEF vars, IInv, TypeOK, ActiveIsFlying, FreedWithDevice, Allocated
<1> QED
  BY <1>1, <1>2, BusStep, PollStep, WriteStep, ExitStep DEF Next

LEMMA InvAlways == Spec => []IInv
  BY InitInv, NextInv, PTL DEF Spec

-----------------------------------------------------------------------------
(* The first device, while it is there.                                    *)

\* Nothing was freed under libusb's hands, and nothing tears the key transfer down: only a
\* lost device or an exit does.
Present == Running /\ plugged /\ plugs = 0
KeyKept ==
    /\ handle = "live"
    /\ xfer["key"].flying # "cancelling"
    /\ pc = "poll" => Allocated(xfer["key"])
PresentInv == Present => KeyKept /\ orphans = {}

\* What a step of the present device has to establish.
Harmless == pc' # "crashed" /\ (Running' => orphans' = {} /\ (plugged' => KeyKept'))

\* The bus changes the handle and the plug only.
LEMMA PresentBus == ASSUME PresentInv, Present, Unplug \/ Plug PROVE Harmless
  BY DEF PresentInv, Present, KeyKept, Harmless, Running, Unplug, Plug, Allocated

\* A callback of a present device is none of NO_DEVICE, and none of CANCELLED for the keys.
LEMMA PresentCallback == ASSUME IInv, PresentInv, Present, Callback PROVE Harmless
<1>1. /\ KeyKept /\ orphans = {} /\ SoundAll(xfer)
      /\ xfer["key"] \in TransferRecord /\ xfer["lcd"] \in TransferRecord
      /\ xfer \in [Transfers -> TransferRecord] /\ "key" \in Transfers
  BY InvSound DEF PresentInv, SoundAll, Transfers
<1>2. ASSUME NEW s \in Completion, NEW report \in SUBSET Keys, KeyCallback(s, report)
      PROVE  Harmless
  <2>1. s \in {"COMPLETED", "TIMED_OUT", "ERROR"}
    BY <1>1, <1>2 DEF KeyCallback, Outcomes, KeyKept
  <2>2. SubmitResult(handle) = {"SUCCESS", "IO"}
    BY <1>1 DEF SubmitResult, KeyKept
  <2>3. UNCHANGED <<handle, orphans, pc, plugged>>
    BY <1>2, <2>1, <2>2 DEF KeyCallback, libusb
  <2>4. xfer'["key"].status = s /\ xfer'["key"].flying \in {"yes", "no"}
    BY <1>1, <1>2, <2>1, <2>2 DEF KeyCallback, TransferRecord
  <2> QED
    BY <1>1, <2>1, <2>3, <2>4 DEF Harmless, Present, Running, KeyKept, Allocated
<1>3. ASSUME NEW s \in Completion, LcdCallback(s) PROVE Harmless
  <2>1. xfer'["key"] = xfer["key"] /\ UNCHANGED <<handle, orphans, pc, plugged>>
    BY <1>1, <1>3 DEF LcdCallback, libusb
  <2> QED
    BY <1>1, <2>1 DEF Harmless, Present, Running, KeyKept, Allocated
<1>4. \A t \in Transfers : ~OrphanCallback(t)
  BY <1>1 DEF OrphanCallback
<1> QED
  BY <1>2, <1>3, <1>4 DEF Callback

\* A submit of a present device does not find it lost.
LEMMA PresentPoll == ASSUME IInv, PresentInv, Present, Poll PROVE Harmless
<1>1. /\ KeyKept /\ orphans = {} /\ SoundAll(xfer)
      /\ xfer["key"] \in TransferRecord /\ xfer \in [Transfers -> TransferRecord]
      /\ "key" \in Transfers
  BY InvSound DEF PresentInv, SoundAll, Transfers
<1>2. /\ Allocated(PollAlloc["key"]) /\ PollAlloc["key"] \in TransferRecord
      /\ PollAlloc["key"].flying = xfer["key"].flying
      /\ PollAlloc \in [Transfers -> TransferRecord]
  BY <1>1, AllocSound DEF PollAlloc, AllocTransfer, SoundAll, TransferRecord, Allocated
<1>3. ~PollAbsent
  BY <1>1 DEF PollAbsent, KeyKept
<1>4. ASSUME NEW ret \in {"SUCCESS", "IO", "NO_DEVICE"}, PollSubmit(ret)
      PROVE  Harmless
  <2>1. PICK h \in {"live", "lost"} :
          /\ Reopened(h) /\ ret \in SubmitResult(h)
          /\ IF ret = "SUCCESS"
             THEN /\ handle' = h
                  /\ xfer' = Submitted(PollAlloc, "key")
                  /\ pump' = NeedHandle(xfer', FALSE)
                  /\ pc' = "poll"
                  /\ UNCHANGED orphans
             ELSE /\ SubmitFailed(PollAlloc, "key", h, ret)
                  /\ UNCHANGED <<pump, pc>>
    BY <1>4 DEF PollSubmit
  <2>2. h = "live" /\ ret \in {"SUCCESS", "IO"}
    BY <1>1, <2>1 DEF Reopened, SubmitResult, KeyKept
  <2>3. CASE ret = "SUCCESS"
    <3>1. xfer'["key"].flying = "yes" /\ Allocated(xfer'["key"])
      BY <1>1, <1>2, <2>1, <2>3 DEF Submitted, Allocated, TransferRecord
    <3> QED
      BY <1>1, <2>1, <2>2, <2>3, <3>1 DEF Harmless, Running, KeyKept
  <2>4. CASE ret = "IO"
    <3>1. handle' = h /\ UNCHANGED orphans /\ xfer'["key"] = FreeTransfer(PollAlloc["key"])
      BY <1>1, <1>2, <2>1, <2>4 DEF SubmitFailed
    <3>2. pc' = "loop"
      BY <1>4, <2>1, <2>4 DEF PollSubmit
    <3>3. xfer'["key"].flying = "no"
      BY <1>2, <3>1 DEF FreeTransfer, TransferRecord
    <3> QED
      BY <1>1, <2>2, <3>1, <3>2, <3>3 DEF Harmless, Running, KeyKept
  <2> QED
    BY <2>2, <2>3, <2>4
<1>5. CASE PollActive
  BY <1>1, <1>2, <1>5 DEF PollActive, Harmless, Running, KeyKept, libusb
<1>6. CASE PollReturn
  BY <1>1, <1>6 DEF PollReturn, Harmless, Running, KeyKept, libusb
<1> QED
  BY <1>3, <1>4, <1>5, <1>6 DEF Poll

\* A page touches the key transfer only when the device is found lost.
LEMMA PresentWriteSubmit ==
    ASSUME KeyKept, orphans = {}, NEW x \in [Transfers -> TransferRecord],
           x["key"] = xfer["key"], WriteSubmit(x, "live")
    PROVE  Harmless
<1>1. pc' = "loop"
  BY DEF WriteSubmit
<1>2. handle' = "live" /\ UNCHANGED orphans
  BY DEF WriteSubmit, SubmitResult, SubmitFailed
<1>3. \/ xfer' = x \/ xfer' = Submitted(x, "lcd")
      \/ xfer' = [x EXCEPT !["lcd"] = FreeTransfer(x["lcd"])]
  BY DEF WriteSubmit, SubmitResult, SubmitFailed
<1>4. xfer'["key"] = xfer["key"]
  BY <1>3 DEF Submitted, Transfers
<1> QED
  BY <1>1, <1>2, <1>4 DEF Harmless, KeyKept, Running

LEMMA PresentWrite == ASSUME IInv, PresentInv, Present, WritePixmap PROVE Harmless
<1>1. /\ KeyKept /\ orphans = {} /\ SoundAll(xfer) /\ xfer \in [Transfers -> TransferRecord]
      /\ "lcd" \in Transfers /\ "key" \in Transfers
  BY InvSound DEF PresentInv, SoundAll, Transfers
<1>2. WriteAlloc["key"] = xfer["key"] /\ WriteAlloc \in [Transfers -> TransferRecord]
  BY <1>1, AllocAllSound DEF WriteAlloc, SoundAll
<1>3. CASE NoWrite
  BY <1>1, <1>3 DEF NoWrite, Harmless, Running, KeyKept, libusb
<1>4. CASE Write
  <2>1. PICK h \in {"live", "lost"} : Reopened(h) /\ WriteSubmit(WriteAlloc, h)
    BY <1>4 DEF Write
  <2>2. h = "live"
    BY <1>1, <2>1 DEF Reopened, KeyKept
  <2> QED
    BY <1>1, <1>2, <2>1, <2>2, PresentWriteSubmit
<1>5. CASE WriteBusy
  BY <1>1, <1>2, <1>5 DEF WriteBusy, Harmless, Running, KeyKept, libusb
<1>6. CASE WriteAfterEvents
  BY <1>1, <1>6, PresentWriteSubmit DEF WriteAfterEvents, KeyKept
<1>7. CASE WriteCancel
  <2>1. Allocated(xfer["lcd"])
    BY <1>1, <1>7 DEF WriteCancel, SoundAll, Sound
  <2>2. pc' = "writeCancelled" /\ xfer'["key"] = xfer["key"] /\ UNCHANGED <<handle, orphans>>
    BY <1>1, <1>7, <2>1 DEF WriteCancel, Cancelling
  <2> QED
    BY <1>1, <2>2 DEF Harmless, Running, KeyKept
<1> QED
  BY <1>3, <1>4, <1>5, <1>6, <1>7 DEF WritePixmap

\* The first steps of an exit are none of the running program any more.
LEMMA PresentExit == ASSUME PresentInv, Present, Exit PROVE Harmless
  BY DEF PresentInv, Present, KeyKept, Exit, ExitAbsent, ExitCancelKey, ExitCancelLcd, ExitClose,
         Running, Harmless

LEMMA PresentStep == ASSUME IInv, PresentInv, Present, [Next]_vars PROVE Harmless
<1>1. CASE UNCHANGED vars
  BY <1>1 DEF vars, PresentInv, Present, KeyKept, Harmless, Running, Allocated
<1> QED
  BY <1>1, PresentBus, PresentPoll, PresentWrite, PresentExit, PresentCallback DEF Next

\* A device that was lost is not the first one any more, and an exit has no way back.
LEMMA PresentBefore == ASSUME IInv, [Next]_vars, Present' PROVE Present
<1>1. plugged /\ plugs = 0
  <2>1. CASE UNCHANGED <<plugged, plugs>>
    BY <2>1 DEF Present
  <2>2. ~Unplug
    BY DEF Unplug, Present
  <2>3. ~Plug
    BY DEF Plug, Present, IInv, TypeOK
  <2>4. UNCHANGED <<plugged, plugs>> \/ Unplug \/ Plug
    BY DEF Next, vars, Poll, PollAbsent, PollSubmit, PollActive, PollReturn, WritePixmap,
           NoWrite, Write, WriteBusy, WriteAfterEvents, WriteCancel, WriteSubmit, Exit, ExitAbsent,
           ExitCancelKey, ExitCancelLcd, ExitClose, Callback, KeyCallback, LcdCallback,
           OrphanCallback, libusb
  <2> QED
    BY <2>1, <2>2, <2>3, <2>4
<1>2. Running
  BY DEF Next, vars, Unplug, Plug, Poll, PollAbsent, PollSubmit, PollActive, PollReturn, WritePixmap,
         NoWrite, Write, WriteBusy, WriteAfterEvents, WriteCancel, WriteSubmit, Exit, ExitAbsent,
         ExitCancelKey, ExitCancelLcd, ExitClose, Callback, KeyCallback, LcdCallback, OrphanCallback,
         Present, Running
<1> QED
  BY <1>1, <1>2 DEF Present

LEMMA PresentNext == IInv /\ PresentInv /\ [Next]_vars => PresentInv'
<1> SUFFICES ASSUME IInv, PresentInv, [Next]_vars, Present' PROVE KeyKept' /\ orphans' = {}
  BY DEF PresentInv
<1>1. Present
  BY PresentBefore
<1>2. Harmless
  BY <1>1, PresentStep
<1> QED
  BY <1>2 DEF Harmless, Present

LEMMA PresentInit == Init => PresentInv
  BY DEF Init, PresentInv, KeyKept, Transfers

-----------------------------------------------------------------------------
(***************************************************************************)
(* The driver's state keeps its type.                                      *)
(***************************************************************************)
THEOREM TypeCorrect == Spec => []TypeOK
<1>1. IInv => TypeOK
  BY DEF IInv
<1> QED
  BY <1>1, InvAlways, PTL

(***************************************************************************)
(* The active flag tells the truth about libusb, through errors, timeouts, *)
(* cancels, losses of the device and what libusb does with freed memory.   *)
(***************************************************************************)
THEOREM ActiveFlagCorrect == Spec => []ActiveIsFlying
<1>1. IInv => ActiveIsFlying
  BY DEF IInv
<1> QED
  BY <1>1, InvAlways, PTL

(***************************************************************************)
(* No transfer of a lost device survives in the library.                   *)
(***************************************************************************)
THEOREM DeviceTakesTransfers == Spec => []FreedWithDevice
<1>1. IInv => FreedWithDevice
  BY DEF IInv
<1> QED
  BY <1>1, InvAlways, PTL

(***************************************************************************)
(* A key leaves the result only by being reported, or after a teardown.    *)
(***************************************************************************)
THEOREM NoKeyLost == Spec => KeysReported
<1> DEFINE Kept == \A k \in result \ result' : k \in pressed' \/ ~Allocated(xfer["key"])
<1>1. [Next]_vars => Kept
  <2> SUFFICES ASSUME [Next]_vars, NEW k \in result, k \notin result'
               PROVE  k \in pressed' \/ ~Allocated(xfer["key"])
    OBVIOUS
  <2>1. CASE Poll
    BY <2>1 DEF Poll, PollAbsent, PollSubmit, PollActive, PollReturn
  <2>2. CASE WritePixmap
    BY <2>2 DEF WritePixmap, NoWrite, Write, WriteBusy, WriteAfterEvents, WriteCancel, WriteSubmit
  <2>3. CASE Exit
    BY <2>3 DEF Exit, ExitAbsent, ExitCancelKey, ExitCancelLcd, ExitClose
  <2>4. CASE Callback
    BY <2>4 DEF Callback, KeyCallback, LcdCallback, OrphanCallback
  <2>5. CASE Unplug \/ Plug
    BY <2>5 DEF Unplug, Plug
  <2>6. CASE UNCHANGED vars
    BY <2>6 DEF vars
  <2> QED
    BY <2>1, <2>2, <2>3, <2>4, <2>5, <2>6 DEF Next
<1>2. [][Next]_vars => [][Kept]_vars
  BY <1>1, PTL
<1> QED
  BY <1>2 DEF Spec, KeysReported

(***************************************************************************)
(* Without a loss of the device and before an exit the program does not    *)
(* reach an undefined step and frees nothing libusb still works on.        *)
(***************************************************************************)
THEOREM PresentIsDefined == Spec => DefinedWhilePresent
<1> DEFINE Defined == Present => pc' # "crashed" /\ (Running' => orphans' = {})
<1>1. Spec => [](IInv /\ PresentInv)
  <2>1. Init => PresentInv
    BY PresentInit
  <2>2. IInv /\ PresentInv /\ [Next]_vars => PresentInv'
    BY PresentNext
  <2> QED
    BY <2>1, <2>2, InitInv, NextInv, PTL DEF Spec
<1>2. IInv /\ PresentInv /\ [Next]_vars => Defined
  BY PresentStep DEF Harmless
<1>3. Spec => [][Defined]_vars
  BY <1>1, <1>2, PTL DEF Spec
<1> QED
  BY <1>3 DEF DefinedWhilePresent, Present

=============================================================================
