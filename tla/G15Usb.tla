------------------------------- MODULE G15Usb -------------------------------
(***************************************************************************)
(* The driver part of libg15.c: one worker thread polls the extra keys     *)
(* (getPressedKeys) and writes the display (writePixmapToLCD) with two     *)
(* asynchronous libusb transfers.  libusb moves the data in the background *)
(* and runs the callbacks inside handle_transfer_events, on the worker;    *)
(* meanwhile the keyboard can be unplugged and plugged in again.           *)
(*                                                                         *)
(* libusb itself is external.  It is modelled from how libg15.c uses it:   *)
(* a submitted transfer is flying until its callback runs; a transfer of a *)
(* lost device completes with NO_DEVICE (or with an outcome it had before  *)
(* the loss) and cannot be submitted again.                                *)
(***************************************************************************)
EXTENDS Naturals, FiniteSets

CONSTANTS
    Keys,      \* the extra keys (G1.., L1.., M1..) of the keyboard
    MaxPlugs   \* bound: how often the keyboard is plugged in again

ASSUME KeysAssumption == Keys # {}
ASSUME MaxPlugsAssumption == MaxPlugs \in Nat

VARIABLES
    plugged,   \* the keyboard is on the bus
    plugs,     \* how often it was plugged in again
    handle,    \* keyboard_device
    xfer,      \* key_transfer and lcd_transfer
    orphans,   \* transfers libusb still works on after they were freed
    result,    \* key_transfer.result, the keys seen since the last report
    pressed,   \* *pressed_keys of the latest getPressedKeys
    pc,        \* where the worker thread is
    pump       \* handle_transfer_events found a reason to call libusb

vars == <<plugged, plugs, handle, xfer, orphans, result, pressed, pc, pump>>
libusb == <<plugged, plugs>>

Transfers == {"key", "lcd"}
Completion == {"COMPLETED", "TIMED_OUT", "ERROR", "CANCELLED", "NO_DEVICE"}
\* ERROR stands for the three statuses getPressedKeys refuses:
\* LIBUSB_TRANSFER_ERROR, _STALL and _OVERFLOW.

(***************************************************************************)
(* struct libg15_transfer.  status lives in the libusb_transfer, so "NULL" *)
(* says that the transfer pointer is NULL.  flying is libusb's view.       *)
(***************************************************************************)
TransferRecord ==
    [status : Completion \cup {"NULL"},
     active : BOOLEAN,
     free   : BOOLEAN,
     flying : {"no", "yes", "cancelling"}]

Handling == {"poll", "write", "writeCancelled", "exitKey", "exitLcd"}
Stopped == {"closed", "crashed"}

TypeOK ==
    /\ plugged \in BOOLEAN
    /\ plugs \in 0..MaxPlugs
    /\ handle \in {"NULL", "live", "lost"}
    /\ xfer \in [Transfers -> TransferRecord]
    /\ orphans \subseteq Transfers
    /\ result \subseteq Keys
    /\ pressed \subseteq Keys
    /\ pc \in {"loop", "polled"} \cup Handling \cup Stopped
    /\ pump \in BOOLEAN

\* initLibG15 succeeded; nothing is allocated before the first poll.
Init ==
    /\ plugged = TRUE
    /\ plugs = 0
    /\ handle = "live"
    /\ xfer = [t \in Transfers |-> [status |-> "NULL", active |-> FALSE,
                                    free |-> FALSE, flying |-> "no"]]
    /\ orphans = {}
    /\ result = {}
    /\ pressed = {}
    /\ pc = "loop"
    /\ pump = FALSE

-----------------------------------------------------------------------------
(* Operators on a transfer.                                                *)

Allocated(tr) == tr.status # "NULL"
Flying(x) == {t \in DOMAIN x : x[t].flying # "no"}

\* alloc_transfer: a new libusb_transfer; active and free keep their value.
AllocTransfer(tr) == IF Allocated(tr) THEN tr ELSE [tr EXCEPT !.status = "COMPLETED"]

\* free_transfer, in a state where libusb has returned the transfer.
FreeTransfer(tr) == [tr EXCEPT !.status = "NULL", !.flying = "no"]

\* cancel_transfer of an inactive transfer: the callback is called directly.
CancelDirect(tr) ==
    IF Allocated(tr)
    THEN [FreeTransfer(tr) EXCEPT !.free = TRUE, !.active = FALSE]
    ELSE tr

\* The callbacks' common part: libusb is done with the transfer; CANCELLED and
\* NO_DEVICE tear the structure down, the first only if that was requested.
Returned(tr, s) ==
    LET done == [tr EXCEPT !.status = s, !.flying = "no", !.active = FALSE]
    IN  IF s = "NO_DEVICE" \/ (s = "CANCELLED" /\ tr.free)
        THEN FreeTransfer(done)
        ELSE done

\* handle_transfer_events asks libusb only for a transfer that can still finish.
NeedHandle(x, skipCancelled) ==
    \E t \in Transfers :
        /\ Allocated(x[t])
        /\ skipCancelled \/ x[t].status \notin {"CANCELLED", "NO_DEVICE"}

-----------------------------------------------------------------------------
(* The library's internal calls, as relations on the next state.           *)

\* A variant that forgets the display's transfer.
LoseDeviceKeyOnly(x) ==
    /\ handle' = "NULL"
    /\ xfer' = [x EXCEPT !["key"] = CancelDirect([@ EXCEPT !.active = FALSE])]
    /\ orphans' = orphans \cup (Flying(x) \cap {"key"})

\* A variant that returns before keyboard_device is reset.
LoseDeviceKeepHandle(x) ==
    /\ UNCHANGED handle
    /\ xfer' = [t \in Transfers |-> CancelDirect([x[t] EXCEPT !.active = FALSE])]
    /\ orphans' = orphans \cup Flying(x)

\* A variant that leaves the closed handle in keyboard_device.
LoseDeviceDangling(x) ==
    /\ handle' = "closed"
    /\ xfer' = [t \in Transfers |-> CancelDirect([x[t] EXCEPT !.active = FALSE])]
    /\ orphans' = orphans \cup Flying(x)

\* handle_usb_errors(LIBUSB_ERROR_NO_DEVICE) and freeLibG15usb: both transfers are
\* marked inactive and freed through their callbacks, whether libusb has
\* returned them or not, and the device is closed.
LoseDevice(x) ==
    /\ handle' = "NULL"
    /\ xfer' = [t \in Transfers |-> CancelDirect([x[t] EXCEPT !.active = FALSE])]
    /\ orphans' = orphans \cup Flying(x)

\* findAndOpenG15 succeeds only with the keyboard on the bus, and not always.
Reopened(h) ==
    IF handle # "NULL" THEN h = handle
    ELSE h \in {"NULL"} \cup (IF plugged THEN {"live"} ELSE {})

\* What libusb_submit_transfer can return for a handle.
SubmitResult(h) == IF h = "live" THEN {"SUCCESS", "IO"} ELSE {"NO_DEVICE"}

\* A failed submit in getPressedKeys and writePixmapToLCD: handle_usb_errors, then
\* free_transfer (a second time when the device was lost).
SubmitFailed(x, t, h, ret) ==
    \/ ret = "NO_DEVICE" /\ LoseDevice(x)
    \/ /\ ret = "IO"
       /\ handle' = h
       /\ xfer' = [x EXCEPT ![t] = FreeTransfer(x[t])]
       /\ UNCHANGED orphans

\* libusb_cancel_transfer is accepted only for a transfer of a present device; it may
\* be refused then too, when the transfer is timing out or has completed.
CancelAccepted(x, t) == handle = "live" /\ x[t].flying = "yes"
Cancelling(x, t) == [x EXCEPT ![t].flying = "cancelling"]

Submitted(x, t) == [x EXCEPT ![t].active = TRUE, ![t].flying = "yes"]

-----------------------------------------------------------------------------
(* The bus.                                                                *)

\* The device goes; what it had submitted stays with libusb until it is handled.
Unplug ==
    /\ pc \notin Stopped
    /\ plugged
    /\ plugged' = FALSE
    /\ handle' = IF handle = "live" THEN "lost" ELSE handle
    /\ UNCHANGED <<plugs, xfer, orphans, result, pressed, pc, pump>>

Plug ==
    /\ pc \notin Stopped
    /\ ~plugged
    /\ plugs < MaxPlugs
    /\ plugged' = TRUE
    /\ plugs' = plugs + 1
    /\ UNCHANGED <<handle, xfer, orphans, result, pressed, pc, pump>>

-----------------------------------------------------------------------------
(* Callbacks, run by libusb_handle_events_timeout on the worker thread.    *)

Outcomes(t) ==
    {"COMPLETED", "TIMED_OUT", "ERROR"}
        \cup (IF xfer[t].flying = "cancelling" THEN {"CANCELLED"} ELSE {})
        \cup (IF handle = "live" THEN {} ELSE {"NO_DEVICE"})

InLibusb(t) == pc \in Handling /\ pump /\ xfer[t].flying # "no"

\* key_transfer_cb: a report is or-ed into the result and the transfer is submitted
\* again at once; a submit error leaves it to the next poll.
KeyCallback(s, report) ==
    /\ InLibusb("key")
    /\ s \in Outcomes("key")
    /\ s # "COMPLETED" => report = {}
    /\ result' = result \cup report
    /\ IF s \in {"CANCELLED", "NO_DEVICE"}
       THEN /\ xfer' = [xfer EXCEPT !["key"] = Returned(@, s)]
            /\ UNCHANGED <<handle, orphans>>
       ELSE \E ret \in SubmitResult(handle) :
               LET back == [xfer EXCEPT !["key"].status = s, !["key"].flying = "no"]
               IN  \/ /\ ret = "SUCCESS"
                      /\ xfer' = [back EXCEPT !["key"].flying = "yes"]
                      /\ UNCHANGED <<handle, orphans>>
                   \/ /\ ret = "IO"
                      /\ xfer' = [back EXCEPT !["key"].active = FALSE]
                      /\ UNCHANGED <<handle, orphans>>
                   \/ ret = "NO_DEVICE" /\ LoseDevice(back)
    /\ UNCHANGED <<libusb, pressed, pc, pump>>

\* A variant that leaves the display's transfer marked active after an error.
LcdCallbackActive(s) ==
    /\ InLibusb("lcd")
    /\ s \in Outcomes("lcd")
    /\ xfer' = [xfer EXCEPT !["lcd"] =
                   IF s = "ERROR" THEN [@ EXCEPT !.status = s, !.flying = "no"]
                   ELSE Returned(@, s)]
    /\ UNCHANGED <<libusb, handle, orphans, result, pressed, pc, pump>>

\* lcd_transfer_cb: whatever the outcome, the transfer is inactive afterwards.
LcdCallback(s) ==
    /\ InLibusb("lcd")
    /\ s \in Outcomes("lcd")
    /\ xfer' = [xfer EXCEPT !["lcd"] = Returned(@, s)]
    /\ UNCHANGED <<libusb, handle, orphans, result, pressed, pc, pump>>

(***************************************************************************)
(* libusb completes a transfer that was freed under it: undefined.  Either *)
(* the program crashes, or the freed memory still holds its values and the *)
(* callback runs for NO_DEVICE on the static structure, tearing down       *)
(* whatever that structure holds by then.                                  *)
(***************************************************************************)
OrphanCallback(t) ==
    /\ pc \in Handling /\ pump
    /\ t \in orphans
    /\ \/ /\ pc' = "crashed"
          /\ UNCHANGED <<xfer, orphans>>
       \/ /\ xfer' = [xfer EXCEPT ![t] = Returned(@, "NO_DEVICE")]
          /\ orphans' = (orphans \ {t}) \cup (Flying(xfer) \cap {t})
          /\ UNCHANGED pc
    /\ UNCHANGED <<libusb, handle, result, pressed, pump>>

-----------------------------------------------------------------------------
(* getPressedKeys, once per round of the worker's loop.                    *)

\* The key transfer as the poll finds it after alloc_transfer.
PollAlloc == [xfer EXCEPT !["key"] = AllocTransfer(@)]

\* No keyboard: the poll reports no key and no error.
PollAbsent ==
    /\ pc = "loop"
    /\ handle = "NULL"
    /\ pressed' = {}
    /\ pc' = "polled"
    /\ UNCHANGED <<libusb, handle, xfer, orphans, result, pump>>

\* The keyboard is (re)attached; an inactive key transfer is submitted.
PollSubmit(ret) ==
    /\ pc = "loop"
    /\ ~PollAlloc["key"].active
    /\ \E h \in {"live", "lost"} :
          /\ Reopened(h)
          /\ ret \in SubmitResult(h)
          /\ result' = IF Allocated(xfer["key"]) THEN result ELSE {}
          /\ IF ret = "SUCCESS"
             THEN /\ handle' = h
                  /\ xfer' = Submitted(PollAlloc, "key")
                  /\ pump' = NeedHandle(xfer', FALSE)
                  /\ pc' = "poll"
                  /\ UNCHANGED orphans
             ELSE /\ SubmitFailed(PollAlloc, "key", h, ret)
                  /\ UNCHANGED <<pump, pc>>
    /\ UNCHANGED <<libusb, pressed>>

\* The key transfer is under way already.
PollActive ==
    /\ pc = "loop"
    /\ handle # "NULL"
    /\ PollAlloc["key"].active
    /\ xfer' = PollAlloc
    /\ pump' = NeedHandle(xfer', FALSE)
    /\ pc' = "poll"
    /\ UNCHANGED <<libusb, handle, orphans, result, pressed>>

\* A variant that drops the keys seen so far when the status is an error.
PollReturnDropping ==
    /\ pc = "poll"
    /\ Allocated(xfer["key"])
    /\ IF xfer["key"].status = "ERROR"
       THEN pc' = "loop" /\ UNCHANGED pressed
       ELSE pc' = "polled" /\ pressed' = result
    /\ result' = {}
    /\ UNCHANGED <<libusb, handle, xfer, orphans, pump>>

\* handle_transfer_events is back: report the keys seen since the last report, or an
\* error that makes the worker wait and poll again.  The status is read even
\* when the callback has just freed the transfer.
PollReturn ==
    /\ pc = "poll"
    /\ CASE ~Allocated(xfer["key"]) ->
              pc' = "crashed" /\ UNCHANGED <<pressed, result>>
         [] xfer["key"].status = "ERROR" ->
              pc' = "loop" /\ UNCHANGED <<pressed, result>>
         [] OTHER ->
              pc' = "polled" /\ pressed' = result /\ result' = {}
    /\ UNCHANGED <<libusb, handle, xfer, orphans, pump>>

-----------------------------------------------------------------------------
(* writePixmapToLCD, in a round whose poll succeeded and that has a page   *)
(* to show.                                                                *)

\* No page to show in this round.
NoWrite ==
    /\ pc = "polled"
    /\ pc' = "loop"
    /\ UNCHANGED <<libusb, handle, xfer, orphans, result, pressed, pump>>

\* The last part of the call: submit the transfer if it is free for it, else give
\* the page up.
WriteSubmit(x, h) ==
    /\ IF Allocated(x["lcd"]) /\ ~x["lcd"].active
       THEN \E ret \in SubmitResult(h) :
               IF ret = "SUCCESS"
               THEN handle' = h /\ xfer' = Submitted(x, "lcd") /\ UNCHANGED orphans
               ELSE SubmitFailed(x, "lcd", h, ret)
       ELSE handle' = h /\ xfer' = x /\ UNCHANGED orphans
    /\ pc' = "loop"
    /\ UNCHANGED <<libusb, result, pressed, pump>>

WriteAlloc == [xfer EXCEPT !["lcd"] = AllocTransfer(@)]

\* The previous page is done, or there is none.
Write ==
    /\ pc = "polled"
    /\ \E h \in {"live", "lost"} :
          /\ Reopened(h)
          /\ ~WriteAlloc["lcd"].active
          /\ WriteSubmit(WriteAlloc, h)

\* The previous page is still under way: handle events first.
WriteBusy ==
    /\ pc = "polled"
    /\ handle # "NULL"
    /\ WriteAlloc["lcd"].active
    /\ xfer' = WriteAlloc
    /\ pump' = NeedHandle(xfer', FALSE)
    /\ pc' = "write"
    /\ UNCHANGED <<libusb, handle, orphans, result, pressed>>

\* It returned while events were handled.
WriteAfterEvents ==
    /\ pc \in {"write", "writeCancelled"}
    /\ \/ ~xfer["lcd"].active
       \/ pc = "writeCancelled"
    /\ WriteSubmit(xfer, handle)

\* A variant that does not wait for the cancelled page but frees it at once.
WriteCancelDirect ==
    /\ pc = "write"
    /\ xfer["lcd"].active
    /\ xfer' = [xfer EXCEPT !["lcd"] = CancelDirect(@)]
    /\ orphans' = orphans \cup (Flying(xfer) \cap {"lcd"})
    /\ pump' = NeedHandle(xfer', FALSE)
    /\ pc' = "writeCancelled"
    /\ UNCHANGED <<libusb, handle, result, pressed>>

\* A hanging page is cancelled, and events are handled once more.  The transfer is
\* read for the log and for libusb_cancel_transfer.
WriteCancel ==
    /\ pc = "write"
    /\ xfer["lcd"].active
    /\ IF Allocated(xfer["lcd"])
       THEN /\ \/ CancelAccepted(xfer, "lcd") /\ xfer' = Cancelling(xfer, "lcd")
               \/ UNCHANGED xfer            \* it is on its way back already
            /\ pump' = NeedHandle(xfer', FALSE)
            /\ pc' = "writeCancelled"
       ELSE pc' = "crashed" /\ UNCHANGED <<xfer, pump>>
    /\ UNCHANGED <<libusb, handle, orphans, result, pressed>>

-----------------------------------------------------------------------------
(* exitLibG15, when the loop has seen running = FALSE: cancel both         *)
(* transfers, then release and close the device.                           *)

ExitAbsent ==
    /\ pc = "loop"
    /\ handle = "NULL"
    /\ pc' = "closed"
    /\ UNCHANGED <<libusb, handle, xfer, orphans, result, pressed, pump>>

\* cancel_transfer up to its event handling: an active transfer is cancelled; if that
\* is refused it counts as inactive and is freed through its callback.
CancelStart(x, t) ==
    \/ /\ x[t].active
       /\ CancelAccepted(x, t)
       /\ xfer' = Cancelling([x EXCEPT ![t].free = TRUE], t)
       /\ pump' = NeedHandle(xfer', TRUE)
       /\ UNCHANGED orphans
    \/ /\ xfer' = [x EXCEPT ![t] = CancelDirect(@)]
       /\ orphans' = orphans \cup (Flying(x) \cap {t})
       /\ pump' = FALSE

\* The rest of it: a transfer that became inactive meanwhile and is still allocated.
CancelFinish(x, t) ==
    IF x[t].active THEN x ELSE [x EXCEPT ![t] = CancelDirect(@)]

ExitCancelKey ==
    /\ pc = "loop"
    /\ handle # "NULL"
    /\ CancelStart(xfer, "key")
    /\ pc' = "exitKey"
    /\ UNCHANGED <<libusb, handle, result, pressed>>

ExitCancelLcd ==
    /\ pc = "exitKey"
    /\ CancelStart(CancelFinish(xfer, "key"), "lcd")
    /\ pc' = "exitLcd"
    /\ UNCHANGED <<libusb, handle, result, pressed>>

\* libusb_release_interface and libusb_close; the handle is gone already when the key
\* callback met NO_DEVICE while events were handled.
ExitClose ==
    /\ pc = "exitLcd"
    /\ IF handle = "NULL"
       THEN pc' = "crashed" /\ UNCHANGED <<handle, xfer>>
       ELSE pc' = "closed" /\ handle' = "NULL" /\ xfer' = CancelFinish(xfer, "lcd")
    /\ UNCHANGED <<libusb, orphans, result, pressed, pump>>

-----------------------------------------------------------------------------

Poll ==
    \/ PollAbsent
    \/ \E ret \in {"SUCCESS", "IO", "NO_DEVICE"} : PollSubmit(ret)
    \/ PollActive
    \/ PollReturn

WritePixmap == NoWrite \/ Write \/ WriteBusy \/ WriteAfterEvents \/ WriteCancel

Exit == ExitAbsent \/ ExitCancelKey \/ ExitCancelLcd \/ ExitClose

Callback ==
    \/ \E s \in Completion, report \in SUBSET Keys : KeyCallback(s, report)
    \/ \E s \in Completion : LcdCallback(s)
    \/ \E t \in Transfers : OrphanCallback(t)

Next == Unplug \/ Plug \/ Poll \/ WritePixmap \/ Exit \/ Callback

Spec == Init /\ [][Next]_vars

\* The worker runs on; libusb completes what is flying; opening the keyboard and
\* submitting the key transfer do not fail for ever.
Fairness ==
    /\ WF_vars(Poll \/ WritePixmap)
    /\ SF_vars(KeyCallback("NO_DEVICE", {}))
    /\ SF_vars(PollSubmit("SUCCESS"))

FairSpec == Spec /\ Fairness

-----------------------------------------------------------------------------
(* Properties.                                                             *)

(***************************************************************************)
(* A transfer is marked active exactly while libusb works on its current   *)
(* memory.  The flag is what keeps writePixmapToLCD from submitting a      *)
(* flying transfer again and from waiting for one nobody works on, and     *)
(* what makes it safe to read the transfer's status for the log.           *)
(***************************************************************************)
ActiveIsFlying ==
    \A t \in Transfers :
        /\ xfer[t].active <=> xfer[t].flying # "no"
        /\ xfer[t].active => Allocated(xfer[t])

(***************************************************************************)
(* Losing the keyboard frees both transfers with their device: while       *)
(* keyboard_device is NULL nothing of the old device is left that the next *)
(* poll or page could submit to the reattached one.                        *)
(***************************************************************************)
FreedWithDevice ==
    handle = "NULL" /\ pc # "closed" =>
        \A t \in Transfers : ~Allocated(xfer[t])

(***************************************************************************)
(* No key press is lost between two polls: a key leaves the result only    *)
(* when it is reported, or when the transfer had been torn down and is     *)
(* allocated anew.                                                         *)
(***************************************************************************)
KeysReported ==
    [][\A k \in result \ result' : k \in pressed' \/ ~Allocated(xfer["key"])]_vars

(***************************************************************************)
(* As long as the first device is present and the program does not exit    *)
(* nothing is freed under libusb's hands and nothing undefined happens,    *)
(* whatever errors, timeouts and cancelled pages there are: it takes a     *)
(* lost device or a cancel refused at exit.                                *)
(***************************************************************************)
Running == pc \in {"loop", "polled", "poll", "write", "writeCancelled"}
DefinedWhilePresent ==
    [][Running /\ plugged /\ plugs = 0
         => pc' # "crashed" /\ (Running' => orphans' = {})]_vars

(***************************************************************************)
(* A keyboard that stays plugged in is listened to again, unless the       *)
(* program stops first: the poll reattaches and the key transfer flies.    *)
(***************************************************************************)
Listening == handle = "live" /\ xfer["key"].flying # "no"
Reattached == plugged ~> Listening \/ ~plugged \/ pc \in Stopped \/ pc \in {"exitKey", "exitLcd"}

(***************************************************************************)
(* Unplugging the keyboard is survived, so that the next poll can reattach *)
(* it (getPressedKeys' "try to reattach").                                 *)
(***************************************************************************)
UnplugSurvived == pc # "crashed"

=============================================================================
