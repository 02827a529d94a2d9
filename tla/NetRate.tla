------------------------------- MODULE NetRate -------------------------------
(***************************************************************************)
(* The network diagram (NetMonitor.cpp): once per tick it finds its device  *)
(* in /proc/net/dev, the one whose name begins with the configured text or, *)
(* without a text, the first one with traffic, and shows the difference to  *)
(* the counters it read last, whichever device these were of.               *)
(*                                                                         *)
(* The interfaces and their counters are the kernel's (external): one can   *)
(* be removed and return, with its counters at zero.                        *)
(***************************************************************************)
EXTENDS Naturals, Sequences, Functions

CONSTANTS NetOrder,   \* the interfaces in the order of the file, the loopback first
          Unaligned,  \* those whose name has not its colon in column 7
          NetTexts,   \* texts for the device
          NamedBy,    \* the interfaces whose name begins with a text
          NoText,     \* the empty text
          MaxBytes, MaxPlugs  \* bounds: received bytes, returns of an interface

NetDevs == Range(NetOrder)
Loopback == NetOrder[1]

ASSUME NetConstants ==
    /\ NetOrder # <<>> /\ Unaligned \subseteq NetDevs
    /\ NoText \in NetTexts /\ NamedBy \in [NetTexts -> SUBSET NetDevs]
    /\ MaxBytes \in Nat /\ MaxPlugs \in Nat

VARIABLES nrUp,    \* interfaces that are there
          nrRecv,  \* recvBytes of an interface
          nrSent,  \* interfaces that sent something
          nrPlug,  \* how often an interface returned
          nrText,  \* m_device
          nrPrev,  \* previous_net_stat, with the device and text it was read for
          nrDiff   \* the readings whose difference is shown; none, if zero is shown

nrVars == <<nrUp, nrRecv, nrSent, nrPlug, nrText, nrPrev, nrDiff>>
nrKernel == <<nrUp, nrRecv, nrSent, nrPlug>>

Sample(d) == [dev |-> d, plug |-> nrPlug[d], recv |-> nrRecv[d], text |-> nrText]
NoSample == [dev |-> Loopback, plug |-> 0, recv |-> 0, text |-> NoText]
NoDiff == [from |-> NoSample, to |-> NoSample]
Samples == [dev : NetDevs, plug : 0..MaxPlugs, recv : 0..MaxBytes, text : NetTexts]

NetTypeOK ==
    /\ nrUp \subseteq NetDevs /\ nrSent \subseteq NetDevs
    /\ nrRecv \in [NetDevs -> 0..MaxBytes] /\ nrPlug \in [NetDevs -> 0..MaxPlugs]
    /\ nrText \in NetTexts
    /\ nrPrev \in Samples /\ nrDiff \in [from : Samples, to : Samples]

NetInit ==
    /\ nrUp = NetDevs /\ nrRecv = [d \in NetDevs |-> 0] /\ nrSent = {}
    /\ nrPlug = [d \in NetDevs |-> 0]
    /\ nrText = NoText /\ nrPrev = NoSample /\ nrDiff = NoDiff

---------------------------------------------------------------------------
\* The kernel.

NetReceive(d) ==
    /\ d \in nrUp /\ nrRecv[d] < MaxBytes /\ nrRecv' = [nrRecv EXCEPT ![d] = @ + 1]
    /\ UNCHANGED <<nrUp, nrSent, nrPlug, nrText, nrPrev, nrDiff>>
NetSend(d) ==
    /\ d \in nrUp \ nrSent /\ nrSent' = nrSent \cup {d}
    /\ UNCHANGED <<nrUp, nrRecv, nrPlug, nrText, nrPrev, nrDiff>>
NetRemoved(d) ==
    /\ d \in nrUp \ {Loopback} /\ nrUp' = nrUp \ {d}
    /\ nrRecv' = [nrRecv EXCEPT ![d] = 0] /\ nrSent' = nrSent \ {d}
    /\ UNCHANGED <<nrPlug, nrText, nrPrev, nrDiff>>
NetReturns(d) ==
    /\ d \in NetDevs \ nrUp /\ nrPlug[d] < MaxPlugs /\ nrUp' = nrUp \cup {d}
    /\ nrPlug' = [nrPlug EXCEPT ![d] = @ + 1]
    /\ UNCHANGED <<nrRecv, nrSent, nrText, nrPrev, nrDiff>>

---------------------------------------------------------------------------
\* The monitor.

\* A line of the file that is taken.
Taken(d) ==
    /\ d \in nrUp \ Unaligned
    /\ IF nrText = NoText THEN d # Loopback /\ (nrRecv[d] > 0 \/ d \in nrSent)
       ELSE d \in NamedBy[nrText]

\* The first of them, read and compared with the previous one, if that has received bytes
\* (the test that names recvBytes twice does not look at the sent ones).
FirstTaken(i) == Taken(NetOrder[i]) /\ \A j \in 1..(i - 1) : ~Taken(NetOrder[j])
NetUpdate ==
    /\ \/ /\ \A d \in NetDevs : ~Taken(d)
          /\ UNCHANGED <<nrPrev, nrDiff>>
       \/ \E i \in DOMAIN NetOrder :
             /\ FirstTaken(i) /\ nrPrev' = Sample(NetOrder[i])
             /\ nrDiff' = IF nrPrev.recv > 0 THEN [from |-> nrPrev, to |-> nrPrev'] ELSE NoDiff
    /\ UNCHANGED <<nrKernel, nrText>>

\* A variant: reinit clears the time only.
ReinitTime == nrPrev

\* reinit.
Reinit == NoSample

\* net_device_changed, at every change of the entry.
NetDeviceChanged(t) ==
    /\ t # nrText /\ nrText' = t /\ nrPrev' = Reinit
    /\ UNCHANGED <<nrKernel, nrDiff>>

NetNext ==
    \/ \E d \in NetDevs : NetReceive(d) \/ NetSend(d) \/ NetRemoved(d) \/ NetReturns(d)
    \/ NetUpdate
    \/ \E t \in NetTexts : NetDeviceChanged(t)

NetSpec == NetInit /\ [][NetNext]_nrVars
---------------------------------------------------------------------------
\* Properties.

\* A shown difference is never of counters that were read for two texts; with a text that
\* begins the name of one interface only it is of that interface, and unless that was
\* removed in between, it did not run backwards (which would show as an enormous rate).
RateOfChosen ==
    nrDiff # NoDiff =>
        LET from == nrDiff.from  to == nrDiff.to IN
        /\ from.text = to.text
        /\ to.text # NoText => {from.dev, to.dev} \subseteq NamedBy[to.text]
        /\ from.dev = to.dev /\ from.plug = to.plug => from.recv <= to.recv
=============================================================================
