------------------------------- MODULE G15Open -------------------------------
(***************************************************************************)
(* How the keyboard driver finds and opens its device (libg15.c): it goes   *)
(* through the table of devices, and through the configurations, interfaces *)
(* and alternate settings of the one it can open, takes each interface for  *)
(* input devices from the kernel, claims it, and gives it back if it has    *)
(* not yet both endpoints.  G15Usb has what is read and written then; the   *)
(* control messages for the lights and the table of keys are not modelled.  *)
(*                                                                         *)
(* The bus, the kernel's drivers and other programs are external.           *)
(***************************************************************************)
EXTENDS Naturals, Sequences

CONSTANTS G15Devices,   \* g15_devices: what is shared, the settings a plugged one has
          MaxClaimRetry,\* MAX_CLAIM_RETRY
          MaxHandles    \* bound: handles that are opened

OpenDevs == DOMAIN G15Devices
Interfaces == UNION {UNION {DOMAIN G15Devices[d].configs[n] : n \in DOMAIN G15Devices[d].configs} : d \in OpenDevs}

KeyboardSetting == [hid : BOOLEAN, keys : BOOLEAN, lcd : BOOLEAN]
KeyboardConfig == Seq(Seq(KeyboardSetting) \ {<<>>}) \ {<<>>}
KeyboardDevice == [shared : BOOLEAN, configs : Seq(KeyboardConfig) \ {<<>>}]

\* USB devices have at least one configuration, with an interface, with a setting.
ASSUME OpenConstants ==
    /\ MaxClaimRetry \in Nat /\ MaxHandles \in Nat
    /\ G15Devices \in Seq(KeyboardDevice) \ {<<>>}

VARIABLES goPlugged, \* devices on the bus
          goKernel,  \* <<device, interface>> a kernel driver is bound to
          goOther,   \* those another program has claimed
          goClaims,  \* <<handle, device, interface>>: claimed by the driver
          goStale,   \* the opened device left the bus since
          goMode,    \* closed, device, config, setting, claim, open
          goAt,      \* position in the loops of the search
          goHandle,  \* the handle that is worked with, handles count from 1
          goActive,  \* kernel_active of the interface
          goRetries,
          goKeys, goLcd,    \* the endpoints are known
          goInterface,      \* g15_interface
          goShared          \* shared_device

openVars == <<goPlugged, goKernel, goOther, goClaims, goStale, goMode, goAt, goHandle, goActive,
              goRetries, goKeys, goLcd, goInterface, goShared>>
openBus == <<goPlugged, goKernel, goOther, goClaims, goStale>>
openFound == <<goKeys, goLcd, goInterface, goShared>>

Config == G15Devices[goAt.dev].configs[goAt.conf]
Setting == Config[goAt.intf][goAt.alt]
Target == <<goAt.dev, goAt.intf>>
Start == [dev |-> 1, conf |-> 1, intf |-> 1, alt |-> 1]
InterfacesOf(d) == UNION {{d} \X DOMAIN G15Devices[d].configs[n] : n \in DOMAIN G15Devices[d].configs}

OpenTypeOK ==
    /\ goPlugged \subseteq OpenDevs
    /\ goKernel \subseteq OpenDevs \X Interfaces /\ goOther \subseteq OpenDevs \X Interfaces
    /\ goClaims \subseteq (1..MaxHandles) \X OpenDevs \X Interfaces
    /\ goMode \in {"closed", "device", "config", "setting", "claim", "open"}
    /\ goAt.dev \in OpenDevs /\ goAt.conf \in 1..Len(G15Devices[goAt.dev].configs)
    /\ (goMode \in {"setting", "claim"} => goAt.intf \in DOMAIN Config /\ goAt.alt \in DOMAIN Config[goAt.intf])
    /\ goHandle \in 0..MaxHandles /\ goRetries \in 0..MaxClaimRetry
    /\ {goStale, goActive, goKeys, goLcd, goShared} \subseteq BOOLEAN
    /\ goInterface \in Interfaces

OpenInit ==
    /\ goPlugged = {} /\ goKernel = {} /\ goOther = {} /\ goClaims = {} /\ goStale = FALSE
    /\ goMode = "closed" /\ goAt = Start /\ goHandle = 0 /\ goActive = FALSE /\ goRetries = 0
    /\ goKeys = FALSE /\ goLcd = FALSE /\ goInterface = 1 /\ goShared = FALSE

---------------------------------------------------------------------------
\* The bus and other programs.

Plug(d) ==
    /\ d \notin goPlugged /\ goPlugged' = goPlugged \cup {d}
    /\ goKernel' = goKernel \cup InterfacesOf(d)
    /\ UNCHANGED <<goOther, goClaims, goStale, goMode, goAt, goHandle, goActive, goRetries, openFound>>
Unplug(d) ==
    /\ d \in goPlugged /\ goPlugged' = goPlugged \ {d}
    /\ goKernel' = goKernel \ InterfacesOf(d) /\ goOther' = goOther \ InterfacesOf(d)
    /\ goClaims' = {c \in goClaims : c[2] # d}
    /\ goStale' = (goStale \/ (goMode # "closed" /\ goAt.dev = d))
    /\ UNCHANGED <<goMode, goAt, goHandle, goActive, goRetries, openFound>>
OtherClaims(t) ==
    /\ t[1] \in goPlugged /\ t \notin goKernel \cup goOther /\ \A c \in goClaims : <<c[2], c[3]>> # t
    /\ goOther' = goOther \cup {t}
    /\ UNCHANGED <<goPlugged, goKernel, goClaims, goStale, goMode, goAt, goHandle, goActive, goRetries,
                   openFound>>
OtherReleases(t) ==
    /\ t \in goOther /\ goOther' = goOther \ {t}
    /\ UNCHANGED <<goPlugged, goKernel, goClaims, goStale, goMode, goAt, goHandle, goActive, goRetries,
                   openFound>>

---------------------------------------------------------------------------
\* The search.

\* initLibG15, and the reattaching of getPressedKeys.
OpenStart ==
    /\ goMode = "closed" /\ goMode' = "device" /\ goAt' = Start /\ goStale' = FALSE
    /\ UNCHANGED <<goPlugged, goKernel, goOther, goClaims, goHandle, goActive, goRetries, openFound>>

\* findAndOpenG15 goes on with the next device.
NextDevice ==
    IF goAt.dev < Len(G15Devices)
    THEN goMode' = "device" /\ goAt' = [Start EXCEPT !.dev = goAt.dev + 1]
    ELSE goMode' = "closed" /\ goAt' = goAt

\* A failure: NULL is returned and the handle is not closed.
Dropped == NextDevice

\* It is not there, or the rights to open it are missing.
DeviceAbsent ==
    /\ goMode = "device" /\ NextDevice
    /\ UNCHANGED <<openBus, goHandle, goActive, goRetries, openFound>>

DeviceOpened ==
    /\ goMode = "device" /\ goAt.dev \in goPlugged /\ goHandle < MaxHandles
    /\ goHandle' = goHandle + 1 /\ goStale' = FALSE
    /\ \/ Dropped /\ UNCHANGED goShared
       \/ /\ goMode' = "config" /\ goAt' = goAt
          /\ goShared' = (goShared \/ G15Devices[goAt.dev].shared)
    /\ UNCHANGED <<goPlugged, goKernel, goOther, goClaims, goActive, goRetries, goKeys, goLcd, goInterface>>

NextConfig ==
    IF goAt.conf < Len(G15Devices[goAt.dev].configs)
    THEN goMode' = "config" /\ goAt' = [goAt EXCEPT !.conf = @ + 1]
    ELSE goMode' = "open" /\ goAt' = goAt

\* find_config begins; a configuration whose descriptor cannot be read is skipped.
ConfigSkipped ==
    /\ goMode = "config" /\ NextConfig
    /\ UNCHANGED <<openBus, goHandle, goActive, goRetries, openFound>>
ConfigRead ==
    /\ goMode = "config" /\ goMode' = "setting" /\ goAt' = [goAt EXCEPT !.intf = 1, !.alt = 1]
    /\ goKeys' = FALSE /\ goLcd' = FALSE
    /\ UNCHANGED <<openBus, goHandle, goActive, goRetries, goInterface, goShared>>

\* A variant: the loop over the interfaces runs one too far.
NextSettingPast(keys, lcd) ==
    IF goAt.intf <= Len(Config) /\ ~(keys /\ lcd)
    THEN goMode' = "setting" /\ goAt' = [goAt EXCEPT !.intf = @ + 1, !.alt = 1]
    ELSE NextConfig

\* The next alternate setting; the next interface, unless both endpoints are known.
NextSetting(keys, lcd) ==
    IF goAt.alt < Len(Config[goAt.intf])
    THEN goMode' = "setting" /\ goAt' = [goAt EXCEPT !.alt = @ + 1]
    ELSE IF goAt.intf < Len(Config) /\ ~(keys /\ lcd)
    THEN goMode' = "setting" /\ goAt' = [goAt EXCEPT !.intf = @ + 1, !.alt = 1]
    ELSE NextConfig

SettingSkipped ==
    /\ goMode = "setting" /\ ~Setting.hid /\ NextSetting(goKeys, goLcd)
    /\ UNCHANGED <<openBus, goHandle, goActive, goRetries, openFound>>

\* The interface is taken from the kernel's driver, which may fail, and the configuration set,
\* unless the device is shared; this fails at least while an interface is claimed.
SettingTaken ==
    /\ goMode = "setting" /\ Setting.hid /\ goActive' = (Target \in goKernel)
    /\ goKernel' \in {goKernel, goKernel \ {Target}}
    /\ \/ ~goShared /\ Dropped
       \/ /\ ~goShared => ~goStale /\ \A c \in goClaims : c[2] # goAt.dev
          /\ goMode' = "claim" /\ goAt' = goAt
    /\ goRetries' = 0
    /\ UNCHANGED <<goPlugged, goOther, goClaims, goStale, goHandle, openFound>>

Claimable ==
    /\ ~goStale /\ Target \notin goKernel \cup goOther
    /\ \A c \in goClaims : <<c[2], c[3]>> = Target => c[1] = goHandle

\* A driver that was active is bound again.
Reattached == IF goActive /\ ~goStale THEN goKernel \cup {Target} ELSE goKernel

Claim == goClaims \cup {<<goHandle, goAt.dev, goAt.intf>>}
\* A variant: the unwinding keeps the claim of an interface with one endpoint.
ReleasedNot == Claim

Released == goClaims \ {<<goHandle, goAt.dev, goAt.intf>>}

\* The interface is claimed, and its endpoints are taken; without both it is given back.
Claimed ==
    /\ goMode = "claim" /\ Claimable
    /\ goInterface' = goAt.intf
    /\ goKeys' = (goKeys \/ Setting.keys) /\ goLcd' = (goLcd \/ Setting.lcd)
    /\ IF goKeys' /\ goLcd' THEN goClaims' = Claim /\ UNCHANGED goKernel
       ELSE goClaims' = Released /\ goKernel' = Reattached
    /\ NextSetting(goKeys', goLcd')
    /\ UNCHANGED <<goPlugged, goOther, goStale, goHandle, goActive, goRetries, goShared>>

ClaimRetried ==
    /\ goMode = "claim" /\ ~Claimable /\ goRetries < MaxClaimRetry
    /\ goRetries' = goRetries + 1
    /\ UNCHANGED <<openBus, goMode, goAt, goHandle, goActive, openFound>>
ClaimFailed ==
    /\ goMode = "claim" /\ ~Claimable /\ goRetries = MaxClaimRetry
    /\ goKernel' = Reattached /\ Dropped
    /\ UNCHANGED <<goPlugged, goOther, goClaims, goStale, goHandle, goActive, goRetries, openFound>>

---------------------------------------------------------------------------
\* The opened device.

\* freeLibG15usb: closing gives up every claim of the handle; with a lost device it is not closed.
FreeLibG15usb ==
    /\ goMode = "open" /\ goMode' = "closed"
    /\ goClaims' = IF goStale THEN goClaims ELSE {c \in goClaims : c[1] # goHandle}
    /\ UNCHANGED <<goPlugged, goKernel, goOther, goStale, goAt, goHandle, goActive, goRetries, openFound>>

OpenNext ==
    \/ \E d \in OpenDevs : Plug(d) \/ Unplug(d) \/ \E t \in InterfacesOf(d) : OtherClaims(t) \/ OtherReleases(t)
    \/ OpenStart \/ DeviceAbsent \/ DeviceOpened \/ ConfigSkipped \/ ConfigRead
    \/ SettingSkipped \/ SettingTaken \/ Claimed \/ ClaimRetried \/ ClaimFailed
    \/ FreeLibG15usb

OpenSpec == OpenInit /\ [][OpenNext]_openVars
---------------------------------------------------------------------------
\* Properties.

\* Every device has one configuration without alternate settings.
OneSetting ==
    \A d \in OpenDevs :
        /\ Len(G15Devices[d].configs) = 1
        /\ \A intf \in DOMAIN G15Devices[d].configs[1] : Len(G15Devices[d].configs[1][intf]) = 1

\* Between two openings nothing stays claimed, so that an opening which failed half-way does
\* not keep the next one from the keyboard; and the open device has claimed at most the one
\* interface that closing releases.  This needs devices of one setting: before a second
\* configuration the endpoints are forgotten, but not the claim,
\* and a second setting can fail after the first one was kept.
ClaimedIsUsed ==
    goMode \in {"closed", "open"} /\ OneSetting =>
        goClaims \subseteq IF goMode = "open" THEN {<<goHandle, goAt.dev, goInterface>>} ELSE {}
=============================================================================
