------------------------------- MODULE MCDisks -------------------------------
\* Disks with two devices and two mount points, one of them with a blank in its name.
EXTENDS Disks

MCDevices == {"sda", "sdb"}
MCMountPoints == {"/", "/a b"}
MCEscaped == {"/a b"}
=============================================================================
