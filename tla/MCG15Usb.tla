------------------------------ MODULE MCG15Usb ------------------------------
\* G15Usb on a keyboard with two extra keys.
EXTENDS G15Usb

CONSTANTS k1, k2

MCKeys == {k1, k2}
=============================================================================
