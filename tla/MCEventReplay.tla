---------------------------- MODULE MCEventReplay ----------------------------
EXTENDS EventReplay, TLC

CONSTANTS k1, k2, a1, a2, tz

\* One entry of the four that are always single.
SettingValue == <<tz>>

\* The filter "#", and one that matches a device and its alias.
WantsValue == {{k1, k2, a1, a2, tz}, {k1, a1}}
=============================================================================
