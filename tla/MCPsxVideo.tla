----------------------------- MODULE MCPsxVideo -----------------------------
EXTENDS PsxVideo, DiscMountProps

CONSTANTS ntsc, pal

\* One NTSC and one PAL game; only the PAL game is named after its mode.
MCModeOf == [i \in Image |-> IF i = pal THEN 1 ELSE 0]
PalNamed == [i \in Image |-> IF i = pal THEN 2 ELSE 0]
NoneNamed == [i \in Image |-> 0]

\* Of the types that act alike one each: ps2_cd images may be files or CD images.
FewTypes ==
  /\ emu \in {"off", "ps2_cd", "psx"}
  /\ real \in {None, "psx", "dvd"}
  /\ effective \in {None, "psx", "ps2_cd", "dvd", "ps3"}
  /\ mounting => forced = 0 /\ patch = None   \* has no part in the video mode
=============================================================================
