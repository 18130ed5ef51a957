--------------------------- MODULE ConsoleSettings --------------------------
(* Settings of a session: the Cobra configuration (config.c), the video    *)
(* regions it sets (region.c), and the power event that a client asks for  *)
(* (sm_ext.c).  read_cobra_config, which would load the file, has no       *)
(* caller: the configuration is zero after every boot, its size included.  *)
EXTENDS Naturals, FiniteSets

CONSTANTS
  PsRegion,     \* regions of consoles
  DvdRegionOf,  \* dvd_video_region_map: video region of a console region
  BdRegionOf,   \* bd_video_region_map
  DvdRegion,    \* video regions; 0 is none
  BdRegion,
  HomeRegion,   \* the region of this console
  ConfigSize    \* fields that the clients' own structures have

ASSUME SettingsAssumption ==
  /\ PsRegion \subseteq 1 .. 255 /\ HomeRegion \in PsRegion
  /\ DvdRegionOf \in [PsRegion -> DvdRegion \ {0}] /\ BdRegionOf \in [PsRegion -> BdRegion \ {0}]
  /\ 0 \in DvdRegion \cap BdRegion /\ ConfigSize \subseteq 0 .. 2

VARIABLES
  config,       \* config.bd_video_region, config.dvd_video_region
  config_size,  \* config.size, as a number of fields
  bd_video_region, dvd_video_region,
  shown,        \* history: what the last reader got, and of which size
  reported,     \* history: the last player that asked for a region, the answer
  is_reboot, patch_done,
  power,        \* where the poll of VSH and the client's request are
  requested     \* history: a request that VSH has not been told of

settingsVars == <<config, config_size, bd_video_region, dvd_video_region,
                  shown, reported, is_reboot, patch_done, power, requested>>
configVars == <<config, config_size, bd_video_region, dvd_video_region, shown>>
powerVars == <<is_reboot, patch_done, power, requested>>

NoPower == [vsh |-> "idle", client |-> "idle"]
NoConfig == [bd |-> 0, dvd |-> 0]
NotShown == [size |-> 0, fields |-> NoConfig]
NotAsked == [player |-> "none", chosen |-> 0, region |-> HomeRegion]

SettingsInit ==
  /\ config = NoConfig /\ config_size = 0
  /\ bd_video_region = 0 /\ dvd_video_region = 0
  /\ shown = NotShown /\ reported = NotAsked
  /\ is_reboot = FALSE /\ patch_done = FALSE
  /\ power = NoPower /\ requested = FALSE

-----------------------------------------------------------------------------
\* check_and_correct: a region that is none of the defined ones becomes none.
Valid(x, regions) == IF x \in regions THEN x ELSE 0

\* sys_write_cobra_config: as many fields as the client's structure has.  The
\* file it then writes is never read and is left out.
WriteConfig ==
  /\ \E bd \in BdRegion \cup {3}, dvd \in DvdRegion \cup {3}, n \in ConfigSize :
       LET new == [bd |-> IF n >= 1 THEN Valid(bd, BdRegion) ELSE config.bd,
                   dvd |-> IF n >= 2 THEN Valid(dvd, DvdRegion) ELSE config.dvd]
       IN  /\ config' = new
           /\ bd_video_region' = new.bd /\ dvd_video_region' = new.dvd
  /\ UNCHANGED <<config_size, shown, reported>> /\ UNCHANGED powerVars

\* sys_read_cobra_config: what the client does not get is zero.
ReadConfig ==
  /\ \E n \in ConfigSize :
       LET have == IF n > config_size THEN config_size ELSE n
       IN  shown' = [size |-> n, fields |-> [bd |-> IF have >= 1 THEN config.bd ELSE 0,
                                              dvd |-> IF have >= 2 THEN config.dvd ELSE 0]]
  /\ UNCHANGED <<config, config_size, bd_video_region, dvd_video_region, reported>>
  /\ UNCHANGED powerVars

\* Mutant: the region of the console is replaced although it would do.
FakeAnyway(home, of, chosen) ==
  LET others == {r \in PsRegion \ {home} : of[r] = chosen}
  IN  IF others = {} THEN home ELSE CHOOSE r \in others : \A q \in others : q <= r

\* set_dvd_video_region and set_bd_video_region: the answer is kept when it has
\* the chosen video region, else it is the last of the map that has it.
Fake(home, of, chosen) ==
  LET others == {r \in PsRegion \ {home} : of[r] = chosen}
  IN  IF of[home] = chosen \/ others = {} THEN home
      ELSE CHOOSE r \in others : \A q \in others : q <= r

\* region_func: the players of DVDs and of Blu-ray films ask for the region.
AskRegion ==
  /\ \/ reported' = [player |-> "dvd", chosen |-> dvd_video_region,
                      region |-> IF dvd_video_region # 0
                                 THEN Fake(HomeRegion, DvdRegionOf, dvd_video_region)
                                 ELSE HomeRegion]
     \/ reported' = [player |-> "bd", chosen |-> bd_video_region,
                      region |-> IF bd_video_region # 0
                                 THEN Fake(HomeRegion, BdRegionOf, bd_video_region)
                                 ELSE HomeRegion]
     \/ reported' = [player |-> "other", chosen |-> 0, region |-> HomeRegion]
  /\ UNCHANGED configVars /\ UNCHANGED powerVars

-----------------------------------------------------------------------------
\* sys_sm_ext_send_poweroff_event, in two steps: the kind, then the hook.
RequestPower ==
  /\ power.client = "idle"
  /\ is_reboot' \in BOOLEAN /\ requested' = TRUE
  /\ power' = [power EXCEPT !.client = "hook"]
  /\ UNCHANGED <<patch_done, reported>> /\ UNCHANGED configVars

HookPower ==
  /\ power.client = "hook"
  /\ patch_done' = TRUE
  /\ power' = [power EXCEPT !.client = "idle"]
  /\ UNCHANGED <<is_reboot, requested, reported>> /\ UNCHANGED configVars

\* send_poweroff_event, in two steps: the event is copied, the hook taken away.
TellVsh ==
  /\ patch_done /\ power.vsh = "idle"
  /\ requested' = FALSE
  /\ power' = [power EXCEPT !.vsh = "unhook"]
  /\ UNCHANGED <<is_reboot, patch_done, reported>> /\ UNCHANGED configVars

UnhookPower ==
  /\ power.vsh = "unhook"
  /\ patch_done' = FALSE
  /\ power' = [power EXCEPT !.vsh = "idle"]
  /\ UNCHANGED <<is_reboot, requested, reported>> /\ UNCHANGED configVars

\* The console starts again.
Restart ==
  /\ config' = NoConfig /\ config_size' = 0
  /\ bd_video_region' = 0 /\ dvd_video_region' = 0
  /\ shown' = NotShown /\ reported' = NotAsked
  /\ is_reboot' = FALSE /\ patch_done' = FALSE
  /\ power' = NoPower /\ requested' = FALSE

SettingsNext ==
  \/ WriteConfig \/ ReadConfig \/ AskRegion
  \/ RequestPower \/ HookPower \/ TellVsh \/ UnhookPower \/ Restart

SettingsSpec == SettingsInit /\ [][SettingsNext]_settingsVars

-----------------------------------------------------------------------------
\* A player is told the region of a console that plays the chosen video region
\* whenever some console does, and the true region otherwise: also after a write
\* whose structure was too short for one of the regions, or whose file failed.
RegionServed ==
  LET right(of, home, chosen, answer) ==
        IF chosen # 0 /\ \E r \in PsRegion : of[r] = chosen
        THEN of[answer] = chosen /\ (of[home] = chosen => answer = home)
        ELSE answer = home
  IN  CASE reported.player = "dvd" ->
             right(DvdRegionOf, HomeRegion, reported.chosen, reported.region)
        [] reported.player = "bd" ->
             right(BdRegionOf, HomeRegion, reported.chosen, reported.region)
        [] OTHER -> reported.region = HomeRegion

\* A client reads back what was written.  Not so: config.size is never set.
ReadsBack == shown.size = 2 => shown.fields = [bd |-> bd_video_region, dvd |-> dvd_video_region]

\* A request for a power event is told to VSH or still hooked.  Not so: one that
\* comes between the copy and the unhooking is lost.
RequestKept == requested /\ power = NoPower => patch_done
=============================================================================
