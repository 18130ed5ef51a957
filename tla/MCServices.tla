---------------------------- MODULE MCServices ----------------------------
(* Services of the payload that share nothing: a behaviour of the instance *)
(* is one of the service in focus, the others stay as they begin.          *)
EXTENDS VshPlugins, SyscallGate, ModuleDecrypt, Hooks, ConsoleSettings, ProcessApi,
        KernelPatches, HenSession, TLC

CONSTANTS c1, c2, a1, a2, t1, t2, boot, p1, p2

VARIABLE focus

services == <<pluginVars, gateVars, decryptVars, hookVars, settingsVars, processVars,
              kernelVars, henSessionVars>>
servicesVars == <<services, focus>>

MCNameOf == [x \in Prx |-> "a"]
TwoNames == [x \in Prx |-> IF x = p1 THEN "a" ELSE "b"]
MCListFile == {[black |-> {}, white |-> {}], [black |-> {"hb", "game"}, white |-> {"hb"}]}
MCModuleKind == [m \in Mod |->
  CASE m = "vsh" -> "native" [] m = "plug" -> "bare" [] OTHER -> "cobra"]
MCShape == [m \in Mod |-> IF m = "plug" THEN <<2>> ELSE <<2, 1>>]
MCEntry == [m \in Mod |-> CASE m = "vsh" -> <<1, 0>> [] m = "plug" -> <<2>> [] OTHER -> <<0, 3>>]
MCPatchTable == << << <<"a", "always">>, <<"b", "psp">> >>,
                   << <<"c", "always">>, <<"d", "always">> >>,
                   << <<"e", "always">>, <<"f", "always">> >> >>
MCDvdOf == [r \in PsRegion |-> IF r = 2 THEN 1 ELSE 2]
MCFirstChoice == {[t \in HenToggle |-> "none"],
                  [t \in HenToggle |-> Opposite(DefaultChoice(t))],
                  [t \in HenToggle |-> IF t = "cookie" THEN "off" ELSE "none"]}
MCFirstWeb == {{"u1"} \X WebFile}
MCBdOf == [r \in PsRegion |-> IF r = 3 THEN 2 ELSE 1]

\* Where a service that is not in focus stays, if it may begin in several ways.
Pinned ==
  /\ focus # "gate" => files = [black |-> {}, white |-> {}]
  /\ focus # "decrypt" => conditions = {} /\ ~audio_off
  /\ focus # "hooks" => shape = [kind |-> "plain", n |-> 0]
  /\ focus # "session" =>
       /\ current = "u1" /\ others = 0 /\ named = HenUser
       /\ choice = [t \in HenToggle |-> "none"]

ServicesInit ==
  /\ focus \in {"plugins", "gate", "decrypt", "hooks", "settings", "api", "ids", "kernel",
               "session"}
  /\ PluginInit /\ GateInit /\ DecryptInit /\ HooksInit /\ SettingsInit
  /\ ProcessInit /\ KernelInit /\ HenSessionInit
  /\ Pinned

ServicesNext ==
  /\ UNCHANGED focus
  /\ \/ /\ focus = "plugins" /\ PluginNext
        /\ UNCHANGED <<gateVars, decryptVars, hookVars, settingsVars, processVars, kernelVars,
                        henSessionVars>>
     \/ /\ focus = "gate" /\ GateNext
        /\ UNCHANGED <<pluginVars, decryptVars, hookVars, settingsVars, processVars, kernelVars,
                        henSessionVars>>
     \/ /\ focus = "decrypt" /\ DecryptNext
        /\ UNCHANGED <<pluginVars, gateVars, hookVars, settingsVars, processVars, kernelVars,
                        henSessionVars>>
     \/ /\ focus = "hooks" /\ HooksNext
        /\ UNCHANGED <<pluginVars, gateVars, decryptVars, settingsVars, processVars, kernelVars,
                        henSessionVars>>
     \/ /\ focus = "settings" /\ SettingsNext
        /\ UNCHANGED <<pluginVars, gateVars, decryptVars, hookVars, processVars, kernelVars,
                        henSessionVars>>
     \/ /\ focus = "api" /\ ApiNext
        /\ UNCHANGED <<pluginVars, gateVars, decryptVars, hookVars, settingsVars, kernelVars,
                        henSessionVars>>
     \/ /\ focus = "ids" /\ IdNext
        /\ UNCHANGED <<pluginVars, gateVars, decryptVars, hookVars, settingsVars, kernelVars,
                        henSessionVars>>
     \/ /\ focus = "kernel" /\ KernelNext
        /\ UNCHANGED <<pluginVars, gateVars, decryptVars, hookVars, settingsVars, processVars,
                        henSessionVars>>
     \/ /\ focus = "session" /\ HenSessionNext
        /\ UNCHANGED <<pluginVars, gateVars, decryptVars, hookVars, settingsVars, processVars,
                        kernelVars>>

ServicesSpec == ServicesInit /\ [][ServicesNext]_servicesVars

-----------------------------------------------------------------------------
\* What the console is set to be is what it is: the region that the drive and the
\* games are told (region.c), and the toggles of henplugin (henplugin/main.c).
SettingsServed == RegionServed /\ SessionAgrees

Symmetric == Permutations({c1, c2})
=============================================================================
