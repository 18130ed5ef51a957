----------------------------- MODULE HenInstall -----------------------------
(* From the exploit to an updated console: the loader stage (stage0_file), *)
(* main() of the payload, and the thread of henplugin, which looks for an  *)
(* update, downloads and installs a package through VSH, and reboots.      *)
(* The power may fail at any step; what is on the disk stays.              *)
EXTENDS Naturals, Sequences, FiniteSets

CONSTANTS
  Version,      \* revisions of HEN, numbers above 0
  GameExt,      \* VSH gives the interface of game_ext_plugin
  MaxSets       \* bound: toggles set by the user

ASSUME InstallAssumption ==
  Version \subseteq Nat \ {0} /\ 1 \in Version /\ GameExt \in BOOLEAN /\ MaxSets \in Nat

VARIABLES
  installed,    \* the revision under /dev_flash/hen, None or Broken
  package,      \* the package under /dev_hdd0, and if it is of this session
  usb,          \* the emergency package on a USB device
  sprx,         \* /dev_hdd0/HENplugin.sprx
  lists,        \* boot_plugins.txt: "on", "hidden" as boot_plugins.hen, "none"
  flags,        \* for each toggle, the files <toggle>.on and .off that exist
  overtaken,    \* history: toggles set between filecopy's look and its copy
  published,    \* the revision the server names and sends
  sets,         \* how many toggles the user has set
  hen,          \* the payload in memory, and what its main() decided
  stage,        \* the exploit: "none", "write", "boot"
  hpc,          \* the thread of henplugin
  todo,         \* its do_install_hen, do_update, usb_emergency_update, reboot_flag, and the
                \* toggles whose default is still to copy
  path,         \* pkg_path
  callback,     \* what VSH calls when the plugin asked for is loaded
  thread,       \* thread2_download_finish, thread3_install_finish
  view,         \* views of VSH: the browser, the download, the installer, which comes
                \* some time after installPKG ("asked")
  missed        \* history: the thread looked for the installer before its view was there

diskVars == <<installed, package, usb, sprx, lists, flags, overtaken, published, sets>>
sessionVars == <<hen, stage, hpc, todo, path, callback, thread, view, missed>>
installVars == <<diskVars, sessionVars>>

None == 0
Broken == 99
NoPackage == [version |-> None, new |-> FALSE]
Toggle == {"hotkeys", "hen_old"}
CopyOrder == <<"hotkeys", "hen_old">>
DefaultOf == [hotkeys |-> "off", hen_old |-> "on"]
Key == {"L1", "L2", "R2"}
HenOff == [on |-> FALSE, version |-> None, installing |-> FALSE, only_r2 |-> FALSE, maps |-> "none",
           plugin |-> FALSE, user |-> FALSE]
NothingToDo == [install |-> FALSE, update |-> FALSE, emergency |-> FALSE, reboot |-> FALSE,
                copy |-> <<>>]
NoView == [browser |-> FALSE, download |-> FALSE, installer |-> "none"]

InstallInit ==
  /\ installed = None /\ package = NoPackage /\ usb = None /\ sprx = "none"
  /\ lists \in {"on", "none"} /\ flags = [t \in Toggle |-> {}]
  /\ published = 1 /\ overtaken = {} /\ sets = 0
  /\ hen = HenOff /\ stage = "none" /\ hpc = "idle" /\ todo = NothingToDo
  /\ path = "" /\ callback = "none" /\ thread = {} /\ view = NoView /\ missed = FALSE

-----------------------------------------------------------------------------
(* The world: the user, the server, the power.                             *)

Publish ==
  /\ \E v \in Version : v > published /\ published' = v
  /\ UNCHANGED <<installed, package, usb, sprx, lists, flags, overtaken, sets, sessionVars>>

PlugUsb ==
  /\ usb' \in Version \cup {None} /\ usb' # usb
  /\ view.installer = "none"
  /\ UNCHANGED <<installed, package, sprx, lists, flags, overtaken, published, sets, sessionVars>>

SetToggle ==
  /\ sets < MaxSets /\ sets' = sets + 1
  /\ \E t \in Toggle, f \in {{"on"}, {"off"}} :
       /\ flags' = [flags EXCEPT ![t] = f]
       /\ overtaken' = IF hpc = "copy" /\ Head(todo.copy) = t THEN overtaken \cup {t}
                       ELSE overtaken \ {t}
  /\ UNCHANGED <<installed, package, usb, sprx, lists, published, sessionVars>>

CloseBrowser ==
  /\ view.browser /\ view' = [view EXCEPT !.browser = FALSE]
  /\ UNCHANGED <<diskVars, hen, stage, hpc, todo, path, callback, thread, missed>>

\* Everything in memory is lost; an installation that was running is broken,
\* and so is a plugin that was being written.
LoseMemory ==
  /\ hen' = HenOff /\ stage' = "none" /\ hpc' = "idle" /\ todo' = NothingToDo
  /\ path' = "" /\ callback' = "none" /\ thread' = {} /\ view' = NoView
  /\ missed' = FALSE
  /\ installed' \in {installed} \cup (IF view.installer = "busy" THEN {None, Broken} ELSE {})
  /\ package' = [package EXCEPT !.new = FALSE]
  /\ sprx' \in {sprx} \cup (IF stage = "write" THEN {"cut"} ELSE {})
  /\ UNCHANGED <<usb, lists, flags, overtaken, published, sets>>

PowerOff == LoseMemory
RebootPs3 == hpc = "reboot" /\ LoseMemory

-----------------------------------------------------------------------------
(* The loader stage: stage0_file/main.c.                                   *)

\* The plugin of the last activation is removed first.  Nothing more happens
\* when syscall 8 exists.  The page either runs what is installed or installs.
RunExploit ==
  /\ stage = "none" /\ view.installer = "none"
  /\ \E installing \in BOOLEAN :
       /\ installing \/ installed \in Version
       /\ sprx' = "none"
       /\ IF hen.on THEN UNCHANGED <<hen, stage, view>>
          ELSE /\ stage' = "write"
               /\ hen' = [hen EXCEPT !.installing = installing,
                                     !.version = IF installing THEN published ELSE installed]
               /\ view' = [view EXCEPT !.browser = TRUE]
  /\ UNCHANGED <<installed, package, usb, lists, flags, overtaken, published, sets, hpc, todo, path,
                 callback, thread, missed>>

\* Ten attempts to open the file; a short write ends the stage without stage 2.
WritePlugin ==
  /\ stage = "write"
  /\ \/ sprx' = "whole" /\ stage' = "boot"
     \/ sprx' \in {"none", "cut"} /\ stage' = "none"
  /\ UNCHANGED <<installed, package, usb, lists, flags, overtaken, published, sets, hen, hpc, todo, path,
                 callback, thread, view, missed>>

(* main() of the payload.                                                  *)

\* check_combo_buttons: R2 is looked at last.
BootPluginsDisabled(keys) == IF "R2" \in keys THEN 1 ELSE IF "L2" \in keys THEN 2 ELSE 0
MappathDisabled(keys, remap_off) == "L1" \in keys \/ remap_off
\* The mappings of boot: by map_path, by map_path_slot, or none.
BootMaps(keys, remap_off) ==
  IF MappathDisabled(keys, remap_off) THEN "none"
  ELSE IF "off" \in flags["hen_old"] THEN "slots" ELSE "table"

\* is_hen_being_installed renames the lists before they are read.
ListsAtBoot == IF hen.installing /\ lists = "on" THEN "hidden" ELSE lists

BootPayload ==
  /\ stage = "boot"
  /\ \E pressed \in SUBSET Key, remap_off \in BOOLEAN, loads \in BOOLEAN :
       LET keys == IF "off" \in flags["hotkeys"] THEN {} ELSE pressed
           plugin == BootPluginsDisabled(keys) = 0
       IN  /\ hen' = [hen EXCEPT !.on = TRUE, !.maps = BootMaps(keys, remap_off),
                                 !.only_r2 = "R2" \in keys /\ "L2" \notin keys,
                                 !.plugin = plugin,
                                 !.user = BootPluginsDisabled(keys) = 0 /\ ListsAtBoot = "on"]
           /\ hpc' = IF plugin /\ loads THEN "start" ELSE "idle"
  /\ lists' = ListsAtBoot
  /\ stage' = "none"
  /\ UNCHANGED <<installed, package, usb, sprx, flags, overtaken, published, sets, todo, path, callback,
                 thread, view, missed>>

-----------------------------------------------------------------------------
(* henplugin_thread.                                                       *)

\* hen_updater, unless hen_updater.off exists: no answer, the revision of the
\* server, or the last two bytes of a reply that was cut off.
CheckUpdate ==
  /\ hpc = "start"
  /\ \E update \in {hen.version < published, FALSE, TRUE} :
       todo' = [todo EXCEPT !.install = (installed = None), !.update = update]
  /\ hpc' = "usb"
  /\ UNCHANGED <<diskVars, hen, stage, path, callback, thread, view, missed>>

\* An emergency package on a USB device comes first.  Else the package of an
\* earlier session should be removed, but pkg_path is still empty; the defaults of
\* the toggles are copied when files are missing (copyflag_thread).
CheckUsb ==
  /\ hpc = "usb"
  /\ IF usb # None
     THEN /\ todo' = [todo EXCEPT !.emergency = TRUE]
          /\ path' = "usb" /\ hpc' = "browser"
     ELSE /\ \E copy \in {<<>>, CopyOrder} : todo' = [todo EXCEPT !.copy = copy]
          /\ hpc' = "look" /\ UNCHANGED path
  /\ UNCHANGED <<diskVars, hen, stage, callback, thread, view, missed>>

Opposite(t) == IF DefaultOf[t] = "on" THEN "off" ELSE "on"

\* Mutant: the file of the default is looked for.
LookForSame ==
  /\ hpc = "look" /\ todo.copy # <<>>
  /\ IF DefaultOf[Head(todo.copy)] \in flags[Head(todo.copy)]
     THEN todo' = [todo EXCEPT !.copy = Tail(@)] /\ UNCHANGED hpc
     ELSE hpc' = "copy" /\ UNCHANGED todo
  /\ UNCHANGED <<diskVars, hen, stage, path, callback, thread, view, missed>>

\* filecopy of one default after the other: the file of the opposite is looked for ...
LookForOpposite ==
  /\ hpc = "look" /\ todo.copy # <<>>
  /\ IF Opposite(Head(todo.copy)) \in flags[Head(todo.copy)]
     THEN todo' = [todo EXCEPT !.copy = Tail(@)] /\ UNCHANGED hpc
     ELSE hpc' = "copy" /\ UNCHANGED todo
  /\ UNCHANGED <<diskVars, hen, stage, path, callback, thread, view, missed>>

\* ... and the copy made later, or not.
CopyDefaultFile ==
  /\ hpc = "copy" /\ hpc' = "look"
  /\ LET t == Head(todo.copy) IN
     flags' \in {flags, [flags EXCEPT ![t] = @ \cup {DefaultOf[t]}]}
  /\ todo' = [todo EXCEPT !.copy = Tail(@)]
  /\ UNCHANGED <<installed, package, usb, sprx, lists, overtaken, published, sets, hen, stage, path,
                 callback, thread, view, missed>>

DefaultsCopied ==
  /\ hpc = "look" /\ todo.copy = <<>>
  /\ hpc' = IF todo.install \/ todo.update THEN "browser" ELSE "done"
  /\ UNCHANGED <<diskVars, hen, stage, todo, path, callback, thread, view, missed>>

\* package_install: the browser is waited for, then the installer is loaded; a
\* package on a USB device is installed while this thread goes on.
AskInstaller ==
  /\ hpc = "browser" /\ ~view.browser /\ todo.emergency
  /\ callback' = "install" /\ hpc' = "done"
  /\ UNCHANGED <<diskVars, hen, stage, todo, path, thread, view, missed>>

\* The browser is waited for, then the download plugin is loaded.
AskDownload ==
  /\ hpc = "browser" /\ ~view.browser /\ ~todo.emergency
  /\ callback' = "download" /\ hpc' = "download"
  /\ view' = [view EXCEPT !.download = TRUE]
  /\ UNCHANGED <<diskVars, hen, stage, todo, path, thread, missed>>

\* downloadPKG_thread2 names the package and starts the download.
DownloadThread ==
  /\ callback = "download"
  /\ callback' = "none" /\ path' = "disk" /\ thread' = thread \cup {2}
  /\ UNCHANGED <<diskVars, hen, stage, hpc, todo, view, missed>>

\* The download ends, or fails, or the user cancels it.
DownloadEnds ==
  /\ view.download /\ 2 \in thread
  /\ view' = [view EXCEPT !.download = FALSE]
  /\ \/ package' = [version |-> published, new |-> TRUE]
     \/ UNCHANGED package
  /\ UNCHANGED <<installed, usb, sprx, lists, flags, overtaken, published, sets, hen, stage, hpc, todo, path,
                 callback, thread, missed>>

\* The thread has waited for the download; it installs what it finds.
AfterDownload ==
  /\ hpc = "download" /\ 2 \in thread /\ ~view.download
  /\ IF package = NoPackage THEN hpc' = "done" /\ UNCHANGED callback
     ELSE hpc' = "install" /\ callback' = "install"
  /\ UNCHANGED <<diskVars, hen, stage, todo, path, thread, view, missed>>

\* Mutant: the flag is not set.
InstallThreadUnmarked ==
  /\ callback = "install" /\ callback' = "none"
  /\ view' = [view EXCEPT !.installer = "busy"]
  /\ UNCHANGED <<diskVars, hen, stage, hpc, todo, path, thread, missed>>

\* installPKG_thread; without the interface it returns before its last line.
InstallThread ==
  /\ callback = "install" /\ callback' = "none"
  /\ IF GameExt
     THEN /\ thread' = thread \cup {3}
          /\ \E seen \in {"asked", "busy"} : view' = [view EXCEPT !.installer = seen]
     ELSE UNCHANGED <<thread, view>>
  /\ UNCHANGED <<diskVars, hen, stage, hpc, todo, path, missed>>

InstallerShown ==
  /\ view.installer = "asked" /\ view' = [view EXCEPT !.installer = "busy"]
  /\ UNCHANGED <<diskVars, hen, stage, hpc, todo, path, callback, thread, missed>>

\* The installation ends, or VSH refuses the package.  Without its file it breaks.
InstallerEnds ==
  /\ view.installer = "busy" /\ view' = [view EXCEPT !.installer = "none"]
  /\ \/ path = "usb" /\ installed' = usb
     \/ path # "usb" /\ installed' = IF package = NoPackage THEN Broken ELSE package.version
     \/ UNCHANGED installed
  /\ UNCHANGED <<package, usb, sprx, lists, flags, overtaken, published, sets, hen, stage, hpc, todo, path,
                 callback, thread, missed>>

\* Mutant: the view is not looked at.
AfterInstallAtOnce ==
  /\ hpc = "install" /\ 3 \in thread
  /\ missed' = (view.installer = "asked")
  /\ todo' = [todo EXCEPT !.reboot = TRUE] /\ hpc' = "done"
  /\ UNCHANGED <<diskVars, hen, stage, path, callback, thread, view>>

\* while (!thread3_install_finish || IS_INSTALLING)
AfterInstall ==
  /\ hpc = "install" /\ 3 \in thread /\ view.installer # "busy"
  /\ missed' = (view.installer = "asked")
  /\ todo' = [todo EXCEPT !.reboot = TRUE] /\ hpc' = "done"
  /\ UNCHANGED <<diskVars, hen, stage, path, callback, thread, view>>

\* done: the package goes, unless it is on a USB device.
Done ==
  /\ hpc = "done"
  /\ package' = IF path = "disk" THEN NoPackage ELSE package
  /\ hpc' = IF todo.reboot THEN "reboot" ELSE "exit"
  /\ UNCHANGED <<installed, usb, sprx, lists, flags, overtaken, published, sets, hen, stage, todo, path,
                 callback, thread, view, missed>>

-----------------------------------------------------------------------------
PluginThreadStep ==
  \/ CheckUpdate \/ CheckUsb \/ LookForOpposite \/ CopyDefaultFile \/ DefaultsCopied
  \/ AskInstaller \/ AskDownload \/ AfterDownload \/ AfterInstall
  \/ Done \/ RebootPs3
VshStep == DownloadThread \/ DownloadEnds \/ InstallThread \/ InstallerShown \/ InstallerEnds

InstallNext ==
  \/ Publish \/ PlugUsb \/ SetToggle \/ CloseBrowser \/ PowerOff
  \/ RunExploit \/ WritePlugin \/ BootPayload
  \/ PluginThreadStep \/ VshStep

InstallFairness ==
  /\ WF_installVars(PluginThreadStep) /\ WF_installVars(VshStep)
  /\ WF_installVars(CloseBrowser)
InstallSpec == InstallInit /\ [][InstallNext]_installVars
FairInstallSpec == InstallSpec /\ InstallFairness

-----------------------------------------------------------------------------
InstallTypeOK ==
  /\ installed \in Version \cup {None, Broken} /\ usb \in Version \cup {None}
  /\ package \in [version : Version \cup {None}, new : BOOLEAN]
  /\ sprx \in {"none", "cut", "whole"} /\ lists \in {"on", "hidden", "none"}
  /\ flags \in [Toggle -> SUBSET {"on", "off"}] /\ overtaken \subseteq Toggle /\ published \in Version
  /\ hpc \in {"idle", "start", "usb", "look", "copy", "browser", "download", "install", "done",
               "reboot", "exit"}
  /\ path \in {"", "disk", "usb"} /\ callback \in {"none", "download", "install"}
  /\ thread \subseteq {2, 3} /\ view.installer \in {"none", "asked", "busy"}

\* While a package is installed its file stays and henplugin does not reboot the
\* console, unless the thread looked for the installer before its view was there: the
\* installer is another thread of VSH, and the thread that waits knows of it by a flag
\* and by the name of a view (main.c 1445, 1467).
InstallUndisturbed ==
  ~missed =>
    /\ view.installer # "none" => path = "usb" \/ package # NoPackage
    /\ hpc = "reboot" => view.installer = "none" /\ callback = "none"

\* The files of a toggle never say on and off at once, whatever the user chose before
\* the defaults were copied, but for a toggle set between filecopy's look and its copy.
TogglesAgree == \A t \in Toggle \ overtaken : Cardinality(flags[t]) <= 1

\* By hand: the installer is never disturbed, and a toggle has one file.  Not so when
\* the view comes late (main.c 1445), or a toggle is set between look and copy (880).
NeverDisturbed == view.installer # "none" => path = "usb" \/ package # NoPackage
TogglesAlwaysAgree == \A t \in Toggle : Cardinality(flags[t]) <= 1

\* The thread of henplugin ends, by its exit or by a reboot, whenever the user
\* closes the browser and VSH ends what it began.
ThreadEnds == hpc = "start" ~> hpc \in {"exit", "idle"}

\* What a comment says (main.c 1378): temporary packages are removed so that old
\* ones cannot be installed.  Not so: pkg_path is empty at that point.
OldPackageNotInstalled == view.installer # "none" /\ path = "disk" => package.new

\* What README.md 198 says: R2 leaves out the lists of the disk, and L2 the plugins
\* of HEN too.  Not so: main() loads no plugin with either key.
R2KeepsHenPlugin == hen.on /\ hen.only_r2 => hen.plugin
=============================================================================
