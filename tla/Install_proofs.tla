---------------------------- MODULE Install_proofs ----------------------------
(* Proofs about the start of the console and its installer (HenInstall).   *)
EXTENDS HenInstall, FiniteSetTheorems, TLAPS

Stage == {"none", "write", "boot"}
Place == {"idle", "start", "usb", "look", "copy", "browser", "download", "install", "done", "reboot",
          "exit"}
Remaining == {CopyOrder, Tail(CopyOrder), <<>>}

\* The files of a toggle, unless it was set between the look and the copy of its default:
\* in between there is no file of the opposite.
Agree(t) ==
  /\ flags[t] \in {{}, {"on"}, {"off"}}
  /\ hpc = "copy" /\ Head(todo.copy) = t => Opposite(t) \notin flags[t]
Disk ==
  /\ DOMAIN flags = Toggle
  /\ \A t \in Toggle \ overtaken : Agree(t)
  /\ todo.copy \in Remaining /\ (hpc = "copy" => todo.copy # <<>>)

\* The fields of what is in memory; those that no step relies on have no type.
Memory ==
  /\ DOMAIN hen = {"on", "version", "installing", "only_r2", "maps", "plugin", "user"}
  /\ DOMAIN todo = {"install", "update", "emergency", "reboot", "copy"}
  /\ DOMAIN view = {"browser", "download", "installer"}
  /\ view.installer \in {"none", "asked", "busy"}
  /\ stage \in Stage /\ hpc \in Place
  /\ path \in {"", "disk", "usb"} /\ callback \in {"none", "download", "install"}
  /\ thread \subseteq {2, 3}

-----------------------------------------------------------------------------
(* What is in memory.                                                      *)

\* Every step keeps what the plugin remembers.
LEMMA MemoryStep ==
  Memory /\ [InstallNext]_installVars => Memory'
<1> SUFFICES ASSUME Memory, [InstallNext]_installVars PROVE Memory'
  OBVIOUS
<1> USE InstallAssumption DEF Memory, Stage, Place
<1>1. CASE Publish
  BY <1>1 DEF diskVars, sessionVars, Publish
<1>2. CASE PlugUsb
  BY <1>2 DEF diskVars, sessionVars, PlugUsb
<1>3. CASE SetToggle
  BY <1>3 DEF diskVars, sessionVars, SetToggle
<1>4. CASE CloseBrowser
  BY <1>4 DEF diskVars, sessionVars, CloseBrowser
<1>5. CASE PowerOff
  BY <1>5 DEF diskVars, sessionVars, PowerOff, LoseMemory, HenOff, NothingToDo, NoView
<1>6. CASE RunExploit
  BY <1>6 DEF diskVars, sessionVars, RunExploit
<1>7. CASE WritePlugin
  BY <1>7 DEF diskVars, sessionVars, WritePlugin
<1>8. CASE BootPayload
  BY <1>8 DEF diskVars, sessionVars, BootPayload, BootMaps
<1>9. CASE CheckUpdate
  BY <1>9 DEF diskVars, sessionVars, CheckUpdate
<1>10. CASE CheckUsb
  BY <1>10 DEF diskVars, sessionVars, CheckUsb
<1>23. CASE LookForOpposite
  BY <1>23 DEF diskVars, sessionVars, LookForOpposite
<1>24. CASE CopyDefaultFile
  BY <1>24 DEF diskVars, sessionVars, CopyDefaultFile
<1>25. CASE DefaultsCopied
  BY <1>25 DEF diskVars, sessionVars, DefaultsCopied
<1>11. CASE AskInstaller
  BY <1>11 DEF diskVars, sessionVars, AskInstaller
<1>12. CASE AskDownload
  BY <1>12 DEF diskVars, sessionVars, AskDownload
<1>13. CASE AfterDownload
  BY <1>13 DEF diskVars, sessionVars, AfterDownload
<1>14. CASE AfterInstall
  BY <1>14 DEF diskVars, sessionVars, AfterInstall
<1>15. CASE Done
  BY <1>15 DEF diskVars, sessionVars, Done
<1>16. CASE RebootPs3
  BY <1>16 DEF diskVars, sessionVars, RebootPs3, LoseMemory, HenOff, NothingToDo, NoView
<1>17. CASE DownloadThread
  BY <1>17 DEF diskVars, sessionVars, DownloadThread
<1>18. CASE DownloadEnds
  BY <1>18 DEF diskVars, sessionVars, DownloadEnds
<1>19. CASE InstallThread
  BY <1>19 DEF diskVars, sessionVars, InstallThread
<1>20. CASE InstallerShown
  BY <1>20 DEF diskVars, sessionVars, InstallerShown
<1>21. CASE InstallerEnds
  BY <1>21 DEF diskVars, sessionVars, InstallerEnds
<1>22. CASE UNCHANGED installVars
  BY <1>22 DEF installVars, diskVars, sessionVars
<1> QED
  BY <1>1, <1>2, <1>3, <1>4, <1>5, <1>6, <1>7, <1>8, <1>9, <1>10, <1>11, <1>12, <1>13,
     <1>14, <1>15, <1>16, <1>17, <1>18, <1>19, <1>20, <1>21, <1>22,
     <1>23, <1>24, <1>25
  DEF InstallNext, PluginThreadStep, VshStep

-----------------------------------------------------------------------------
(* Toggles.                                                                *)

\* What is left to copy is a rest of the order.
LEMMA Rests ==
  /\ CopyOrder # <<>> /\ <<>> \in Remaining
  /\ \A r \in Remaining : r # <<>> => Tail(r) \in Remaining /\ Head(r) \in Toggle
<1>1. Tail(CopyOrder) = <<"hen_old">> /\ Head(CopyOrder) = "hotkeys"
  BY DEF CopyOrder
<1>2. Tail(<<"hen_old">>) = <<>> /\ Head(<<"hen_old">>) = "hen_old"
  OBVIOUS
<1> QED BY <1>1, <1>2 DEF Remaining, Toggle, CopyOrder

\* A step that neither touches the files nor copies.
LEMMA DiskKept ==
  ASSUME Disk, UNCHANGED <<flags, overtaken>>, todo'.copy \in Remaining, hpc' # "copy"
  PROVE  Disk'
BY DEF Disk, Agree

\* Every step keeps the files.
LEMMA DiskStep == Memory /\ Disk /\ [InstallNext]_installVars => Disk'
<1> SUFFICES ASSUME Memory, Disk, [InstallNext]_installVars PROVE Disk'
  OBVIOUS
<1>1. CASE SetToggle
  <2>1. PICK t \in Toggle, f \in {{"on"}, {"off"}} :
          /\ flags' = [flags EXCEPT ![t] = f]
          /\ overtaken' = IF hpc = "copy" /\ Head(todo.copy) = t THEN overtaken \cup {t}
                          ELSE overtaken \ {t}
    BY <1>1 DEF SetToggle
  <2>2. UNCHANGED <<hpc, todo>>
    BY <1>1 DEF SetToggle, sessionVars
  <2>3. ASSUME NEW u \in Toggle, u \notin overtaken' PROVE Agree(u)'
    <3>1. CASE u = t
      <4>1. ~(hpc = "copy" /\ Head(todo.copy) = t)
        BY <2>1, <2>3, <3>1
      <4> QED BY <2>1, <2>2, <3>1, <4>1 DEF Disk, Agree
    <3>2. CASE u # t
      <4>1. u \notin overtaken /\ flags'[u] = flags[u]
        BY <2>1, <2>3, <3>2 DEF Disk
      <4> QED BY <2>2, <4>1 DEF Disk, Agree
    <3> QED BY <3>1, <3>2
  <2> QED BY <2>1, <2>2, <2>3 DEF Disk
<1>2. CASE LookForOpposite
  <2> DEFINE t == Head(todo.copy)
  <2>1. /\ todo.copy # <<>> /\ UNCHANGED <<flags, overtaken>>
        /\ \/ todo' = [todo EXCEPT !.copy = Tail(@)] /\ hpc' = "look"
           \/ Opposite(t) \notin flags[t] /\ hpc' = "copy" /\ todo' = todo
    BY <1>2 DEF LookForOpposite, diskVars
  <2>2. CASE hpc' = "look"
    BY <2>1, <2>2, Rests, DiskKept DEF Disk, Memory
  <2>3. CASE hpc' = "copy"
    BY <2>1, <2>3 DEF Disk, Agree
  <2> QED BY <2>1, <2>2, <2>3
<1>3. CASE CopyDefaultFile
  <2> DEFINE t == Head(todo.copy)
  <2>1. /\ hpc = "copy" /\ hpc' = "look" /\ overtaken' = overtaken
        /\ flags' = flags \/ flags' = [flags EXCEPT ![t] = @ \cup {DefaultOf[t]}]
        /\ todo' = [todo EXCEPT !.copy = Tail(@)]
    BY <1>3 DEF CopyDefaultFile
  <2>2. todo'.copy \in Remaining /\ t \in Toggle
    BY <2>1, Rests DEF Disk, Memory
  <2>3. CASE flags' = flags
    BY <2>1, <2>2, <2>3, DiskKept
  <2>4. CASE flags' = [flags EXCEPT ![t] = @ \cup {DefaultOf[t]}]
    <3>1. DefaultOf[t] \in {"on", "off"}
      BY <2>2 DEF Toggle, DefaultOf
    <3>2. ASSUME t \notin overtaken PROVE flags'[t] \in {{}, {"on"}, {"off"}}
      <4>1. flags[t] \in {{}, {"on"}, {"off"}} /\ Opposite(t) \notin flags[t]
        BY <2>1, <2>2, <3>2 DEF Disk, Agree
      <4>2. flags'[t] = flags[t] \cup {DefaultOf[t]}
        BY <2>2, <2>4 DEF Disk
      <4> QED BY <3>1, <4>1, <4>2 DEF Opposite
    <3>3. ASSUME NEW u \in Toggle, u \notin overtaken PROVE Agree(u)'
      BY <2>1, <2>4, <3>2, <3>3 DEF Disk, Agree
    <3> QED BY <2>1, <2>2, <2>4, <3>3 DEF Disk
  <2> QED BY <2>1, <2>3, <2>4
<1>4. CASE ~SetToggle /\ ~LookForOpposite /\ ~CopyDefaultFile
  <2>1. UNCHANGED <<flags, overtaken>>
    BY <1>4 DEF InstallNext, PluginThreadStep, VshStep, Publish, PlugUsb, CloseBrowser, PowerOff,
                LoseMemory, RebootPs3, RunExploit, WritePlugin, BootPayload, CheckUpdate, CheckUsb,
                DefaultsCopied, AskInstaller, AskDownload, AfterDownload, AfterInstall, Done,
                DownloadThread, DownloadEnds, InstallThread, InstallerShown, InstallerEnds,
                installVars, diskVars, sessionVars
  <2>2. \/ UNCHANGED <<todo, hpc>>
        \/ todo'.copy = todo.copy /\ hpc' # "copy"
        \/ todo'.copy \in {<<>>, CopyOrder} /\ hpc' # "copy"
    <3>1. CASE CheckUsb
      BY <3>1 DEF CheckUsb, Memory
    <3>2. CASE PowerOff \/ RebootPs3
      <4>1. todo' = NothingToDo /\ hpc' = "idle"
        BY <3>2 DEF PowerOff, RebootPs3, LoseMemory
      <4>2. NothingToDo.copy = <<>>
        BY DEF NothingToDo
      <4> QED BY <4>1, <4>2
    <3>3. CASE CheckUpdate \/ AfterInstall
      BY <3>3 DEF CheckUpdate, AfterInstall, Memory
    <3>4. CASE BootPayload \/ DefaultsCopied \/ AskInstaller \/ AskDownload \/ AfterDownload \/ Done
      BY <3>4 DEF BootPayload, DefaultsCopied, AskInstaller, AskDownload, AfterDownload, Done
    <3>5. CASE Publish \/ PlugUsb \/ CloseBrowser \/ RunExploit \/ WritePlugin \/ DownloadThread
                \/ DownloadEnds \/ InstallThread \/ InstallerShown \/ InstallerEnds
                \/ UNCHANGED installVars
      BY <3>5 DEF Publish, PlugUsb, CloseBrowser, RunExploit, WritePlugin, DownloadThread,
                  DownloadEnds, InstallThread, InstallerShown, InstallerEnds, installVars, sessionVars
    <3> QED BY <1>4, <3>1, <3>2, <3>3, <3>4, <3>5 DEF InstallNext, PluginThreadStep, VshStep
  <2>3. CASE UNCHANGED <<todo, hpc>>
    BY <2>1, <2>3 DEF Disk, Agree
  <2>4. CASE todo'.copy \in Remaining /\ hpc' # "copy"
    BY <2>1, <2>4, DiskKept
  <2> QED BY <2>2, <2>3, <2>4, Rests DEF Disk, Remaining
<1> QED BY <1>1, <1>2, <1>3, <1>4

\* The first state: nothing is known or under way.
LEMMA InitInstall == InstallInit => Memory /\ Disk
<1> SUFFICES ASSUME InstallInit PROVE Memory /\ Disk
  OBVIOUS
<1>1. /\ hen = HenOff /\ todo = NothingToDo /\ view = NoView
      /\ stage = "none" /\ hpc = "idle" /\ path = "" /\ callback = "none" /\ thread = {}
      /\ flags = [t \in Toggle |-> {}]
  BY DEF InstallInit
<1>2. DOMAIN hen = {"on", "version", "installing", "only_r2", "maps", "plugin", "user"}
  BY <1>1 DEF HenOff
<1>3. DOMAIN todo = {"install", "update", "emergency", "reboot", "copy"} /\ todo.copy = <<>>
  BY <1>1 DEF NothingToDo
<1>4. DOMAIN view = {"browser", "download", "installer"} /\ view.installer = "none"
  BY <1>1 DEF NoView
<1>5. Memory
  BY <1>1, <1>2, <1>3, <1>4 DEF Memory, Stage, Place
<1>6. Disk
  BY <1>1, <1>3 DEF Disk, Agree, Remaining
<1> QED BY <1>5, <1>6

\* The files of a toggle never say on and off at once, but for one that is set between
\* filecopy's look and its copy (henplugin/main.c 880, 884, 919).
THEOREM TogglesNeverDisagree == InstallSpec => []TogglesAgree
<1>1. Disk => TogglesAgree
  <2>1. /\ Cardinality({}) = 0
        /\ Cardinality({"on"}) = 1 /\ Cardinality({"off"}) = 1
    BY FS_EmptySet, FS_Singleton, Zenon
  <2>2. ASSUME Disk, NEW t \in Toggle \ overtaken PROVE Cardinality(flags[t]) \in {0, 1}
    <3>1. flags[t] \in {{}, {"on"}, {"off"}}
      BY <2>2 DEF Disk, Agree
    <3> QED BY <2>1, <3>1, Zenon
  <2>3. ASSUME Disk, NEW t \in Toggle \ overtaken PROVE Cardinality(flags[t]) <= 1
    BY <2>2, <2>3
  <2> QED BY <2>3 DEF TogglesAgree
<1>2. Memory /\ Disk /\ [InstallNext]_installVars => (Memory /\ Disk)'
  BY MemoryStep, DiskStep
<1> QED BY <1>1, <1>2, InitInstall, PTL DEF InstallSpec

-----------------------------------------------------------------------------
(* The installer.  What the thread of henplugin waits for at each of its   *)
(* places, and which of the threads of VSH it has started there.           *)

\* Once the thread went on before the view was there, the installer is on its own.
Order ==
  /\ stage # "none" => ~hen.on
  /\ ~hen.on => hpc = "idle"
  /\ missed => hpc \in {"done", "exit", "reboot"}
  /\ hpc \in {"idle", "start", "usb", "look", "copy"} =>
       callback = "none" /\ thread = {} /\ view.installer = "none" /\ ~todo.reboot
  /\ hpc \in {"idle", "start", "usb", "look", "copy"} => path = "" /\ ~todo.emergency
  /\ hpc = "browser" =>
       /\ callback = "none" /\ thread = {} /\ view.installer = "none" /\ ~todo.reboot
       /\ path = IF todo.emergency THEN "usb" ELSE ""
  /\ hpc = "download" =>
       /\ ~todo.emergency /\ ~todo.reboot /\ view.installer = "none"
       /\ \/ callback = "download" /\ thread = {} /\ path = ""
          \/ callback = "none" /\ thread = {2} /\ path = "disk"
  /\ hpc = "install" =>
       /\ ~todo.emergency /\ ~todo.reboot /\ path = "disk" /\ package # NoPackage
       /\ \/ callback = "install" /\ thread = {2} /\ view.installer = "none"
          \/ callback = "none"
  /\ hpc \in {"done", "exit", "reboot"} =>
       IF todo.emergency THEN path = "usb" /\ callback # "download" /\ ~todo.reboot
       ELSE callback = "none" /\ (missed \/ view.installer = "none")
  /\ hpc = "reboot" => todo.reboot
  /\ published \in Version

\* Every step keeps the order of the stages.
LEMMA OrderStep ==
  Memory /\ Order /\ [InstallNext]_installVars => Order'
<1> SUFFICES ASSUME Memory, Order, [InstallNext]_installVars PROVE Order'
  OBVIOUS
<1> USE InstallAssumption DEF Memory, Stage, Place, Order, NoPackage, None
<1>1. CASE Publish
  BY <1>1 DEF diskVars, sessionVars, Publish
<1>2. CASE PlugUsb
  BY <1>2 DEF diskVars, sessionVars, PlugUsb
<1>3. CASE SetToggle
  BY <1>3 DEF diskVars, sessionVars, SetToggle
<1>4. CASE CloseBrowser
  BY <1>4 DEF diskVars, sessionVars, CloseBrowser
<1>5. CASE PowerOff
  BY <1>5 DEF diskVars, sessionVars, PowerOff, LoseMemory, HenOff, NothingToDo, NoView
<1>6. CASE RunExploit
  BY <1>6 DEF diskVars, sessionVars, RunExploit
<1>7. CASE WritePlugin
  BY <1>7 DEF diskVars, sessionVars, WritePlugin
<1>8. CASE BootPayload
  BY <1>8 DEF diskVars, sessionVars, BootPayload
<1>9. CASE CheckUpdate
  BY <1>9 DEF diskVars, sessionVars, CheckUpdate
<1>10. CASE CheckUsb
  BY <1>10 DEF diskVars, sessionVars, CheckUsb
<1>23. CASE LookForOpposite
  BY <1>23 DEF diskVars, sessionVars, LookForOpposite
<1>24. CASE CopyDefaultFile
  BY <1>24 DEF diskVars, sessionVars, CopyDefaultFile
<1>25. CASE DefaultsCopied
  BY <1>25 DEF diskVars, sessionVars, DefaultsCopied
<1>11. CASE AskInstaller
  BY <1>11 DEF diskVars, sessionVars, AskInstaller
<1>12. CASE AskDownload
  BY <1>12 DEF diskVars, sessionVars, AskDownload
<1>13. CASE AfterDownload
  BY <1>13 DEF diskVars, sessionVars, AfterDownload
<1>14. CASE AfterInstall
  <2>1. /\ hpc = "install" /\ hpc' = "done" /\ todo' = [todo EXCEPT !.reboot = TRUE]
        /\ view.installer # "busy" /\ missed' = (view.installer = "asked")
        /\ 3 \in thread /\ UNCHANGED <<package, published, hen, stage, path, callback, thread, view>>
    BY <1>14 DEF AfterInstall, diskVars
  <2>2. callback = "none"
    BY <2>1
  <2>3. missed' \/ view.installer = "none"
    <3>1. view.installer = "none" \/ view.installer = "asked"
      BY <2>1
    <3>2. CASE view.installer = "asked"
      BY <2>1, <3>2, Zenon
    <3> QED BY <3>1, <3>2
  <2> HIDE DEF NoPackage
  <2> QED BY <2>1, <2>2, <2>3
<1>15. CASE Done
  BY <1>15 DEF diskVars, sessionVars, Done
<1>16. CASE RebootPs3
  BY <1>16 DEF diskVars, sessionVars, RebootPs3, LoseMemory, HenOff, NothingToDo, NoView
<1>17. CASE DownloadThread
  BY <1>17 DEF diskVars, sessionVars, DownloadThread
<1>18. CASE DownloadEnds
  <2>1. package' # NoPackage \/ UNCHANGED package
    <3>1. CASE package' = [version |-> published, new |-> TRUE]
      <4>1. published # 0
        OBVIOUS
      <4>2. [version |-> published, new |-> TRUE].version = published
        OBVIOUS
      <4>3. NoPackage.version = 0
        OBVIOUS
      <4> QED BY <3>1, <4>1, <4>2, <4>3, Zenon
    <3> QED BY <1>18, <3>1 DEF DownloadEnds
  <2>2. /\ view' = [view EXCEPT !.download = FALSE]
        /\ UNCHANGED <<published, hen, stage, hpc, todo, path, callback, thread, missed>>
    BY <1>18 DEF DownloadEnds
  <2> HIDE DEF NoPackage
  <2> QED BY <2>1, <2>2
<1>19. CASE InstallThread
  BY <1>19 DEF diskVars, sessionVars, InstallThread
<1>20. CASE InstallerShown
  BY <1>20 DEF diskVars, sessionVars, InstallerShown
<1>21. CASE InstallerEnds
  BY <1>21 DEF diskVars, sessionVars, InstallerEnds
<1>22. CASE UNCHANGED installVars
  BY <1>22 DEF installVars, diskVars, sessionVars
<1> QED
  BY <1>1, <1>2, <1>3, <1>4, <1>5, <1>6, <1>7, <1>8, <1>9, <1>10, <1>11, <1>12, <1>13,
     <1>14, <1>15, <1>16, <1>17, <1>18, <1>19, <1>20, <1>21, <1>22,
     <1>23, <1>24, <1>25
  DEF InstallNext, PluginThreadStep, VshStep

\* While a package is installed its file stays and henplugin does not reboot the console,
\* unless it looked for the installer before its view was there (main.c 1445).
THEOREM InstallerIsUndisturbed == InstallSpec => []InstallUndisturbed
<1>1. InstallInit => Memory /\ Order
  <2> SUFFICES ASSUME InstallInit PROVE Order
    BY InitInstall
  <2>1. /\ hpc = "idle" /\ stage = "none" /\ path = "" /\ callback = "none" /\ thread = {}
        /\ missed = FALSE /\ published = 1 /\ todo = NothingToDo /\ view = NoView
    BY DEF InstallInit
  <2>2. ~todo.emergency /\ ~todo.reboot /\ view.installer = "none"
    BY <2>1 DEF NothingToDo, NoView
  <2> QED BY <2>1, <2>2, InstallAssumption DEF Order
<1>2. Memory /\ Order => InstallUndisturbed
  BY DEF Memory, Order, Place, InstallUndisturbed
<1>3. Memory /\ Order /\ [InstallNext]_installVars => (Memory /\ Order)'
  BY MemoryStep, OrderStep
<1> QED BY <1>1, <1>2, <1>3, PTL DEF InstallSpec
=============================================================================
