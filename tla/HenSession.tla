----------------------------- MODULE HenSession -----------------------------
(* The thread of henplugin in a session that installs nothing: it reloads  *)
(* the XMB, makes directories, restores act.dat, copies the defaults of    *)
(* the toggles that are missing, and clears what the browser left behind.  *)
(* Toggles are files <toggle>.on and <toggle>.off; the user of the console *)
(* changes them, and who is logged in, while the thread runs.              *)
EXTENDS Naturals, Sequences, FiniteSets

CONSTANTS
  HenUser,       \* users under /dev_hdd0/home
  Enough,        \* files in /dev_hdd0/hen with which no default is copied (59)
  FirstChoice,   \* what the user may have chosen for the toggles before
  FirstWeb,      \* what the browser may have left of each user
  MaxSwitches,   \* bound: changes of the user
  MaxToggles     \* bound: changes of toggles

\* Toggles of this thread and files of a user, in the order they are worked on; the
\* cookies stand for the cache of authentications, which is treated as they are.
ToggleOrder == <<"hen_reload", "cookie", "history">>
HenToggle == {ToggleOrder[i] : i \in DOMAIN ToggleOrder}
DefaultChoice(t) == IF t = "hen_reload" THEN "off" ELSE "on"
Opposite(choice) == IF choice = "on" THEN "off" ELSE "on"
WebOrder == <<"history", "cookie", "community">>
WebFile == {WebOrder[i] : i \in DOMAIN WebOrder}

ASSUME HenSessionAssumption ==
  /\ HenUser # {} /\ Enough \in Nat /\ MaxSwitches \in Nat /\ MaxToggles \in Nat
  /\ FirstChoice \subseteq [HenToggle -> {"none", "on", "off"}]
  /\ FirstWeb \subseteq SUBSET (HenUser \X WebFile)

VARIABLES
  flag,          \* for each toggle, the files of it that exist
  others,        \* other files in /dev_hdd0/hen
  named,         \* users with a localusername
  web,           \* what the browser left: user and file
  act, bak,      \* whose act.dat is at each user's, and who has act.bak
  current,       \* GetCurrentUserNumber
  step,          \* where the thread is
  paths,         \* the user in each path that clear_web_cache_check has made
  message,       \* what it will say of each file
  choice,        \* history: what the user chose last, for each toggle
  touched,       \* history: toggles changed since the session began
  overtaken,     \* history: toggles changed between filecopy's look and its copy
  webAtStart,    \* history: web when the session began
  between,       \* history: the user changed between two reads of the number
  changes        \* bound: changes of users and of toggles so far

filesVars == <<flag, others, named, web, act, bak>>
toggleVars == <<choice, touched, overtaken>>
henSessionVars ==
  <<filesVars, current, step, paths, message, toggleVars, webAtStart, between, changes>>

GoStep(at, n) == step' = [at |-> at, n |-> n]
AtStep(at) == step.at = at

HenSessionInit ==
  /\ choice \in FirstChoice
  /\ flag = [t \in HenToggle |-> {choice[t]} \ {"none"}]
  /\ current \in HenUser
  /\ others \in {0, Enough} /\ named \in {HenUser, {current}}
  /\ web \in FirstWeb /\ webAtStart = web
  /\ act = [u \in HenUser |-> "none"] /\ bak = {current}
  /\ step = [at |-> "reload", n |-> 0]
  /\ paths = [f \in WebFile |-> current] /\ message = [f \in WebFile |-> "none"]
  /\ touched = {} /\ overtaken = {} /\ between = FALSE
  /\ changes = [users |-> 0, toggles |-> 0]

-----------------------------------------------------------------------------
(* The user.                                                               *)

SwitchUser ==
  /\ changes.users < MaxSwitches
  /\ current' \in HenUser \ {current}
  /\ between' = (between \/ AtStep("restore") \/ (AtStep("paths") /\ step.n > 1))
  /\ changes' = [changes EXCEPT !.users = @ + 1]
  /\ UNCHANGED <<filesVars, step, paths, message, toggleVars, webAtStart>>

ChooseToggle ==
  /\ changes.toggles < MaxToggles
  /\ \E t \in HenToggle, c \in {"on", "off"} :
       /\ flag' = [flag EXCEPT ![t] = {c}] /\ choice' = [choice EXCEPT ![t] = c]
       /\ touched' = touched \cup {t}
       /\ overtaken' = IF AtStep("copy") /\ ToggleOrder[step.n] = t THEN overtaken \cup {t}
                       ELSE overtaken \ {t}
  /\ changes' = [changes EXCEPT !.toggles = @ + 1]
  /\ UNCHANGED <<others, named, web, act, bak, current, step, paths, message, webAtStart, between>>

-----------------------------------------------------------------------------
(* The thread.                                                             *)

\* number_users counts to two.
NumberUsers == IF Cardinality(named) >= 2 THEN 2 ELSE Cardinality(named)

\* With hen_reload.on and not one user, the users are shown and one is taken.
ReloadXmb ==
  /\ AtStep("reload") /\ GoStep("usb", 0)
  /\ IF "on" \notin flag["hen_reload"] \/ NumberUsers = 1 THEN UNCHANGED current
     ELSE current' \in HenUser
  /\ UNCHANGED <<filesVars, paths, message, toggleVars, webAtStart, between, changes>>

\* A package on a USB device goes to the end of the thread.
LookForUsb ==
  /\ AtStep("usb") /\ (GoStep("paths", 1) \/ GoStep("backup", 0))
  /\ UNCHANGED <<filesVars, current, paths, message, toggleVars, webAtStart, between, changes>>

\* The number of the user is read for the path of act.bak, and again for act.dat.
ReadBackupPath ==
  /\ AtStep("backup") /\ GoStep("restore", 0)
  /\ paths' = [paths EXCEPT !["history"] = current]
  /\ UNCHANGED <<filesVars, current, message, toggleVars, webAtStart, between, changes>>

RestoreAct ==
  LET from == paths["history"] IN
  /\ AtStep("restore") /\ GoStep("count", 0)
  /\ act' \in IF from \in bak /\ act[current] = "none"
              THEN {act, [act EXCEPT ![current] = from]} ELSE {act}
  /\ UNCHANGED <<flag, others, named, web, bak, current, paths, message, toggleVars, webAtStart,
                 between, changes>>

NumberFiles == others + Cardinality({t \in HenToggle : flag[t] # {}})

\* With files missing the defaults are copied, and files that are no toggles.
CountFiles ==
  /\ AtStep("count")
  /\ IF NumberFiles < Enough THEN GoStep("look", 1) /\ others' \in {others, Enough}
     ELSE GoStep("update", 0) /\ UNCHANGED others
  /\ UNCHANGED <<flag, named, web, act, bak, current, paths, message, toggleVars, webAtStart,
                 between, changes>>

NextDefault ==
  IF step.n < Len(ToggleOrder) THEN GoStep("look", step.n + 1) ELSE GoStep("update", 0)

\* Mutant: filecopy looks for the default instead of its opposite.
LookForDefault ==
  /\ AtStep("look")
  /\ LET t == ToggleOrder[step.n] IN
     IF DefaultChoice(t) \in flag[t] THEN NextDefault ELSE GoStep("copy", step.n)
  /\ UNCHANGED <<filesVars, current, paths, message, toggleVars, webAtStart, between, changes>>

\* filecopy looks for the file of the opposite choice, and copies the default later.
LookOpposite ==
  /\ AtStep("look")
  /\ LET t == ToggleOrder[step.n] IN
     IF Opposite(DefaultChoice(t)) \in flag[t] THEN NextDefault ELSE GoStep("copy", step.n)
  /\ UNCHANGED <<filesVars, current, paths, message, toggleVars, webAtStart, between, changes>>

\* The copy fails before or after the file is made.
CopyDefault ==
  /\ AtStep("copy") /\ NextDefault
  /\ LET t == ToggleOrder[step.n] IN
     flag' \in {flag, [flag EXCEPT ![t] = @ \cup {DefaultChoice(t)}]}
  /\ UNCHANGED <<others, named, web, act, bak, current, paths, message, toggleVars, webAtStart,
                 between, changes>>

\* An update ends in a reboot, or there was nothing to install.
AfterUpdate ==
  /\ AtStep("update") /\ (GoStep("paths", 1) \/ GoStep("reboot", 0))
  /\ UNCHANGED <<filesVars, current, paths, message, toggleVars, webAtStart, between, changes>>

\* clear_web_cache_check makes all paths first, each with the number of the user.
MakePath ==
  /\ AtStep("paths")
  /\ paths' = [paths EXCEPT ![WebOrder[step.n]] = current]
  /\ IF step.n < Len(WebOrder) THEN GoStep("paths", step.n + 1) ELSE GoStep("clear", 1)
  /\ UNCHANGED <<filesVars, current, message, toggleVars, webAtStart, between, changes>>

\* What is there is removed, unless its toggle is off.  That there was nothing to
\* remove is only said of the history.
ClearFile ==
  /\ AtStep("clear")
  /\ LET f == WebOrder[step.n]
         there == <<paths[f], f>> \in web
         off == f # "community" /\ "off" \in flag[f]
     IN  /\ web' = IF off THEN web ELSE web \ {<<paths[f], f>>}
         /\ message' = [message EXCEPT ![f] =
              IF there /\ ~off THEN "clean"
              ELSE IF off \/ f # "history" THEN "disable" ELSE "no need"]
  /\ IF step.n < Len(WebOrder) THEN GoStep("clear", step.n + 1) ELSE GoStep("exit", 0)
  /\ UNCHANGED <<flag, others, named, act, bak, current, paths, toggleVars, webAtStart, between,
                 changes>>

\* The next boot begins the session anew; the browser was used meanwhile.
NextSession ==
  /\ AtStep("exit") \/ AtStep("reboot")
  /\ GoStep("reload", 0)
  /\ web' \in FirstWeb /\ webAtStart' = web'
  /\ act' = [u \in HenUser |-> "none"]
  /\ paths' = [f \in WebFile |-> current] /\ message' = [f \in WebFile |-> "none"]
  /\ touched' = {} /\ between' = FALSE
  /\ UNCHANGED <<flag, others, named, bak, current, choice, overtaken, changes>>

HenSessionNext ==
  \/ SwitchUser \/ ChooseToggle \/ ReloadXmb \/ LookForUsb \/ ReadBackupPath \/ RestoreAct
  \/ CountFiles \/ LookOpposite \/ CopyDefault \/ AfterUpdate \/ MakePath
  \/ ClearFile \/ NextSession

HenSessionSpec == HenSessionInit /\ [][HenSessionNext]_henSessionVars

-----------------------------------------------------------------------------
\* The defaults never undo a choice: what the user chose is what the files say, for
\* every toggle but one changed between filecopy's look and its copy.
ChoicesStand ==
  \A t \in HenToggle \ overtaken : choice[t] # "none" => flag[t] = {choice[t]}

\* When the thread is through, what the browser left of the current user is gone but
\* for what the user switched off, which is all there still; and nothing of another
\* user is touched, unless the user changed while the paths were made.
ClearedAsChosen ==
  AtStep("exit") =>
    /\ \A f \in WebFile \ (touched \cup overtaken) :
         IF f # "community" /\ choice[f] = "off"
         THEN \A u \in HenUser : <<u, f>> \in webAtStart => <<u, f>> \in web
         ELSE <<paths[f], f>> \notin web
    /\ ~between =>
         \A u \in HenUser \ {paths["history"]}, f \in WebFile :
           <<u, f>> \in webAtStart => <<u, f>> \in web

\* act.dat comes from the act.bak of the same user, unless the user changed between.
RestoredOwn == ~between => \A u \in HenUser : act[u] \in {"none", u}

SessionAgrees == ChoicesStand /\ ClearedAsChosen /\ RestoredOwn

\* By hand: a toggle has one file.  Not so: one set between look and copy has two.
OneFile == \A t \in HenToggle : Cardinality(flag[t]) <= 1
\* By hand: "disable" is only said of what is switched off.  Not so of the cookies
\* of a user who has none.
SaidWhy == AtStep("exit") => \A f \in WebFile \ (touched \cup overtaken \cup {"community"}) :
             message[f] = "disable" => choice[f] = "off"
\* By hand: act.dat is the user's own.  Not so when the user changes meanwhile.
AlwaysOwn == \A u \in HenUser : act[u] \in {"none", u}
=============================================================================
