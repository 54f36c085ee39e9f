------------------------------- MODULE Reload -------------------------------
(***************************************************************************)
(* ConfigReloader of reload/reload.go, which polls the modification time   *)
(* of the configuration file and reloads at SIGHUP, and JSONConfig of      *)
(* config/hotreload.go, which saves through a temporary file.  The content *)
(* of a file is the number of the write that made it; 0 is a file that is  *)
(* only partly written.                                                    *)
(***************************************************************************)
EXTENDS Integers

CONSTANT MaxWrites  \* bound on the writes of the file

ASSUME ReloadAssumption == MaxWrites \in Nat

VARIABLES
    file,       \* number of the last write
    valid,      \* config.Load accepts it
    modTime,    \* modification time of the file; quick writes may share one
    lastMod,    \* lastModTime of watchLoop, 0 for none
    polling,    \* watchLoop is between os.Stat and Reload
    config,     \* r.current
    refused,    \* history: the reload for the present modification time failed
    done,       \* r.done is closed
    loops       \* goroutines that have not returned: "watch" and "signal"

reloadVars == <<file, valid, modTime, lastMod, polling, config, refused, done, loops>>

\* NewConfigReloader has loaded the file and Start has started the two loops.
ReloadInit ==
    /\ file = 1 /\ valid = TRUE /\ modTime = 1 /\ lastMod = 0 /\ polling = FALSE
    /\ config = 1 /\ refused = FALSE /\ done = FALSE /\ loops = {"watch", "signal"}

\* Somebody writes the file.
WriteFile ==
    /\ file < MaxWrites /\ file' = file + 1
    /\ valid' \in BOOLEAN /\ modTime' \in {modTime, modTime + 1}
    /\ refused' = (refused /\ modTime' = modTime)
    /\ UNCHANGED <<lastMod, polling, config, done, loops>>

\* Fault: the time is only remembered at the first tick.
PollStatOnce ==
    /\ "watch" \in loops /\ ~polling
    /\ IF lastMod = 0 THEN lastMod' = modTime /\ UNCHANGED polling
                      ELSE polling' = (modTime = lastMod) /\ UNCHANGED lastMod
    /\ UNCHANGED <<file, valid, modTime, config, refused, done, loops>>

\* watchLoop, a tick: the first one only remembers the time.
PollStat ==
    /\ "watch" \in loops /\ ~polling
    /\ \/ lastMod = 0 /\ lastMod' = modTime /\ UNCHANGED polling
       \/ lastMod > 0 /\ modTime > lastMod /\ lastMod' = modTime /\ polling' = TRUE
    /\ UNCHANGED <<file, valid, modTime, config, refused, done, loops>>

\* Reload under r.mu: it loads the file as it is now and calls onReload, which may
\* refuse; r.current changes only when both succeed.
ReloadNow(ok) == config' = IF valid /\ ok THEN file ELSE config

\* watchLoop reloads; an error is printed and the time stays remembered.
PollReload ==
    /\ polling /\ polling' = FALSE
    /\ \E ok \in BOOLEAN : /\ ReloadNow(ok)
                           /\ refused' = (refused \/ (modTime = lastMod /\ ~(valid /\ ok)))
    /\ UNCHANGED <<file, valid, modTime, lastMod, done, loops>>

\* signalHandler.
SignalReload ==
    /\ "signal" \in loops /\ \E ok \in BOOLEAN : ReloadNow(ok)
    /\ UNCHANGED <<file, valid, modTime, lastMod, polling, refused, done, loops>>

\* Stop; a second call would panic.
StopReloader ==
    /\ ~done /\ done' = TRUE
    /\ UNCHANGED <<file, valid, modTime, lastMod, polling, config, refused, loops>>

\* A loop receives from r.done; its select may have chosen a tick or a signal first.
LoopEnds(l) ==
    /\ done /\ l \in loops /\ (l = "watch" => ~polling) /\ loops' = loops \ {l}
    /\ UNCHANGED <<file, valid, modTime, lastMod, polling, config, refused, done>>

ReloadNext ==
    \/ WriteFile \/ PollStat \/ PollReload \/ SignalReload \/ StopReloader
    \/ \E l \in loops : LoopEnds(l)

\* r.current never goes back to an older file.
NeverOlder == [][config' >= config]_reloadVars

\* A file that gets a new time after the first tick is loaded as it is then, unless
\* that reload fails (it is not tried again) or the reloader is stopped; and no file
\* is followed by an older one.
ChangesLoaded ==
    /\ (lastMod > 0 /\ modTime > lastMod) ~> (config = file \/ done \/ refused)
    /\ NeverOlder

-----------------------------------------------------------------------------
(* JSONConfig.Save.                                                        *)

CONSTANT Savers     \* goroutines that call Save

VARIABLES
    saving,     \* goroutine -> "no", "begun" (the temporary file is truncated), "written"
    tmpFile,    \* content of the temporary file, -1 for none
    jsonFile,   \* content of the file
    setting,    \* jc.data, counted up by Set
    overlap     \* history: two Saves overlapped (Save only takes the read lock)

saveVars == <<saving, tmpFile, jsonFile, setting, overlap>>

SaveInit ==
    /\ saving = [g \in Savers |-> "no"] /\ tmpFile = -1 /\ jsonFile = 1 /\ setting = 1
    /\ overlap = FALSE

\* Set needs the write lock: not while somebody saves.
SetKey ==
    /\ setting < MaxWrites /\ (\A g \in Savers : saving[g] = "no") /\ setting' = setting + 1
    /\ UNCHANGED <<saving, tmpFile, jsonFile, overlap>>

\* os.WriteFile begins.
SaveBegin(g) ==
    /\ saving[g] = "no" /\ saving' = [saving EXCEPT ![g] = "begun"] /\ tmpFile' = 0
    /\ overlap' = (overlap \/ \E h \in Savers : saving[h] # "no")
    /\ UNCHANGED <<jsonFile, setting>>

\* os.WriteFile ends, or fails and Save returns.
SaveWritten(g) ==
    /\ saving[g] = "begun"
    /\ \/ saving' = [saving EXCEPT ![g] = "written"] /\ tmpFile' = setting
       \/ saving' = [saving EXCEPT ![g] = "no"] /\ UNCHANGED tmpFile
    /\ UNCHANGED <<jsonFile, setting, overlap>>

\* Fault: a failed write is renamed too.
SaveRenameAny(g) ==
    /\ saving[g] # "no" /\ saving' = [saving EXCEPT ![g] = "no"]
    /\ IF tmpFile = -1 THEN UNCHANGED <<tmpFile, jsonFile>>
                       ELSE jsonFile' = tmpFile /\ tmpFile' = -1
    /\ UNCHANGED <<setting, overlap>>

\* os.Rename; it fails when the temporary file is gone.
SaveRename(g) ==
    /\ saving[g] = "written" /\ saving' = [saving EXCEPT ![g] = "no"]
    /\ IF tmpFile = -1 THEN UNCHANGED <<tmpFile, jsonFile>>
                       ELSE jsonFile' = tmpFile /\ tmpFile' = -1
    /\ UNCHANGED <<setting, overlap>>

\* The process dies; the temporary file stays, the data is read from the file again.
Crash ==
    /\ jsonFile > 0 /\ \E g \in Savers : saving[g] # "no"
    /\ saving' = [g \in Savers |-> "no"] /\ setting' = jsonFile
    /\ UNCHANGED <<tmpFile, jsonFile, overlap>>

\* JSONConfig.Reload.
ReloadJSON ==
    /\ jsonFile > 0 /\ (\A g \in Savers : saving[g] = "no") /\ setting' = jsonFile
    /\ UNCHANGED <<saving, tmpFile, jsonFile, overlap>>

SaveNext ==
    \/ SetKey \/ Crash \/ ReloadJSON
    \/ \E g \in Savers : SaveBegin(g) \/ SaveWritten(g) \/ SaveRename(g)

\* Whenever the process dies the file holds a complete configuration, an old one or
\* the new one, as long as no two Saves overlapped.
FileWhole == ~overlap => jsonFile > 0
=============================================================================
