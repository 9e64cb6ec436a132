----------------------------- MODULE SettingsStore -----------------------------
(***************************************************************************)
(* settings.toml across runs of the program: the load at the start, the    *)
(* import of the original client's files, the save in two steps, what      *)
(* happens to a file that cannot be read, and the notice of a crash.       *)
(*                                                                         *)
(* Settings are a function from a field to its value.                      *)
(***************************************************************************)
EXTENDS Naturals, FiniteSetsExt, SequencesExt

CONSTANTS Legacy,        \* what the original client left: [ntripconfig, settings], texts or <<>>
          HandEdits,     \* changes a user makes with an editor: field -> value
          MaxEdits, MaxRuns, MaxBroken

\* A line of the original's files is a key and a value.
ASSUME LegacyAssumption ==
  LET File == Seq([key : STRING, value : STRING])
  IN Legacy \in [ntripconfig : File, settings : File]
\* A list of profiles is one after an edit, if an empty one.
ASSUME EditsAssumption ==
  \A e \in HandEdits : "profiles" \in DOMAIN e => e["profiles"] \in Seq(ToSet(e["profiles"]))
ASSUME RunsAssumption == {MaxEdits, MaxRuns, MaxBroken} \subseteq Nat

VARIABLES
  file,        \* settings.toml: <<>>, or its content
  bad,         \* settings.toml.bad
  marker,      \* the crash marker exists
  app,         \* <<>>, or the run: its settings and last_saved
  saving,      \* <<>>, or a save between its write and its rename
  runs, edits,
  intended,    \* ghost: settings.toml by the last whole save or editor
  broken,      \* ghost: unreadable texts the user left, counted
  owed, told,  \* ghost: of these, the ones not repaired; the ones said to be lost
  reported     \* ghost: the last run ended in a crash that left its marker

ssVars == <<file, bad, marker, app, saving, runs, edits, intended, broken, owed, told, reported>>

\* A text is one the program reads, or the n-th it cannot; 0 is a torn one.
Text(s)     == <<[readable |-> TRUE, s |-> s, n |-> 0]>>
Unread(n)   == <<[readable |-> FALSE, s |-> <<>>, n |-> n]>>
-------------------------------------------------------------------------------
(* Settings *)

Defaults ==
  [profiles |-> <<"Default">>, active |-> "Default", host |-> "", port |-> "2101", username |-> "",
   password |-> "", mountpoint |-> "", version |-> "1", protocol |-> "ntrip", gga_source |-> "receiver",
   manual_lat |-> "0", manual_lon |-> "0", serial_port |-> "", baud |-> "115200", data_bits |-> "8",
   stop_bits |-> "1", autoconfig |-> FALSE, format |-> "rtcmv3", rate |-> "5", center |-> "elevation",
   right |-> "age", audio |-> "", event_log |-> TRUE, nmea_log |-> TRUE, updates |-> "weekly",
   last_check |-> "", serial_up |-> FALSE, ntrip_up |-> FALSE, tab |-> "Events"]

\* Fields the program keeps for itself, no user's edit.
Bookkeeping == {"last_check", "serial_up", "ntrip_up", "tab"}
persistable_eq(s, t) == \A f \in DOMAIN s \ Bookkeeping : s[f] = t[f]

\* fault: the active profile is taken as the file names it
ActiveOf_AsWritten(s, profiles) == s.active
ActiveOf(s, profiles) == IF s.active \in ToSet(profiles) THEN s.active ELSE profiles[1]
Normalize(s) ==
  LET profiles == IF s.profiles = <<>> THEN <<"Default">> ELSE s.profiles
      of(v, legal, else) == IF v \in legal THEN v ELSE else
  IN [s EXCEPT !.profiles = profiles, !.active = ActiveOf(s, profiles),
               !.version = of(@, {"1", "2"}, "1"), !.data_bits = of(@, {"7", "8"}, "8"),
               !.stop_bits = of(@, {"1", "2"}, "1"), !.rate = of(@, {"1", "5", "10"}, "5")]
-------------------------------------------------------------------------------
(* The original client's files.  A line is [key, value]; one without a key of  *)
(* two letters before its first "=", a comment, or a short one has key "".     *)

IsNumber(v) == v \in {"0", "1", "2", "5", "7", "8", "9", "10", "9600"}
Bool(v)     == v \in {"yes", "true", "1"}
Given(field, v) == <<field, v>>
Wrong == <<>>
When(test, field, v) == IF test THEN Given(field, v) ELSE Wrong

SettingsKeys ==
  {"serial port number", "serial port speed", "serial port data bits", "serial port stop bits",
   "display center", "display right", "audio alert file", "write events to file",
   "write nmea to file", "protocol", "ntrip use manual gga", "ntrip manual latitude",
   "ntrip manual longitude", "receiver type", "receiver correction format",
   "receiver message rate", "check for updates", "check for updates interval",
   "last checked for updates", "serial should be connected", "ntrip should be connected"}
\* What a line of Settings.txt sets; Wrong when its value is not legal.
Setting(k, v) ==
  CASE k = "serial port number"    -> When(IsNumber(v), "serial_port", "COM" \o v)
    [] k = "serial port speed"     -> When(IsNumber(v), "baud", v)
    [] k = "serial port data bits" -> When(v \in {"7", "8"}, "data_bits", v)
    [] k = "serial port stop bits" -> When(v \in {"0", "1", "2"}, "stop_bits", IF v = "0" THEN "1" ELSE v)
    [] k = "display center"        -> When(v = "speed", "center", v)
    [] k = "display right"         -> When(v = "speed", "right", v)
    [] k = "audio alert file"      -> Given("audio", v)
    [] k = "write events to file"  -> Given("event_log", Bool(v))
    [] k = "write nmea to file"    -> Given("nmea_log", Bool(v))
    [] k = "protocol"              -> Given("protocol", IF v = "rawtcpip" THEN "tcp" ELSE "ntrip")
    [] k = "ntrip use manual gga"  -> Given("gga_source", IF Bool(v) THEN "manual" ELSE "receiver")
    [] k = "ntrip manual latitude"  -> When(IsNumber(v), "manual_lat", v)
    [] k = "ntrip manual longitude" -> When(IsNumber(v), "manual_lon", v)
    [] k = "receiver type"         -> Given("autoconfig", v = "novatel")
    [] k = "receiver correction format" -> When(v = "rtcm", "format", v)
    [] k = "receiver message rate" -> When(v \in {"1", "5", "10"}, "rate", v)
    [] k = "check for updates"     -> Given("updates", IF Bool(v) THEN "startup" ELSE "off")
    [] k = "check for updates interval" -> Given("updates", IF v = "weekly" THEN "weekly" ELSE "off")
    [] k = "last checked for updates"   -> Given("last_check", v)
    [] k = "serial should be connected" -> Given("serial_up", Bool(v))
    [] k = "ntrip should be connected"  -> Given("ntrip_up", Bool(v))
ConfigKeys == [k \in {"ntrip caster", "ntrip caster port", "ntrip username", "ntrip password", "ntrip mountpoint"} |->
                CASE k = "ntrip caster"     -> "host"     [] k = "ntrip caster port" -> "port"
                  [] k = "ntrip username"   -> "username" [] k = "ntrip password"    -> "password"
                  [] k = "ntrip mountpoint" -> "mountpoint"]

\* fault: the password is logged as any other value
LoggedValue_Any(l) == l.value
LoggedValue(l) == IF l.key = "ntrip password" THEN "****" ELSE l.value
\* One line's effect on [s, log].
import_ntripconfig_key(l, acc) ==
  IF l.key \notin DOMAIN ConfigKeys THEN [acc EXCEPT !.log = Append(@, <<"unknown", l>>)]
  ELSE IF l.key = "ntrip caster port" /\ ~IsNumber(l.value) THEN [acc EXCEPT !.log = Append(@, <<"invalid", l>>)]
  ELSE [s |-> [acc.s EXCEPT ![ConfigKeys[l.key]] = l.value],
        log |-> Append(acc.log, <<"imported", [l EXCEPT !.value = LoggedValue(l)]>>)]
import_settings_key(l, acc) ==
  LET set == Setting(l.key, l.value)
  IN IF l.key = "ntrip only send gga once" THEN [acc EXCEPT !.log = Append(@, <<"automatic", l>>)]
     ELSE IF l.key \notin SettingsKeys THEN [acc EXCEPT !.log = Append(@, <<"unknown", l>>)]
     ELSE IF set = Wrong THEN [acc EXCEPT !.log = Append(@, <<"invalid", l>>)]
     ELSE [s |-> [acc.s EXCEPT ![set[1]] = set[2]],
           log |-> IF l.key = "last checked for updates" THEN acc.log
                   ELSE Append(acc.log, <<"imported", l>>)]
\* legacy_pairs: the lines that have a key, ntripconfig.txt's first.
Lines == Legacy.ntripconfig \o Legacy.settings
IsPair(l) == l.key # ""
ImportLine(n, acc) ==
  IF ~IsPair(Lines[n]) THEN acc
  ELSE IF n <= Len(Legacy.ntripconfig) THEN import_ntripconfig_key(Lines[n], acc)
  ELSE import_settings_key(Lines[n], acc)
ImportLegacy ==
  LET f[n \in 0 .. Len(Lines)] ==
        IF n = 0 THEN [s |-> [Defaults EXCEPT !.profiles = <<"Imported">>, !.active = "Imported"],
                       log |-> <<>>]
        ELSE ImportLine(n, f[n - 1])
  IN [f[Len(Lines)] EXCEPT !.s = Normalize(@)]
HasLegacy == Legacy.ntripconfig # <<>> \/ Legacy.settings # <<>>
-------------------------------------------------------------------------------
(* A run of the program *)

SettingsInit ==
  /\ file = <<>> /\ bad = <<>> /\ marker = FALSE /\ app = <<>> /\ saving = <<>>
  /\ runs = 0 /\ edits = 0
  /\ intended = <<>> /\ broken = 0 /\ owed = {} /\ told = {} /\ reported = FALSE

\* App::new: what was loaded is taken as saved; a crash is announced.
Start(s, log) ==
  app' = <<[s |-> s, last_saved |-> s, log |-> log, notice |-> marker, saves |-> 0]>>

LoadFile ==
  /\ file # <<>> /\ file[1].readable
  /\ Start(Normalize(file[1].s), <<>>)
  /\ UNCHANGED <<file, bad, intended, told>>
\* fault: the copy is made of the file the defaults are already in
Preserved_Late(copied) == IF copied THEN Text(Defaults) ELSE bad
Preserved(copied) == IF copied THEN file ELSE bad
LoadUnreadable == \E copied \in BOOLEAN :
  /\ file # <<>> /\ ~file[1].readable
  /\ bad' = Preserved(copied)
  /\ told' = IF copied THEN told ELSE told \cup {file[1].n}
  /\ Start(Defaults, <<"unreadable", copied>>)
  /\ UNCHANGED <<file, intended>>
LoadNothing ==
  /\ file = <<>> /\ ~HasLegacy
  /\ Start(Defaults, <<>>)
  /\ UNCHANGED <<file, bad, intended, told>>
\* save's two steps are one here: without a file there is none to tear.
Import == \E saved \in BOOLEAN :
  /\ file = <<>> /\ HasLegacy
  /\ file' = (IF saved THEN Text(ImportLegacy.s) ELSE file) /\ intended' = file'
  /\ Start(ImportLegacy.s, ImportLegacy.log)
  /\ UNCHANGED <<bad, told>>
\* main, then App::new.  A marker that cannot be removed stays.
Boot == \E removed \in BOOLEAN :
  /\ app = <<>> /\ runs < MaxRuns /\ runs' = runs + 1
  /\ LoadFile \/ LoadUnreadable \/ LoadNothing \/ Import
  /\ marker' = (marker /\ ~removed) /\ (~removed => marker)
  /\ UNCHANGED <<saving, edits, broken, owed, reported>>

AtRest == app # <<>> /\ saving = <<>>
Values == <<"a", "b", "c", "d">>
Edit == \E f \in {"host", "tab"} :
  /\ AtRest /\ edits < MaxEdits /\ edits' = edits + 1
  /\ app' = <<[app[1] EXCEPT !.s[f] = Values[edits + 1]]>>
  /\ UNCHANGED <<file, bad, marker, saving, runs, intended, broken, owed, told, reported>>

\* fault: the text goes over settings.toml itself
WhileWriting_InPlace == Unread(0)
WhileWriting == file
\* save's write, for save_settings or on_exit; it may fail.
SaveWrite == \E exits, written \in BOOLEAN :
  /\ AtRest
  /\ exits \/ ~persistable_eq(app[1].s, app[1].last_saved)
  /\ saving' = (IF written THEN <<exits>> ELSE <<>>)
  /\ file' = (IF written THEN WhileWriting ELSE file)
  /\ app' = (IF exits /\ ~written THEN <<>> ELSE app)
  /\ reported' = (reported /\ app' # <<>>)
  /\ UNCHANGED <<bad, marker, runs, edits, intended, broken, owed, told>>
\* fault: a save that failed puts the control out as well
SavedNow_Always(ok) == TRUE
SavedNow(ok) == ok
\* Its rename, and what save_settings or on_exit do then.
SaveRename == \E renamed \in BOOLEAN :
  /\ saving # <<>> /\ saving' = <<>>
  /\ file' = (IF renamed THEN Text(app[1].s) ELSE file)
  /\ intended' = (IF renamed THEN file' ELSE intended)
  /\ app' = IF saving[1] THEN <<>>
            ELSE IF SavedNow(renamed)
            THEN <<[app[1] EXCEPT !.last_saved = app[1].s, !.saves = 1]>>
            ELSE app
  /\ reported' = (reported /\ app' # <<>>)
  /\ UNCHANGED <<bad, marker, runs, edits, broken, owed, told>>

\* write_crash_report: the report beside the program when not in Logs, and a
\* marker once there is one.  panic is abort: nothing is saved.
Crash == \E in_logs, beside, marked \in BOOLEAN :
  /\ AtRest /\ app' = <<>>
  /\ marker' = (marker \/ ((in_logs \/ beside) /\ marked))
  /\ reported' = ((in_logs \/ beside) /\ marked)
  /\ UNCHANGED <<file, bad, saving, runs, edits, intended, broken, owed, told>>
\* The machine goes down, in the middle of a save or not.
PowerLoss ==
  /\ app # <<>> /\ app' = <<>> /\ saving' = <<>> /\ reported' = FALSE
  /\ UNCHANGED <<file, bad, marker, runs, edits, intended, broken, owed, told>>

\* The user, with an editor, between two runs: a change, a slip, a repair.
HandEdit == \E e \in HandEdits :
  /\ app = <<>> /\ file # <<>> /\ file[1].readable /\ edits < MaxEdits /\ edits' = edits + 1
  /\ file' = Text([f \in DOMAIN file[1].s |-> IF f \in DOMAIN e THEN e[f] ELSE file[1].s[f]]) /\ intended' = file'
  /\ UNCHANGED <<bad, marker, app, saving, runs, broken, owed, told, reported>>
Slip ==
  /\ app = <<>> /\ file # <<>> /\ broken < MaxBroken /\ broken' = broken + 1
  /\ file' = Unread(broken + 1) /\ intended' = file'
  /\ owed' = (owed \ {file[1].n}) \cup {broken + 1}
  /\ UNCHANGED <<bad, marker, app, saving, runs, edits, told, reported>>
Repair ==
  /\ app = <<>> /\ bad # <<>>
  /\ file' = Text(Defaults) /\ intended' = file' /\ bad' = <<>>
  /\ owed' = owed \ {t[1].n : t \in {bad, file} \ {<<>>}}
  /\ UNCHANGED <<marker, app, saving, runs, edits, broken, told, reported>>

SettingsNext == \/ Boot \/ Edit \/ SaveWrite \/ SaveRename \/ Crash \/ PowerLoss
                \/ HandEdit \/ Slip \/ Repair
SettingsSpec == SettingsInit /\ [][SettingsNext]_ssVars
-------------------------------------------------------------------------------
(* Properties *)

\* settings.rs: "the previous good file survives any crash mid-write".
FileIsWhole == file = intended

\* settings.rs: "Preserve the evidence FIRST, before any save can clobber it".
\* The last text the program could not read is in its place, in the copy, or
\* the log said it was not kept.
Held(n) == n \in told \/ \E f \in {file, bad} : f # <<>> /\ f[1].n = n
EvidenceKept == owed # {} /\ Max(owed) = broken => Held(Max(owed))

\* save_settings: "a failed write is visible on the control".  Once a run has
\* saved, a control that says Saved speaks the truth.
SaysSaved == AtRest /\ persistable_eq(app[1].s, app[1].last_saved)
Written == file # <<>> /\ file[1].readable /\ persistable_eq(app[1].s, file[1].s)
SavedIsWritten == SaysSaved /\ app[1].saves # 0 => Written

\* The control's hover text: "Everything is written to settings.toml".  It says
\* so from the start of a run, whatever the load found.
SavedMeansWritten == SaysSaved => Written

\* lib.rs: a crash that left its marker is announced at the next start.
CrashIsTold == app # <<>> /\ reported => app[1].notice

\* normalize: "Every accessor above may then index without checking".
ActiveExists == app # <<>> => app[1].s.active \in ToSet(app[1].s.profiles)

\* Each line of the original's files is in the settings, its later value where
\* two set one field, or in the log with the reason it is not; a password that
\* is imported is not shown.
Means(l) == IF l.key \in DOMAIN ConfigKeys THEN Given(ConfigKeys[l.key], l.value)
           ELSE IF l.key \in SettingsKeys THEN Setting(l.key, l.value) ELSE Wrong
Refused(i, l) == \E why \in {"unknown", "invalid", "automatic"}, k \in DOMAIN i.log : i.log[k] = <<why, l>>
Stands(i, n) == \E m \in n .. Len(Lines) : Means(Lines[m]) # Wrong /\ Means(Lines[n]) # Wrong
                                          /\ Means(Lines[m])[1] = Means(Lines[n])[1]
                                          /\ i.s[Means(Lines[m])[1]] = Means(Lines[m])[2]
ImportIsWhole ==
  HasLegacy =>
    /\ \A n \in DOMAIN Lines : IsPair(Lines[n]) => Refused(ImportLegacy, Lines[n]) \/ Stands(ImportLegacy, n)
    /\ \A k \in DOMAIN ImportLegacy.log :
         LET line == ImportLegacy.log[k]
         IN line[1] = "imported" /\ line[2].key = "ntrip password" => line[2].value = "****"

\* settings.rs, save: "a crash mid-save can never truncate the file", and what
\* a run reads, keeps, imports and reports of the run before is what there was.
SettingsKept == /\ FileIsWhole /\ EvidenceKept /\ SavedIsWritten
                /\ CrashIsTold /\ ActiveExists /\ ImportIsWhole
===============================================================================
