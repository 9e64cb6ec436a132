------------------------------- MODULE Profiles -------------------------------
(***************************************************************************)
(* The list of profiles: profiles.rs, profile_file.rs (plan, row_problem,  *)
(* apply_import) and what the dialogs and the main window do with it while *)
(* a caster connection comes and goes, settings.toml is saved, fails to be *)
(* saved, and is read again by the next run of the application.            *)
(*                                                                         *)
(* One action per gesture.  Dialogs are modal: the main window is inert    *)
(* under any of them, and the Profiles window under a prompt.  An import   *)
(* is one step, because nothing it was planned on can change while its     *)
(* dialog is up, which is above all the others.  A profile is where it     *)
(* points; credentials, GGA fields and the raw TCP protocol are left out,  *)
(* as are exports, which change no profile.  Names are those that are left *)
(* after trimming; a blank one is refused everywhere.                      *)
(***************************************************************************)
EXTENDS Naturals, Sequences, SequencesExt

CONSTANTS Names,        \* what profiles are called
          Default,      \* the name Profile::default has
          Points,       \* where a profile points: [caster, mount]
          Nowhere,      \* Profile::default's: no host, no mountpoint
          FilePoints,   \* where the profiles of an imported file point
          MaxProfiles,  \* bound on the list
          MaxRows,      \* bound on the rows of an imported file
          Traced        \* keep the ghost, see Origin

ASSUME NamesAssumption == Default \in Names
ASSUME PointsAssumption ==
  /\ Points \subseteq [caster : STRING, mount : STRING] /\ FilePoints \subseteq Points
  /\ Nowhere \in Points /\ Nowhere.caster = ""
ASSUME BoundsAssumption == MaxProfiles \in Nat \ {0} /\ MaxRows \in Nat /\ Traced \in BOOLEAN

VARIABLES profiles,     \* settings.profiles: [name, point, was], see Origin
          active,       \* settings.active_profile
          saved,        \* last_saved
          file,         \* settings.toml, NoFile before the first save
          live,         \* what the running worker's job was built from
          table,        \* the caster whose sourcetable is loaded
          window,       \* show_profiles
          pending       \* the rename, the delete question or the name prompt

settings == <<profiles, active>>
disk     == <<saved, file>>
session  == <<live, table>>
vars     == <<settings, disk, session, window, pending>>

NoFile    == [profiles |-> <<>>, active |-> Default]
NotLive   == [caster |-> "", mount |-> ""]
NoTable   == "no table"
Prompt(k) == [kind |-> k, at |-> 0, name |-> Default]
NoPending == Prompt("none")
Origin    == Names \cup {"unsaved"}

\* was is a ghost: the name under which settings.toml knows the profile, for
\* the one property that speaks of it.
Profile(n, p) == [name |-> n, point |-> p, was |-> "unsaved"]
Written(s) == IF Traced THEN [i \in DOMAIN s |-> [s[i] EXCEPT !.was = s[i].name]] ELSE s
Settings(s, a) == [profiles |-> Written(s), active |-> a]

\* load_or_import: what a run starts from when settings.toml is f.
Boot(f) == IF f = NoFile THEN Settings(<<Profile(Default, Nowhere)>>, Default) ELSE f

NamesOf(s) == {s[i].name : i \in DOMAIN s}
PositionOf(s, n) == CHOOSE i \in DOMAIN s : /\ s[i].name = n
                                           /\ \A j \in 1 .. i - 1 : s[j].name # n

\* Settings::active_index, and what it stands for
ActiveIndex == IF active \in NamesOf(profiles) THEN PositionOf(profiles, active) ELSE 1
ActivePoint == profiles[ActiveIndex].point

\* persistable_eq, as far as the profiles go
PersistableEq(a, b) == a.active = b.active /\ Written(a.profiles) = Written(b.profiles)
Current == [profiles |-> profiles, active |-> active]
Unsaved == ~PersistableEq(Current, saved)

Busy == live # NotLive

Init == /\ file = NoFile
        /\ saved = Boot(file) /\ profiles = saved.profiles /\ active = saved.active
        /\ live = NotLive /\ table = NoTable
        /\ window = FALSE /\ pending = NoPending

-------------------------------------------------------------------------------
(* profiles.rs *)

\* check_name; skip is the profile being renamed, 0 for a new one
\* fault: the profile next to it is skipped too
CheckName_SkipsTwo(skip, n) == \A i \in DOMAIN profiles \ {skip, skip + 1} : profiles[i].name # n
CheckName(skip, n) == \A i \in DOMAIN profiles \ {skip} : profiles[i].name # n

Room == Len(profiles) < MaxProfiles

\* activate's answer: the active profile did change
Switches(i) == active # profiles[i].name

\* on_profile_switched
DropTable == table' = NoTable

\* rename; the active-profile pointer follows
Rename(i, n) == /\ profiles' = [profiles EXCEPT ![i].name = n]
                /\ active' = IF active = profiles[i].name THEN n ELSE active

\* remove; the first of the rest becomes active if need be
RemoveProfile(i) == /\ profiles' = RemoveAt(profiles, i)
                    /\ active' = IF active = profiles[i].name THEN profiles'[1].name ELSE active

\* save_as; the source goes back to what the file has under its name
SourceAfter(p) == IF p.name \in NamesOf(saved.profiles)
                  THEN saved.profiles[PositionOf(saved.profiles, p.name)]
                  ELSE p
SavedAs(n) == LET i == ActiveIndex
              IN  InsertAt([profiles EXCEPT ![i] = SourceAfter(@)], i + 1,
                           Profile(n, profiles[i].point))

-------------------------------------------------------------------------------
(* profile_file.rs: a row of an import is a profile to be added under the    *)
(* name the user left it or gave it, or to replace the one of its own name   *)

Rows  == [name : Names, point : FilePoints, replace : BOOLEAN]
Files == SeqOf(Rows, MaxRows) \ {<<>>}

Replaces(r) == r.replace /\ r.name \in NamesOf(profiles)

\* fault: the active profile may be replaced under a stream
RowFine_NotBusy(rows, i) ==
  /\ Replaces(rows[i]) \/ CheckName(0, rows[i].name)
  /\ \A j \in DOMAIN rows \ {i} : rows[j].name # rows[i].name
\* row_problem finds none
RowFine(rows, i) ==
  /\ ~(Busy /\ Replaces(rows[i]) /\ rows[i].name = active)
  /\ Replaces(rows[i]) \/ CheckName(0, rows[i].name)
  /\ \A j \in DOMAIN rows \ {i} : rows[j].name # rows[i].name

\* apply_import, of rows that are all fine: in place, or at the end
Replacement(rows, p) == {r \in ToSet(rows) : Replaces(r) /\ r.name = p.name}
Replaced(rows, p) == IF Replacement(rows, p) = {} THEN p
                     ELSE [p EXCEPT !.point = (CHOOSE r \in Replacement(rows, p) : TRUE).point]
\* the numbers in A, at most n of them, from the least to the greatest
InOrder(A, n) == CHOOSE s \in SeqOf(A, n) :
                   ToSet(s) = A /\ \A i, j \in DOMAIN s : i < j => s[i] < s[j]
Added(rows) == LET new == InOrder({i \in DOMAIN rows : ~Replaces(rows[i])}, Len(rows))
               IN  [i \in DOMAIN new |-> Profile(rows[new[i]].name, rows[new[i]].point)]
Imported(rows) == [i \in DOMAIN profiles |-> Replaced(rows, profiles[i])] \o Added(rows)

-------------------------------------------------------------------------------
(* Who hears the user: the main window, the Profiles window or a modal on it *)

OnSurface == ~window /\ pending.kind = "none"
OnWindow  == window /\ pending.kind \in {"none", "rename"}
Asked(k)  == pending.kind = k

\* apply: any verb of the window abandons a rename
\* fault: it goes on
Abandon_Kept == IF pending.kind = "rename" THEN UNCHANGED pending ELSE pending' = NoPending
Abandon == pending' = NoPending

Ask(k, i) == pending' = [kind |-> k, at |-> i, name |-> profiles[i].name]

-------------------------------------------------------------------------------
(* The main window *)

\* ntrip_block: the fields, locked while connected
Edit(p) == /\ OnSurface /\ ~Busy
           /\ profiles' = [profiles EXCEPT ![ActiveIndex].point = p]
           /\ UNCHANGED <<active, disk, session, window, pending>>

\* sourcetable_browser: "Use" sets the mountpoint of the active profile
UseMount(p) == /\ OnSurface
               /\ table = ActivePoint.caster /\ p.caster = table /\ p.mount # ""
               /\ profiles' = [profiles EXCEPT ![ActiveIndex].point = p]
               /\ UNCHANGED <<active, disk, session, window, pending>>

\* connect_ntrip; a table fetch names no mountpoint
Connect(tableOnly) ==
  /\ OnSurface /\ ~Busy /\ ActivePoint.caster # ""
  /\ live' = IF tableOnly THEN [ActivePoint EXCEPT !.mount = ""] ELSE ActivePoint
  /\ UNCHANGED <<settings, disk, table, window, pending>>

\* the worker's events, drained under any dialog
TableReady == /\ Busy /\ live.mount = "" /\ table' = live.caster
              /\ UNCHANGED <<settings, disk, live, window, pending>>
Stopped == /\ Busy /\ live' = NotLive
           /\ UNCHANGED <<settings, disk, table, window, pending>>

\* profile_strip's picker
Select(i) == /\ OnSurface /\ ~Busy /\ Switches(i)
             /\ active' = profiles[i].name /\ DropTable
             /\ UNCHANGED <<profiles, disk, live, window, pending>>

\* save_settings: the snapshot moves only when the file did
\* fault: it always does
SaveTo_Always(s, ok) == /\ file' = IF ok THEN s ELSE file
                        /\ saved' = s
SaveTo(s, ok) == /\ file' = IF ok THEN s ELSE file
                 /\ saved' = IF ok THEN s ELSE saved

\* the Save control, of the strip and of the Profiles window
Save(ok) == /\ OnSurface \/ OnWindow
            /\ Unsaved
            /\ SaveTo(Settings(profiles, active), ok)
            /\ profiles' = IF ok THEN Written(profiles) ELSE profiles
            /\ UNCHANGED <<active, session, window, pending>>

OpenSaveAs == /\ OnSurface /\ pending' = Prompt("SaveAs")
              /\ UNCHANGED <<settings, disk, session, window>>
OpenWindow == /\ OnSurface /\ window' = TRUE
              /\ UNCHANGED <<settings, disk, session, pending>>

-------------------------------------------------------------------------------
(* The name prompt *)

SaveAs(n, ok) ==
  /\ Asked("SaveAs") /\ CheckName(0, n) /\ Room
  /\ active' = n
  /\ SaveTo(Settings(SavedAs(n), n), ok)
  /\ profiles' = IF ok THEN Written(SavedAs(n)) ELSE SavedAs(n)
  /\ pending' = NoPending
  /\ UNCHANGED <<session, window>>

\* add_named; the new profile becomes active unless a stream is live
New(n) ==
  /\ Asked("New") /\ CheckName(0, n) /\ Room
  /\ profiles' = Append(profiles, Profile(n, Nowhere))
  /\ IF Busy THEN UNCHANGED <<active, table>> ELSE active' = n /\ DropTable
  /\ pending' = NoPending
  /\ UNCHANGED <<disk, live, window>>

\* duplicate_named; a source that vanished under the prompt closes it
Duplicate(n) ==
  /\ Asked("Duplicate") /\ pending.at \in DOMAIN profiles /\ CheckName(0, n) /\ Room
  /\ profiles' = InsertAt(profiles, pending.at + 1, Profile(n, profiles[pending.at].point))
  /\ pending' = NoPending
  /\ UNCHANGED <<active, disk, session, window>>

Cancel == /\ pending # NoPending /\ pending' = NoPending
          /\ UNCHANGED <<settings, disk, session, window>>

-------------------------------------------------------------------------------
(* The Profiles window *)

\* activate_block_reason
Activate(i) == /\ OnWindow /\ Abandon
               /\ IF Switches(i) /\ ~Busy
                  THEN active' = profiles[i].name /\ DropTable
                  ELSE UNCHANGED <<active, table>>
               /\ UNCHANGED <<profiles, disk, live, window>>

OpenNew == /\ OnWindow /\ pending' = Prompt("New")
           /\ UNCHANGED <<settings, disk, session, window>>

AskDuplicate(i) == /\ OnWindow /\ Ask("Duplicate", i)
                   /\ UNCHANGED <<settings, disk, session, window>>

BeginRename(i) == /\ OnWindow /\ Ask("rename", i)
                  /\ UNCHANGED <<settings, disk, session, window>>

CommitRename(n) == /\ Asked("rename") /\ CheckName(pending.at, n)
                   /\ Rename(pending.at, n)
                   /\ pending' = NoPending
                   /\ UNCHANGED <<disk, session, window>>

\* delete_block_reason
MayDelete == Len(profiles) > 1 /\ ~Busy

AskDelete(i) == /\ OnWindow
                /\ IF MayDelete THEN Ask("delete", i) ELSE Abandon
                /\ UNCHANGED <<settings, disk, session, window>>

ConfirmDelete == /\ Asked("delete") /\ MayDelete
                 /\ RemoveProfile(pending.at)
                 /\ IF active' # active THEN DropTable ELSE UNCHANGED table
                 /\ pending' = NoPending
                 /\ UNCHANGED <<disk, live, window>>

\* one place up or down
Move(i, j) == /\ OnWindow /\ j \in {i - 1, i + 1} \cap DOMAIN profiles /\ Abandon
              /\ profiles' = InsertAt(RemoveAt(profiles, i), j, profiles[i])
              /\ UNCHANGED <<active, disk, session, window>>

CloseWindow == /\ OnWindow /\ window' = FALSE /\ pending' = NoPending
               /\ UNCHANGED <<settings, disk, session>>

-------------------------------------------------------------------------------
(* An import, whose file may be dropped on any dialog, and the end of a run *)

Import(rows) ==
  /\ \A i \in DOMAIN rows : RowFine(rows, i)
  /\ Len(Imported(rows)) <= MaxProfiles
  /\ profiles' = Imported(rows)
  /\ IF \E r \in ToSet(rows) : Replaces(r) /\ r.name = active
     THEN DropTable ELSE UNCHANGED table
  /\ window' = TRUE
  /\ UNCHANGED <<active, disk, live, pending>>

\* on_exit saves, unless that fails or the process crashed first.
Restart(f) ==
  /\ f \in {file, Settings(profiles, active)}
  /\ file' = f
  /\ saved' = Boot(f) /\ profiles' = Boot(f).profiles /\ active' = Boot(f).active
  /\ live' = NotLive /\ table' = NoTable
  /\ window' = FALSE /\ pending' = NoPending

-------------------------------------------------------------------------------
Surface == \/ \E p \in Points : Edit(p) \/ UseMount(p)
           \/ \E b \in BOOLEAN : Connect(b) \/ Save(b)
           \/ TableReady \/ Stopped \/ OpenSaveAs \/ OpenWindow
           \/ \E i \in DOMAIN profiles : Select(i)

NamePrompt == \/ \E n \in Names : New(n) \/ Duplicate(n) \/ \E ok \in BOOLEAN : SaveAs(n, ok)
              \/ Cancel

Window == \/ \E i \in DOMAIN profiles : \/ Activate(i) \/ BeginRename(i) \/ AskDelete(i)
                                        \/ AskDuplicate(i)
                                        \/ \E j \in DOMAIN profiles : Move(i, j)
          \/ \E n \in Names : CommitRename(n)
          \/ OpenNew \/ ConfirmDelete \/ CloseWindow

Next == \/ Surface \/ NamePrompt \/ Window
        \/ \E rows \in Files : Import(rows)
        \/ \E f \in {file, Settings(profiles, active)} : Restart(f)

Spec == Init /\ [][Next]_vars
-------------------------------------------------------------------------------
(* Properties *)

ProfileType == [name : Names, point : Points, was : Origin]

TypeOK ==
  /\ profiles \in Seq(ProfileType) /\ Len(profiles) \in 1 .. MaxProfiles
  /\ active \in Names
  /\ saved.profiles \in Seq(ProfileType) /\ saved.active \in Names
  /\ file \in {NoFile, saved}
  /\ live.caster \in {p.caster : p \in Points}
  /\ table \in {p.caster : p \in Points} \cup {NoTable}
  /\ window \in BOOLEAN
  /\ pending.kind \in {"none", "SaveAs", "New", "Duplicate", "rename", "delete"}

\* profiles.rs: names stay unique, and the active one names a profile that is
\* there, whatever is created, renamed, replaced, deleted or reverted; so it
\* does in the file that the next run reads.
ActiveIsOne ==
  \A s \in {Current, saved, Boot(file)} :
    /\ \A i, j \in DOMAIN s.profiles : s.profiles[i].name = s.profiles[j].name => i = j
    /\ s.active \in NamesOf(s.profiles)

\* "nothing relabels a stream with another caster": while a worker is live the
\* active profile points at the caster the worker was sent to.
LiveCasterKept == Busy => ActivePoint.caster = live.caster

\* A rename, a delete question or a duplicate acts on the profile it was
\* opened on, though the list was moved, imported into or shortened since.
PendingHitsItsTarget ==
  pending.kind \in {"rename", "delete", "Duplicate"} =>
    pending.at \in DOMAIN profiles /\ profiles[pending.at].name = pending.name

\* The Save control says "Saved" only of what the next run will read, also
\* after a failed write or one that Save As tried.
SavedSurvives == ~Unsaved => PersistableEq(Boot(file), Current)

\* profiles.rs and settings.rs together: names identify profiles, in memory and
\* in the file, and what is called saved is what the next run reads.
ProfilesKept == TypeOK /\ ActiveIsOne /\ SavedSurvives

\* save_as (profiles.rs:171): "Allowed while connected: the new profile
\* carries the very settings the live session runs on".
SaveAsIsLive ==
  [][Busy /\ live.mount # "" /\ (\E n \in Names, ok \in BOOLEAN : SaveAs(n, ok))
     => ActivePoint' = live]_vars

\* save_as (profiles.rs:185): "unless the file does not know it by this name
\* (new, or renamed since the save): then it keeps what it has".
KeepsWhatItHas ==
  [][(\E n \in Names, ok \in BOOLEAN : SaveAs(n, ok)) /\ profiles[ActiveIndex].was # active
     => profiles'[PositionOf(profiles', active)].point = ActivePoint]_vars
===============================================================================
