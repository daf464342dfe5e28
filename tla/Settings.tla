--------------------------------- MODULE Settings ---------------------------------
(***************************************************************************)
(* The settings: the draft that the window edits, what was saved, what the *)
(* runtime obeys, and the exclusions that the runtime proposes for         *)
(* processes it cannot control (application/settings.rs, and its users in  *)
(* ui/app.rs and backend/automation).  The window's thread handles one     *)
(* message after the other; the runtime's worker runs between its steps.   *)
(* The file survives Winderust, which may end at any step.                 *)
(***************************************************************************)
EXTENDS Naturals

CONSTANTS Apps,          \* executables that the runtime may propose to exclude
          MaxFaults,     \* writes and reads of the file that fail
          MaxChanges,    \* edits, imports and switches
          MaxRestarts,   \* how often Winderust ends and starts again
          EarlyReports,  \* whether proposals may precede the window's registration of its wake
          Inherits       \* no profile of its own for the battery

ASSUME SettingsAssumption ==
    {MaxFaults, MaxChanges, MaxRestarts} \subseteq Nat /\ EarlyReports \in BOOLEAN

VARIABLES
    disk,                                  \* settings.toml
    persisted, loadError, snapshot, news,  \* SettingsCoordinator, runtime_snapshot
    draft, edited,                         \* SettingsDraft, and whether it changed since projected
    fresh,                                 \* who holds the current persisted revision
    ui, taken, retrying, hidden,           \* the window's thread
    woken,                                 \* the channel of wakes
    runtime,                               \* the settings that the runtime obeys
    pending, marked, retryAt, unseen,      \* its patch, and the patch's generation
    told,                                  \* what was proposed in this life of Winderust
    consent,                               \* what the user saved, imported or switched last
    faults, changes, restarts

fileVars == <<disk, faults>>
editorVars == <<persisted, loadError, draft>>
snapshotVars == <<snapshot, news, edited>>
uiVars == <<ui, taken, retrying>>
patchVars == <<pending, marked, retryAt, unseen>>
vars == <<fileVars, editorVars, snapshotVars, fresh, uiVars, hidden, woken, runtime, patchVars,
          told, consent, changes, restarts>>

--------------------------------------------------------------------------------
(***************************************************************************)
(* Settings: what is shared by the profiles, and each profile's own.       *)
(***************************************************************************)
Sources == {"plugged", "battery"}
Profiles == [feature : BOOLEAN, excluded : SUBSET Apps]
AllSettings == [master : BOOLEAN, tuning : BOOLEAN, plugged : Profiles,
                battery : Profiles \cup {Inherits}]

ASSUME InheritsAssumption == Inherits \notin Profiles

Default == [master |-> TRUE, tuning |-> FALSE,
            plugged |-> [feature |-> FALSE, excluded |-> {}], battery |-> Inherits]

\* The profile in force for a source.
Effective(s, source) == IF s[source] = Inherits THEN s.plugged ELSE s[source]

\* battery_profile_mut: the battery gets a profile of its own before it is written.
Split(s) == [s EXCEPT !.battery = Effective(s, "battery")]

\* runtime_settings_for: policies as they were saved, preferences as they are edited.
Projected(current, saved) == [saved EXCEPT !.tuning = current.tuning]

\* What the user has agreed to.
Agreed(s) == [master |-> s.master,
              feature |-> [source \in Sources |-> Effective(s, source).feature]]

\* set_feature_enabled: the other profile keeps its value.
Switched(s, source, enabled) == [Split(s) EXCEPT ![source].feature = enabled]

\* apply_auto_exclusion_patch_to_profile: the proposals are excluded from now on.
Joined(profile, apps) == [profile EXCEPT !.excluded = @ \cup apps]

\* apply_auto_exclusion_patch_to: in each profile there is.
Excluded(s, apps) ==
    [s EXCEPT !.plugged = Joined(@, apps),
              !.battery = IF @ = Inherits THEN Inherits ELSE Joined(@, apps)]

NoPatch == [kind |-> "none"]
Switch(source, enabled) == [kind |-> "feature", source |-> source, enabled |-> enabled]
Master(enabled) == [kind |-> "master", enabled |-> enabled]
Exclusion(apps) == [kind |-> "exclusion", apps |-> apps]

Patched(s, patch) ==
    CASE patch.kind = "feature" -> Switched(s, patch.source, patch.enabled)
      [] patch.kind = "master" -> [s EXCEPT !.master = patch.enabled]
      [] patch.kind = "exclusion" -> Excluded(s, patch.apps)

\* Giving the battery its own profile is no change by itself.
Changes(s, patch) ==
    CASE patch.kind = "feature" -> Effective(s, patch.source).feature # patch.enabled
      [] patch.kind = "master" -> s.master # patch.enabled
      [] patch.kind = "exclusion" -> Excluded(s, patch.apps) # s

--------------------------------------------------------------------------------
(***************************************************************************)
(* SettingsCoordinator.                                                    *)
(***************************************************************************)
Fault == faults < MaxFaults /\ faults' = faults + 1

\* One more edit, import or switch by the user.
Change == changes < MaxChanges /\ changes' = changes + 1

\* The file is replaced as a whole, or not at all.
Store(s) == disk' = s /\ UNCHANGED faults

\* A new persisted revision: only those in `holders` have it.
Advance(holders) == fresh' = holders

\* refresh_runtime_settings_snapshot, with the draft, its changes and the settings as given.
Refresh(value, dirty, saved, current) ==
    LET projected == IF dirty \/ ~current THEN Projected(value, saved) ELSE snapshot
    IN  /\ snapshot' = projected
        /\ news' = (news \/ projected # snapshot)
        /\ edited' = FALSE

\* The draft and the saved settings become s; everybody else's revision is out of date.
Adopt(s) ==
    /\ persisted' = s /\ draft' = s /\ loadError' = FALSE
    /\ Advance({"draft", "snapshot"})
    /\ Refresh(s, TRUE, s, FALSE)

Goto(place) == ui' = place

--------------------------------------------------------------------------------
(***************************************************************************)
(* Edits of the draft, which nobody else sees until they are saved; the    *)
(* preferences among them are obeyed from the next publication on.         *)
(***************************************************************************)
EditPolicy ==
    /\ ui = "idle" /\ ~hidden /\ Change
    /\ \E source \in Sources, profile \in Profiles :
         draft' = [IF source = "battery" THEN Split(draft) ELSE draft EXCEPT ![source] = profile]
    /\ edited' = TRUE
    /\ UNCHANGED <<fileVars, persisted, loadError, snapshot, news, fresh, uiVars, hidden, woken,
                   runtime, patchVars, told, consent, restarts>>

EditGlobal ==
    /\ ui = "idle" /\ ~hidden /\ Change
    /\ draft' = [draft EXCEPT !.tuning = ~@]
    /\ edited' = TRUE
    /\ UNCHANGED <<fileVars, persisted, loadError, snapshot, news, fresh, uiVars, hidden, woken,
                   runtime, patchVars, told, consent, restarts>>

\* A failed write leaves everything as it was.
Save ==
    /\ ui = "idle" /\ ~hidden
    /\ \/ Fault /\ UNCHANGED <<disk, editorVars, snapshotVars, fresh, ui, consent>>
       \/ /\ Store(draft) /\ Adopt(draft) /\ consent' = Agreed(draft)
          /\ Goto("publish")
    /\ UNCHANGED <<taken, retrying, hidden, woken, runtime, patchVars, told, changes, restarts>>

Import ==
    /\ ui = "idle" /\ ~hidden /\ Change
    /\ \/ Fault /\ UNCHANGED <<disk, editorVars, snapshotVars, fresh, ui, consent>>
       \/ \E s \in {Default, [Default EXCEPT !.plugged.feature = TRUE]} :
            /\ Store(s) /\ Adopt(s) /\ consent' = Agreed(s)
            /\ Goto("publish")
    /\ UNCHANGED <<taken, retrying, hidden, woken, runtime, patchVars, told, restarts>>

\* The snapshot after a cancel, which marks the draft.
CancelRefresh == Refresh(persisted, TRUE, persisted, "snapshot" \in fresh)

Cancel ==
    /\ ui = "idle" /\ ~hidden
    /\ draft' = persisted /\ fresh' = fresh \cup {"draft", "snapshot"}
    /\ CancelRefresh
    /\ Goto("publish")
    /\ UNCHANGED <<fileVars, persisted, loadError, taken, retrying, hidden, woken, runtime,
                   patchVars, told, consent, changes, restarts>>

--------------------------------------------------------------------------------
(***************************************************************************)
(* apply_runtime_patch, for a switch of the tray's menu or for proposals.  *)
(***************************************************************************)
\* Mutant of Stored: what the user has not saved yet is written too.
StoredDraft(patch) == Patched(draft, patch)

\* What is written: the saved settings with the patch, without the user's edits.
Stored(patch) == Patched(persisted, patch)

\* A switch that was accepted is the user's wish, even if nothing changed.
Agree(patch) ==
    CASE patch.kind = "feature" -> [consent EXCEPT !.feature[patch.source] = patch.enabled]
      [] patch.kind = "master" -> [consent EXCEPT !.master = patch.enabled]
      [] patch.kind = "exclusion" -> consent

Unpatched == UNCHANGED <<disk, editorVars, snapshotVars, fresh>>

Succeeds(patch) ==
    \/ /\ ~Changes(persisted, patch) /\ ~Changes(draft, patch)
       /\ Unpatched /\ UNCHANGED faults
    \/ /\ Changes(persisted, patch) /\ ~loadError
       /\ Store(Stored(patch))
       /\ persisted' = Stored(patch) /\ draft' = Patched(draft, patch)
       /\ Advance({"draft", "snapshot"})
       /\ Refresh(draft', TRUE, persisted', FALSE)
       /\ UNCHANGED loadError
    \/ /\ ~Changes(persisted, patch) /\ Changes(draft, patch) /\ ~loadError
       /\ draft' = Patched(draft, patch)
       /\ fresh' = fresh \cup {"draft", "snapshot"}
       /\ Refresh(draft', TRUE, persisted, "snapshot" \in fresh)
       /\ UNCHANGED <<fileVars, persisted, loadError>>

\* Settings that could not be loaded are not overwritten unasked; the file cannot be written.
Refused(patch) ==
    /\ Changes(persisted, patch) \/ Changes(draft, patch)
    /\ \/ loadError /\ UNCHANGED faults
       \/ Changes(persisted, patch) /\ Fault
    /\ Unpatched

Current(holder) == {holder, "draft"} \subseteq fresh

Switches == {Master(enabled) : enabled \in BOOLEAN}
            \cup {Switch(source, enabled) : source \in Sources, enabled \in BOOLEAN}

\* The menu offers the opposite of what was saved when it opened, maybe some time ago; settings
\* that could not be loaded have not been saved since.
Offered(patch) == loadError => Changes(persisted, patch)

\* The tray's menu: its patch has the coordinator's own revision; an error shows the window.
MenuAction ==
    /\ ui = "idle" /\ Change
    /\ \E patch \in {p \in Switches : Offered(p)} :
        \/ /\ "draft" \in fresh /\ Succeeds(patch)
           /\ consent' = Agree(patch) /\ Goto("publish")
           /\ UNCHANGED hidden
        \/ /\ \/ "draft" \in fresh /\ Refused(patch)
              \/ "draft" \notin fresh /\ Unpatched /\ UNCHANGED faults
           /\ hidden' = FALSE /\ UNCHANGED <<ui, consent>>
    /\ UNCHANGED <<taken, retrying, woken, runtime, patchVars, told, restarts>>

\* The window's timer, every 250 ms while it is shown, every 5 s while it is hidden and retries.
Ticking == ~hidden \/ retrying

\* take_auto_exclusion_patch_since, in a tick or after a wake.
Tick ==
    /\ ui = "idle" /\ (Ticking \/ woken)
    /\ woken' = FALSE
    /\ IF unseen /\ retryAt # "later"
       THEN /\ taken' = pending /\ Goto("apply")
            /\ pending' = {} /\ marked' = FALSE /\ retryAt' = "none" /\ unseen' = FALSE
            /\ fresh' = IF "pending" \in fresh THEN (fresh \ {"pending"}) \cup {"taken"}
                        ELSE fresh \ {"taken"}
       ELSE UNCHANGED <<taken, ui, patchVars, fresh>>
    /\ UNCHANGED <<fileVars, editorVars, snapshotVars, retrying, hidden, runtime, told, consent,
                   changes, restarts>>

ApplyExclusions ==
    /\ ui = "apply"
    /\ \/ /\ Current("taken") /\ Succeeds(Exclusion(taken))
          /\ retrying' = FALSE /\ Goto("publish")
       \/ /\ \/ Current("taken") /\ Refused(Exclusion(taken))
             \/ ~Current("taken") /\ Unpatched /\ UNCHANGED faults
          /\ Goto("requeue") /\ UNCHANGED retrying
    /\ UNCHANGED <<taken, hidden, woken, runtime, patchVars, told, consent, changes, restarts>>

\* Mutant of Announce: nobody looks at what was put back.
AnnounceNothing == UNCHANGED unseen

\* The generation of the patch moves.
Announce == unseen' = TRUE

\* requeue_auto_exclusion_patch: merged with what was proposed meanwhile.
Requeue ==
    /\ ui = "requeue"
    /\ pending' = pending \cup taken /\ taken' = {}
    /\ fresh' = (fresh \ {"pending", "taken"}) \cup (IF "runtime" \in fresh THEN {"pending"} ELSE {})
    /\ marked' = TRUE /\ retryAt' = "later" /\ Announce
    /\ retrying' = TRUE /\ Goto("idle")
    /\ UNCHANGED <<fileVars, editorVars, snapshotVars, hidden, woken, runtime, told, consent,
                   changes, restarts>>

\* Mutant of Renewed: a patch that waits keeps the revision it was made for.
RenewedNever == {}

\* A patch that waits is moved to the revision that is published.
Renewed == IF marked THEN {"pending"} ELSE {}

\* publish_settings: runtime_settings_snapshot and replace_settings.
Publish ==
    /\ ui = "publish"
    /\ Refresh(draft, edited, persisted, "snapshot" \in fresh)
    /\ fresh' = fresh \cup {"snapshot", "runtime"}
                      \cup (IF "runtime" \notin fresh THEN Renewed ELSE {})
    /\ runtime' = IF news' THEN snapshot' ELSE runtime
    /\ taken' = {} /\ Goto("idle")
    /\ UNCHANGED <<fileVars, editorVars, retrying, hidden, woken, patchVars, told, consent,
                   changes, restarts>>

ShowOrHide ==
    /\ ui = "idle" /\ hidden' = ~hidden
    /\ UNCHANGED <<fileVars, editorVars, snapshotVars, fresh, uiVars, woken, runtime, patchVars,
                   told, consent, changes, restarts>>

--------------------------------------------------------------------------------
(***************************************************************************)
(* The runtime's worker, the clock, and the end of Winderust.              *)
(***************************************************************************)
\* A process that could not be controlled often enough is proposed, once, and the window woken.
Propose ==
    /\ \E app \in Apps \ told :
        /\ told' = told \cup {app}
        /\ app \notin pending
        /\ pending' = pending \cup {app}
        /\ marked' = TRUE /\ unseen' = TRUE /\ woken' = TRUE
        /\ fresh' = IF marked \/ "runtime" \notin fresh THEN fresh ELSE fresh \cup {"pending"}
    /\ UNCHANGED <<fileVars, editorVars, snapshotVars, uiVars, hidden, runtime, retryAt, consent,
                   changes, restarts>>

DeadlinePasses ==
    /\ retryAt = "later" /\ retryAt' = "now"
    /\ UNCHANGED <<fileVars, editorVars, snapshotVars, fresh, uiVars, hidden, woken, runtime,
                   pending, marked, unseen, told, consent, changes, restarts>>

\* A start of Winderust with what the file holds, or with the defaults if it cannot be read.
Loaded(s, error) ==
    /\ persisted' = s /\ draft' = s /\ loadError' = error
    /\ snapshot' = Projected(s, s) /\ news' = FALSE /\ edited' = FALSE
    /\ runtime' = Projected(s, s)

Restart ==
    /\ restarts < MaxRestarts /\ restarts' = restarts + 1
    /\ \/ Loaded(disk, FALSE) /\ UNCHANGED faults
       \/ Loaded(Default, TRUE) /\ Fault
    /\ ui' = "idle" /\ taken' = {} /\ retrying' = FALSE /\ hidden' \in BOOLEAN
    /\ pending' = {} /\ marked' = FALSE /\ retryAt' = "none" /\ unseen' = FALSE /\ woken' = FALSE
    /\ told' = {} /\ fresh' = {"draft", "snapshot", "runtime"}
    /\ UNCHANGED <<disk, consent, changes>>

--------------------------------------------------------------------------------
Init ==
    /\ pending \in (IF EarlyReports THEN SUBSET Apps ELSE {{}})
    /\ disk = Default /\ persisted = Default /\ draft = Default /\ loadError = FALSE
    /\ snapshot = Default /\ news = FALSE /\ edited = FALSE /\ runtime = Default
    /\ fresh = {"draft", "snapshot", "runtime"} \cup (IF pending # {} THEN {"pending"} ELSE {})
    /\ ui = "idle" /\ taken = {} /\ retrying = FALSE /\ hidden \in BOOLEAN /\ woken = FALSE
    /\ marked = (pending # {}) /\ unseen = (pending # {}) /\ told = pending /\ retryAt = "none"
    /\ consent = Agreed(Default)
    /\ faults = 0 /\ changes = 0 /\ restarts = 0

Handler == ApplyExclusions \/ Requeue \/ Publish
User == EditPolicy \/ EditGlobal \/ Save \/ Import \/ Cancel \/ MenuAction \/ ShowOrHide

Next == User \/ Tick \/ Handler \/ Propose \/ DeadlinePasses \/ Restart

Spec == Init /\ [][Next]_vars

\* A message is handled to its end, ticks and wakes get their turn in the window's queue, and
\* the retry's interval passes.
FairSpec == Spec /\ WF_vars(Handler) /\ SF_vars(Tick) /\ WF_vars(DeadlinePasses)

--------------------------------------------------------------------------------
\* Every variable has its type.
TypeOK ==
    /\ {disk, persisted, draft, snapshot, runtime} \subseteq AllSettings
    /\ {loadError, news, edited, retrying, hidden, woken, marked, unseen} \subseteq BOOLEAN
    /\ fresh \subseteq {"draft", "snapshot", "runtime", "pending", "taken"}
    /\ ui \in {"idle", "apply", "requeue", "publish"}
    /\ taken \subseteq Apps /\ pending \subseteq told /\ told \subseteq Apps
    /\ retryAt \in {"none", "later", "now"}
    /\ consent \in [master : BOOLEAN, feature : [Sources -> BOOLEAN]]
    /\ faults \in 0 .. MaxFaults /\ changes \in 0 .. MaxChanges /\ restarts \in 0 .. MaxRestarts

\* What is taken to be saved is what the file holds, whatever failed, unless it could not be read.
SavedIsStored == loadError \/ persisted = disk

\* No proposal and no switch is ever refused because its revision is out of date, though
\* proposals wait in the runtime while settings are saved.
PatchesAreCurrent == "draft" \in fresh /\ (ui = "apply" => "taken" \in fresh)

\* Between messages the runtime obeys the saved policies and the edited preferences, except for
\* edits since the last publication.
RuntimeFollows == ui = "idle" /\ ~edited => runtime = Projected(draft, persisted)

\* File, editor and runtime agree.
Consistent == TypeOK /\ SavedIsStored /\ PatchesAreCurrent /\ RuntimeFollows

\* The policies that are stored, and those that the runtime obeys, are the ones the user saved,
\* imported or switched last, for each power source on its own: proposals and switches never
\* carry along an edit that was not saved, and a switch never changes the other profile.
OnlyConsented ==
    /\ loadError \/ Agreed(persisted) = consent
    /\ ui = "idle" => loadError \/ Agreed(runtime) = consent

\* A proposal is not lost: it becomes part of the settings of both profiles, whatever writes
\* failed at first, whether or not the window is shown, unless Winderust ends or its settings
\* could not be loaded. The run has EarlyReports = FALSE: a proposal made before the window registers
\* its wake (app.rs:233) may wait for the next one, as MCSettingsEarly.cfg shows.
ExclusionsArrive ==
    \A app \in Apps, n \in 0 .. MaxRestarts :
        app \in pending /\ restarts = n ~>
            \/ \A source \in Sources : app \in Effective(persisted, source).excluded
            \/ restarts # n \/ loadError
================================================================================
