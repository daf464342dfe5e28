------------------------------ MODULE SettingsProofs ------------------------------
(***************************************************************************)
(* Proofs about Settings, for any executables and any number of edits,     *)
(* failures and restarts.                                                  *)
(***************************************************************************)
EXTENDS Settings, TLAPS

--------------------------------------------------------------------------------
(***************************************************************************)
(* The inductive invariant.                                                *)
(***************************************************************************)
\* Who has the current revision: the runtime, except while a new one waits to be published,
\* and with the runtime whatever waits in its patch.
FreshOK ==
    /\ "draft" \in fresh
    /\ ui = "apply" => "taken" \in fresh
    /\ ui # "publish" => "runtime" \in fresh
    /\ "runtime" \in fresh /\ marked => "pending" \in fresh
    /\ unseen => marked

\* The runtime has the last snapshot, and the snapshot is current unless edits follow.
SnapshotOK ==
    /\ ~news => runtime = snapshot
    /\ ~edited /\ "snapshot" \in fresh => snapshot = Projected(draft, persisted)

\* RuntimeFollows also holds in the course of a message, until something is to be published.
ObeyedOK == ui # "publish" /\ ~edited => runtime = Projected(draft, persisted)

\* The file holds what was consented to even while it cannot be read.
ConsentOK ==
    /\ Agreed(disk) = consent
    /\ ui # "publish" => loadError \/ Agreed(runtime) = consent

ProposalsOK == taken \subseteq told

IInv == TypeOK /\ SavedIsStored /\ FreshOK /\ SnapshotOK /\ ObeyedOK /\ ConsentOK /\ ProposalsOK


\* The steps, one by one.
LEMMA NextCases ==
    [Next]_vars =>
        \/ EditPolicy \/ EditGlobal \/ Save \/ Import \/ Cancel \/ MenuAction \/ ShowOrHide
        \/ Tick \/ ApplyExclusions \/ Requeue \/ Publish
        \/ Propose \/ DeadlinePasses \/ Restart \/ UNCHANGED vars
BY DEF Next, User, Handler

--------------------------------------------------------------------------------
(***************************************************************************)
(* The operators: what they return, and what they leave agreed.            *)
(***************************************************************************)
Patches == Switches \cup {Exclusion(apps) : apps \in SUBSET Apps}

LEMMA ProfileFields ==
    ASSUME NEW p \in Profiles
    PROVE  p.feature \in BOOLEAN /\ p.excluded \in SUBSET Apps /\ p # Inherits
BY InheritsAssumption DEF Profiles

LEMMA SettingsFields ==
    ASSUME NEW s \in AllSettings
    PROVE  /\ s.master \in BOOLEAN /\ s.tuning \in BOOLEAN /\ s.plugged \in Profiles
           /\ s.battery \in Profiles \cup {Inherits}
           /\ s["plugged"] = s.plugged /\ s["battery"] = s.battery
BY DEF AllSettings

LEMMA EffectiveFields ==
    ASSUME NEW s \in AllSettings
    PROVE  /\ Effective(s, "plugged") = s.plugged
           /\ Effective(s, "battery") = IF s.battery = Inherits THEN s.plugged ELSE s.battery
           /\ \A source \in Sources : Effective(s, source) \in Profiles
<1>1. Effective(s, "plugged") = s.plugged
  BY SettingsFields DEF Effective
<1>2. Effective(s, "battery") = IF s.battery = Inherits THEN s.plugged ELSE s.battery
  BY SettingsFields DEF Effective
<1> QED  BY <1>1, <1>2, SettingsFields DEF Sources

LEMMA DefaultType == Default \in AllSettings
BY DEF Default, AllSettings, Profiles

LEMMA SplitFields ==
    ASSUME NEW s \in AllSettings
    PROVE  /\ Split(s) \in AllSettings
           /\ Split(s).master = s.master /\ Split(s).tuning = s.tuning
           /\ Split(s).plugged = s.plugged /\ Split(s).battery = Effective(s, "battery")
<1>1. Effective(s, "battery") \in Profiles
  BY EffectiveFields DEF Sources
<1> QED  BY <1>1 DEF Split, AllSettings

LEMMA ProjectedFields ==
    ASSUME NEW c \in AllSettings, NEW s \in AllSettings
    PROVE  /\ Projected(c, s) \in AllSettings
           /\ Projected(c, s).master = s.master
           /\ Projected(c, s).plugged = s.plugged /\ Projected(c, s).battery = s.battery
BY DEF Projected, AllSettings

LEMMA ProjectedSelf == ASSUME NEW s \in AllSettings PROVE Projected(s, s) = s
BY DEF Projected, AllSettings

\* What is agreed is the master switch and the two effective features.
LEMMA AgreedSame ==
    ASSUME NEW s, NEW t, s.master = t.master,
           Effective(s, "plugged").feature = Effective(t, "plugged").feature,
           Effective(s, "battery").feature = Effective(t, "battery").feature
    PROVE  Agreed(s) = Agreed(t)
BY DEF Agreed, Sources

LEMMA AgreedType ==
    ASSUME NEW s \in AllSettings
    PROVE  Agreed(s) \in [master : BOOLEAN, feature : [Sources -> BOOLEAN]]
<1>1. \A source \in Sources : Effective(s, source).feature \in BOOLEAN
  BY EffectiveFields, ProfileFields
<1> QED  BY <1>1, SettingsFields DEF Agreed

LEMMA AgreedProjected ==
    ASSUME NEW c \in AllSettings, NEW s \in AllSettings PROVE Agreed(Projected(c, s)) = Agreed(s)
<1> DEFINE t == Projected(c, s)
<1>1. t \in AllSettings /\ t.master = s.master /\ t.plugged = s.plugged /\ t.battery = s.battery
  BY ProjectedFields
<1> HIDE DEF t
<1>2. Effective(t, "plugged") = Effective(s, "plugged") /\ Effective(t, "battery") = Effective(s, "battery")
  BY <1>1, EffectiveFields
<1>3. Agreed(t) = Agreed(s)
  BY <1>1, <1>2, AgreedSame
<1> QED  BY <1>3 DEF t

LEMMA ExcludedFields ==
    ASSUME NEW s \in AllSettings, NEW apps \in SUBSET Apps
    PROVE  Excluded(s, apps) \in AllSettings /\ Agreed(Excluded(s, apps)) = Agreed(s)
<1> DEFINE t == Excluded(s, apps)
<1>1. /\ s.plugged \in Profiles /\ Joined(s.plugged, apps) \in Profiles
      /\ Joined(s.plugged, apps).feature = s.plugged.feature
  BY SettingsFields DEF Profiles, Joined
<1>2. s.battery # Inherits =>
          /\ s.battery \in Profiles /\ Joined(s.battery, apps) \in Profiles
          /\ Joined(s.battery, apps).feature = s.battery.feature
  BY SettingsFields DEF Profiles, Joined
<1>3. /\ t \in AllSettings /\ t.master = s.master
      /\ t.plugged = Joined(s.plugged, apps)
      /\ t.battery = IF s.battery = Inherits THEN Inherits ELSE Joined(s.battery, apps)
  BY <1>1, <1>2 DEF Excluded, AllSettings
<1> HIDE DEF t
<1>4. Effective(t, "plugged").feature = Effective(s, "plugged").feature
  BY <1>1, <1>3, EffectiveFields
<1>5. Effective(t, "battery").feature = Effective(s, "battery").feature
  <2>1. CASE s.battery = Inherits
    BY <1>1, <1>3, <2>1, EffectiveFields
  <2>2. CASE s.battery # Inherits
    BY <1>2, <1>3, <2>2, EffectiveFields, ProfileFields
  <2> QED  BY <2>1, <2>2
<1>6. Agreed(t) = Agreed(s)
  BY <1>3, <1>4, <1>5, AgreedSame
<1> QED  BY <1>3, <1>6 DEF t

LEMMA SwitchedFields ==
    ASSUME NEW s \in AllSettings, NEW source \in Sources, NEW enabled \in BOOLEAN
    PROVE  /\ Switched(s, source, enabled) \in AllSettings
           /\ Switched(s, source, enabled).master = s.master
           /\ \A p \in Sources : Effective(Switched(s, source, enabled), p).feature =
                                    IF p = source THEN enabled ELSE Effective(s, p).feature
<1> DEFINE u == Split(s)
           t == Switched(s, source, enabled)
<1>1. /\ u \in AllSettings /\ u.master = s.master /\ u.plugged = s.plugged
      /\ u.battery = Effective(s, "battery") /\ u.battery \in Profiles
  BY SplitFields, EffectiveFields DEF Sources
<1> HIDE DEF u
<1>2. CASE source = "plugged"
  <2>1. t = [u EXCEPT !.plugged.feature = enabled]
    BY <1>2 DEF Switched, u
  <2> HIDE DEF t
  <2>2. [u.plugged EXCEPT !.feature = enabled] \in Profiles /\ [u.plugged EXCEPT !.feature = enabled].feature = enabled
    BY <1>1, SettingsFields DEF Profiles
  <2>3. /\ t \in AllSettings /\ t.master = u.master /\ t.battery = u.battery
        /\ t.plugged = [u.plugged EXCEPT !.feature = enabled]
    BY <1>1, <2>1, <2>2 DEF AllSettings
  <2>4. t.battery # Inherits
    BY <1>1, <2>3, ProfileFields
  <2>5. Effective(t, "plugged").feature = enabled /\ Effective(t, "battery") = Effective(s, "battery")
    BY <1>1, <2>2, <2>3, <2>4, EffectiveFields
  <2> QED  BY <1>1, <1>2, <2>3, <2>5 DEF Sources, t
<1>3. CASE source = "battery"
  <2>1. t = [u EXCEPT !.battery.feature = enabled]
    BY <1>3 DEF Switched, u
  <2> HIDE DEF t
  <2>2. [u.battery EXCEPT !.feature = enabled] \in Profiles /\ [u.battery EXCEPT !.feature = enabled].feature = enabled
    BY <1>1 DEF Profiles
  <2>3. /\ t \in AllSettings /\ t.master = u.master /\ t.plugged = u.plugged
        /\ t.battery = [u.battery EXCEPT !.feature = enabled]
    BY <1>1, <2>1, <2>2 DEF AllSettings
  <2>4. t.battery # Inherits
    BY <2>2, <2>3, ProfileFields
  <2>5. Effective(t, "battery").feature = enabled /\ Effective(t, "plugged") = Effective(s, "plugged")
    BY <1>1, <2>2, <2>3, <2>4, EffectiveFields
  <2> QED  BY <1>1, <1>3, <2>3, <2>5 DEF Sources, t
<1> QED  BY <1>2, <1>3 DEF Sources

LEMMA PatchedType ==
    ASSUME NEW s \in AllSettings, NEW patch \in Patches  PROVE Patched(s, patch) \in AllSettings
<1>1. ASSUME NEW b \in BOOLEAN PROVE Patched(s, Master(b)) \in AllSettings
  BY DEF Patched, Master, AllSettings
<1>2. ASSUME NEW b \in BOOLEAN, NEW source \in Sources
      PROVE  Patched(s, Switch(source, b)) \in AllSettings
  <2>1. Patched(s, Switch(source, b)) = Switched(s, source, b)
    BY DEF Patched, Switch
  <2> QED  BY <2>1, SwitchedFields
<1>3. ASSUME NEW apps \in SUBSET Apps PROVE Patched(s, Exclusion(apps)) \in AllSettings
  <2>1. Patched(s, Exclusion(apps)) = Excluded(s, apps)
    BY DEF Patched, Exclusion
  <2> QED  BY <2>1, ExcludedFields
<1> QED  BY <1>1, <1>2, <1>3 DEF Patches, Switches

\* A switch changes what is agreed as the user wished, whatever else the settings hold.
LEMMA SwitchAgrees ==
    ASSUME NEW s \in AllSettings, NEW patch \in Switches, Agreed(s) = consent
    PROVE  /\ Agreed(Patched(s, patch)) = Agree(patch)
           /\ ~Changes(s, patch) => Agree(patch) = consent
<1>1. ASSUME NEW b \in BOOLEAN
      PROVE  /\ Agreed(Patched(s, Master(b))) = Agree(Master(b))
             /\ ~Changes(s, Master(b)) => Agree(Master(b)) = consent
  <2> DEFINE t == [s EXCEPT !.master = b]
  <2>1. Patched(s, Master(b)) = t /\ Agree(Master(b)) = [consent EXCEPT !.master = b]
    BY DEF Patched, Master, Agree
  <2>2. t \in AllSettings /\ t.master = b /\ t.plugged = s.plugged /\ t.battery = s.battery
    BY DEF AllSettings
  <2> HIDE DEF t
  <2>3. Effective(t, "plugged") = Effective(s, "plugged") /\ Effective(t, "battery") = Effective(s, "battery")
    BY <2>2, EffectiveFields
  <2>4. Agreed(t) = [consent EXCEPT !.master = b]
    BY <2>2, <2>3 DEF Agreed, Sources
  <2>5. ~Changes(s, Master(b)) => s.master = b
    BY DEF Changes, Master
  <2>6. s.master = b => [consent EXCEPT !.master = b] = consent
    BY DEF Agreed
  <2> QED  BY <2>1, <2>4, <2>5, <2>6
<1>2. ASSUME NEW b \in BOOLEAN, NEW source \in Sources
      PROVE  /\ Agreed(Patched(s, Switch(source, b))) = Agree(Switch(source, b))
             /\ ~Changes(s, Switch(source, b)) => Agree(Switch(source, b)) = consent
  <2> DEFINE t == Switched(s, source, b)
  <2>1. Patched(s, Switch(source, b)) = t
    BY DEF Patched, Switch
  <2>2. Agree(Switch(source, b)) = [consent EXCEPT !.feature[source] = b]
    BY DEF Switch, Agree
  <2>3. /\ t \in AllSettings /\ t.master = s.master
        /\ \A p \in Sources : Effective(t, p).feature = IF p = source THEN b ELSE Effective(s, p).feature
    BY SwitchedFields
  <2> HIDE DEF t
  <2>4. consent.feature = [p \in Sources |-> Effective(s, p).feature]
    BY DEF Agreed
  <2>5. [consent.feature EXCEPT ![source] = b] = [p \in Sources |-> Effective(t, p).feature]
    BY <2>3, <2>4
  <2>6. Agreed(t) = [consent EXCEPT !.feature[source] = b]
    BY <2>3, <2>5 DEF Agreed
  <2>7. ~Changes(s, Switch(source, b)) => Effective(s, source).feature = b
    BY DEF Changes, Switch
  <2>8. Effective(s, source).feature = b => [consent EXCEPT !.feature[source] = b] = consent
    <3>1. Effective(s, source).feature = b => [consent.feature EXCEPT ![source] = b] = consent.feature
      BY <2>4
    <3> QED  BY <3>1 DEF Agreed
  <2> QED  BY <2>1, <2>2, <2>6, <2>7, <2>8
<1> QED  BY <1>1, <1>2 DEF Switches

--------------------------------------------------------------------------------
(***************************************************************************)
(* Types, by the part of the state.                                        *)
(***************************************************************************)
SettingsTypes == {disk, persisted, draft, snapshot, runtime} \subseteq AllSettings

FlagTypes ==
    /\ {loadError, news, edited, retrying, hidden, woken, marked, unseen} \subseteq BOOLEAN
    /\ ui \in {"idle", "apply", "requeue", "publish"}
    /\ retryAt \in {"none", "later", "now"}

HolderTypes == fresh \subseteq {"draft", "snapshot", "runtime", "pending", "taken"}

ProposalTypes == taken \subseteq Apps /\ pending \subseteq told /\ told \subseteq Apps /\ taken \subseteq told

ConsentTypes == consent \in [master : BOOLEAN, feature : [Sources -> BOOLEAN]]

BoundTypes == faults \in 0 .. MaxFaults /\ changes \in 0 .. MaxChanges /\ restarts \in 0 .. MaxRestarts

LEMMA TypeParts ==
    TypeOK /\ ProposalsOK <=>
        SettingsTypes /\ FlagTypes /\ HolderTypes /\ ProposalTypes /\ ConsentTypes /\ BoundTypes
BY DEF TypeOK, ProposalsOK, SettingsTypes, FlagTypes, HolderTypes, ProposalTypes, ConsentTypes,
       BoundTypes

--------------------------------------------------------------------------------
(***************************************************************************)
(* The parts that several actions share.                                   *)
(***************************************************************************)
\* A snapshot is what the draft and the saved settings make, if it was before or is made anew.
LEMMA RefreshKeeps ==
    ASSUME SettingsTypes, FlagTypes,
           NEW value \in AllSettings, NEW saved \in AllSettings,
           NEW dirty \in BOOLEAN, NEW current \in BOOLEAN,
           Refresh(value, dirty, saved, current),
           ~dirty /\ current => snapshot = Projected(value, saved)
    PROVE  /\ snapshot' = Projected(value, saved) /\ snapshot' \in AllSettings
           /\ edited' = FALSE /\ news' \in BOOLEAN
           /\ ~news' => ~news /\ snapshot' = snapshot
<1>1. snapshot' = Projected(value, saved)
  BY DEF Refresh
<1>2. Projected(value, saved) \in AllSettings
  BY ProjectedFields
<1>3. edited' = FALSE /\ news' = (news \/ snapshot' # snapshot)
  BY DEF Refresh
<1> QED  BY <1>1, <1>2, <1>3 DEF FlagTypes

\* What an adoption or an accepted patch leaves: settings of their type, a file that holds
\* what counts as saved, a snapshot of it, and no holder of an old revision.
Kept ==
    /\ {disk', persisted', draft', snapshot'} \subseteq AllSettings
    /\ loadError' \in BOOLEAN /\ news' \in BOOLEAN /\ edited' \in BOOLEAN
    /\ SavedIsStored' /\ SnapshotOK'
    /\ HolderTypes' /\ "draft" \in fresh' /\ ("runtime" \in fresh' => fresh \subseteq fresh')

LEMMA AdoptKeeps ==
    ASSUME SettingsTypes, FlagTypes, SnapshotOK, NEW s \in AllSettings, Store(s), Adopt(s),
           UNCHANGED runtime
    PROVE  Kept
<1>1. /\ disk' = s /\ persisted' = s /\ draft' = s /\ loadError' = FALSE
      /\ fresh' = {"draft", "snapshot"} /\ Refresh(s, TRUE, s, FALSE)
  BY DEF Store, Adopt, Advance
<1>2. /\ snapshot' = Projected(s, s) /\ snapshot' \in AllSettings /\ edited' = FALSE
      /\ news' \in BOOLEAN /\ (~news' => ~news /\ snapshot' = snapshot)
  BY <1>1, RefreshKeeps
<1>3. SnapshotOK'
  BY <1>1, <1>2 DEF SnapshotOK
<1> QED  BY <1>1, <1>2, <1>3 DEF Kept, SavedIsStored, HolderTypes

LEMMA UnpatchedKeeps ==
    ASSUME SettingsTypes, FlagTypes, HolderTypes, SavedIsStored, SnapshotOK, FreshOK, Unpatched,
           UNCHANGED runtime
    PROVE  Kept
BY DEF Unpatched, editorVars, snapshotVars, Kept, SettingsTypes, FlagTypes, HolderTypes,
       SavedIsStored, SnapshotOK, FreshOK

LEMMA SucceedsKeeps ==
    ASSUME SettingsTypes, FlagTypes, HolderTypes, SavedIsStored, SnapshotOK, FreshOK,
           NEW patch \in Patches, Succeeds(patch), UNCHANGED runtime
    PROVE  Kept
<1>1. CASE Unpatched
  BY <1>1, UnpatchedKeeps
<1>2. CASE /\ ~loadError /\ Store(Stored(patch))
           /\ persisted' = Stored(patch) /\ draft' = Patched(draft, patch)
           /\ Advance({"draft", "snapshot"}) /\ Refresh(draft', TRUE, persisted', FALSE)
           /\ UNCHANGED loadError
  <2>1. Stored(patch) \in AllSettings /\ Patched(draft, patch) \in AllSettings
    BY PatchedType DEF Stored, SettingsTypes
  <2>2. /\ persisted' \in AllSettings /\ draft' \in AllSettings /\ disk' = persisted'
        /\ fresh' = {"draft", "snapshot"}
    BY <1>2, <2>1 DEF Store, Advance
  <2>3. /\ snapshot' = Projected(draft', persisted') /\ snapshot' \in AllSettings
        /\ edited' = FALSE /\ news' \in BOOLEAN /\ (~news' => ~news /\ snapshot' = snapshot)
    BY <1>2, <2>2, RefreshKeeps
  <2>4. SnapshotOK'
    BY <2>3 DEF SnapshotOK
  <2> QED  BY <1>2, <2>2, <2>3, <2>4 DEF Kept, SavedIsStored, HolderTypes, FlagTypes
<1>3. CASE /\ draft' = Patched(draft, patch) /\ fresh' = fresh \cup {"draft", "snapshot"}
           /\ Refresh(draft', TRUE, persisted, "snapshot" \in fresh)
           /\ UNCHANGED <<fileVars, persisted, loadError>>
  <2>1. draft' \in AllSettings /\ persisted \in AllSettings
    BY <1>3, PatchedType DEF SettingsTypes
  <2>2. disk' = disk /\ persisted' = persisted /\ loadError' = loadError
    BY <1>3 DEF fileVars
  <2>3. /\ snapshot' = Projected(draft', persisted) /\ snapshot' \in AllSettings
        /\ edited' = FALSE /\ news' \in BOOLEAN /\ (~news' => ~news /\ snapshot' = snapshot)
    BY <1>3, <2>1, ProjectedFields DEF Refresh, FlagTypes
  <2>4. SnapshotOK'
    BY <2>2, <2>3 DEF SnapshotOK
  <2>5. SavedIsStored'
    BY <2>2 DEF SavedIsStored
  <2> QED  BY <1>3, <2>1, <2>2, <2>3, <2>4, <2>5 DEF Kept, HolderTypes, FlagTypes, SettingsTypes
<1> QED  BY <1>1, <1>2, <1>3 DEF Succeeds

LEMMA FaultCounts ==
    ASSUME faults \in 0 .. MaxFaults, Fault \/ UNCHANGED faults  PROVE faults' \in 0 .. MaxFaults
BY SettingsAssumption DEF Fault

\* Patches that the tray and the runtime make.
LEMMA PatchKinds ==
    /\ Switches \subseteq Patches
    /\ taken \subseteq Apps => Exclusion(taken) \in Patches
BY DEF Patches

LEMMA ImportType == ASSUME NEW s \in {Default, [Default EXCEPT !.plugged.feature = TRUE]}  PROVE s \in AllSettings
<1> DEFINE p == [Default.plugged EXCEPT !.feature = TRUE]
<1>1. [Default EXCEPT !.plugged.feature = TRUE] = [Default EXCEPT !.plugged = p]
  OBVIOUS
<1>2. p \in Profiles
  BY DefaultType DEF AllSettings, Profiles
<1> HIDE DEF p
<1>3. [Default EXCEPT !.plugged = p] \in AllSettings
  BY <1>2, DefaultType DEF AllSettings
<1> QED  BY <1>1, <1>3, DefaultType

LEMMA PatchEnds ==
    ASSUME SettingsTypes, FlagTypes, HolderTypes, SavedIsStored, SnapshotOK, FreshOK,
           NEW patch \in Patches, UNCHANGED runtime,
           Succeeds(patch) \/ Refused(patch) \/ (Unpatched /\ UNCHANGED faults)
    PROVE  Kept /\ (Fault \/ UNCHANGED faults)
<1>1. CASE Succeeds(patch)
  <2>1. UNCHANGED faults
    BY <1>1 DEF Succeeds, Store, fileVars
  <2> QED  BY <1>1, <2>1, SucceedsKeeps
<1>2. CASE Refused(patch)
  BY <1>2, UnpatchedKeeps DEF Refused
<1>3. CASE Unpatched /\ UNCHANGED faults
  BY <1>3, UnpatchedKeeps
<1> QED  BY <1>1, <1>2, <1>3

\* The steps that may write settings leave them in order.
LEMMA WritesKeep ==
    ASSUME SettingsTypes, FlagTypes, HolderTypes, ProposalTypes, SavedIsStored, SnapshotOK, FreshOK,
           Save \/ Import \/ Cancel \/ MenuAction \/ ApplyExclusions
    PROVE  Kept /\ (Fault \/ UNCHANGED faults) /\ UNCHANGED runtime
<1>1. CASE Save
  <2>1. UNCHANGED runtime
    BY <1>1 DEF Save
  <2>2. CASE Fault /\ UNCHANGED <<disk, editorVars, snapshotVars, fresh>>
    BY <2>1, <2>2, UnpatchedKeeps DEF Unpatched
  <2>3. CASE Store(draft) /\ Adopt(draft)
    BY <2>1, <2>3, AdoptKeeps DEF SettingsTypes, Store
  <2> QED  BY <1>1, <2>1, <2>2, <2>3 DEF Save
<1>2. CASE Import
  <2>1. UNCHANGED runtime
    BY <1>2 DEF Import
  <2>2. CASE Fault /\ UNCHANGED <<disk, editorVars, snapshotVars, fresh>>
    BY <2>1, <2>2, UnpatchedKeeps DEF Unpatched
  <2>3. ASSUME NEW s \in {Default, [Default EXCEPT !.plugged.feature = TRUE]}, Store(s), Adopt(s)
        PROVE  Kept
    <3>1. s \in AllSettings
      BY ImportType
    <3> QED  BY <2>1, <2>3, <3>1, AdoptKeeps
  <2> QED  BY <1>2, <2>1, <2>2, <2>3 DEF Import, Store
<1>3. CASE Cancel
  <2>1. /\ UNCHANGED <<runtime, disk, faults, persisted, loadError>> /\ draft' = persisted
        /\ fresh' = fresh \cup {"draft", "snapshot"}
        /\ Refresh(persisted, TRUE, persisted, "snapshot" \in fresh)
    BY <1>3 DEF Cancel, CancelRefresh, fileVars
  <2>2. persisted \in AllSettings /\ disk \in AllSettings
    BY DEF SettingsTypes
  <2>3. /\ snapshot' = Projected(persisted, persisted) /\ snapshot' \in AllSettings
        /\ edited' = FALSE /\ news' \in BOOLEAN /\ (~news' => ~news /\ snapshot' = snapshot)
    BY <2>1, <2>2, ProjectedFields DEF Refresh, FlagTypes
  <2>4. SnapshotOK'
    BY <2>1, <2>3 DEF SnapshotOK
  <2>5. SavedIsStored'
    BY <2>1 DEF SavedIsStored
  <2> QED  BY <2>1, <2>2, <2>3, <2>4, <2>5 DEF Kept, HolderTypes, FlagTypes
<1>4. CASE MenuAction
  <2>1. UNCHANGED runtime
    BY <1>4 DEF MenuAction
  <2>2. PICK patch \in Switches :
            \/ Succeeds(patch)
            \/ Refused(patch)
            \/ Unpatched /\ UNCHANGED faults
    BY <1>4 DEF MenuAction
  <2> QED  BY <2>1, <2>2, PatchEnds, PatchKinds
<1>5. CASE ApplyExclusions
  <2>1. UNCHANGED runtime
    BY <1>5 DEF ApplyExclusions
  <2>2. \/ Succeeds(Exclusion(taken))
        \/ Refused(Exclusion(taken))
        \/ Unpatched /\ UNCHANGED faults
    BY <1>5 DEF ApplyExclusions
  <2>3. Exclusion(taken) \in Patches
    BY PatchKinds DEF ProposalTypes
  <2> QED  BY <2>1, <2>2, <2>3, PatchEnds
<1> QED  BY <1>1, <1>2, <1>3, <1>4, <1>5

\* Such a step leads to a publication, or it changes nothing that matters here.
LEMMA WriteEnds ==
    ASSUME Save \/ Import \/ Cancel \/ MenuAction \/ ApplyExclusions
    PROVE  /\ ui # "publish"
           /\ \/ ui' = "publish"
              \/ /\ UNCHANGED <<disk, editorVars, snapshotVars, fresh, consent>>
                 /\ ui' \in {"idle", "requeue"}
           /\ UNCHANGED <<runtime, patchVars, taken, told, restarts>>
<1>1. CASE Save
  BY <1>1 DEF Save, Goto, patchVars
<1>2. CASE Import
  BY <1>2 DEF Import, Goto, patchVars
<1>3. CASE Cancel
  BY <1>3 DEF Cancel, Goto, patchVars
<1>4. CASE MenuAction
  <2>1. PICK patch \in Switches :
            \/ Goto("publish")
            \/ /\ Refused(patch) \/ Unpatched
               /\ UNCHANGED <<ui, consent>>
    BY <1>4 DEF MenuAction
  <2>2. Refused(patch) \/ Unpatched => UNCHANGED <<disk, editorVars, snapshotVars, fresh>>
    BY DEF Refused, Unpatched
  <2>3. ui = "idle" /\ UNCHANGED <<runtime, patchVars, taken, told, restarts>>
    BY <1>4 DEF MenuAction
  <2> QED  BY <2>1, <2>2, <2>3 DEF Goto
<1>5. CASE ApplyExclusions
  <2>1. \/ Goto("publish")
        \/ /\ Refused(Exclusion(taken)) \/ Unpatched
           /\ Goto("requeue")
    BY <1>5 DEF ApplyExclusions
  <2>2. Refused(Exclusion(taken)) \/ Unpatched => UNCHANGED <<disk, editorVars, snapshotVars, fresh>>
    BY DEF Refused, Unpatched
  <2>3. ui = "apply" /\ UNCHANGED <<runtime, patchVars, taken, told, consent, restarts>>
    BY <1>5 DEF ApplyExclusions
  <2> QED  BY <2>1, <2>2, <2>3 DEF Goto
<1> QED  BY <1>1, <1>2, <1>3, <1>4, <1>5

\* What the runtime is given by a publication.
LEMMA PublishKeeps ==
    ASSUME SettingsTypes, FlagTypes, SnapshotOK, Publish
    PROVE  /\ snapshot' = Projected(draft, persisted) /\ snapshot' \in AllSettings
           /\ runtime' = snapshot' /\ edited' = FALSE /\ news' \in BOOLEAN
<1>1. Refresh(draft, edited, persisted, "snapshot" \in fresh)
  BY DEF Publish
<1>2. draft \in AllSettings /\ persisted \in AllSettings /\ edited \in BOOLEAN /\ news \in BOOLEAN
  BY DEF SettingsTypes, FlagTypes
<1>3. Projected(draft, persisted) \in AllSettings
  BY <1>2, ProjectedFields
<1>4. snapshot' = Projected(draft, persisted) /\ edited' = FALSE /\ news' = (news \/ snapshot' # snapshot)
  BY <1>1, <1>2 DEF Refresh, SnapshotOK
<1>5. runtime' = snapshot'
  BY <1>4 DEF Publish, SnapshotOK
<1> QED  BY <1>2, <1>3, <1>4, <1>5

\* A start leaves one copy of the settings everywhere.
LEMMA RestartKeeps ==
    ASSUME SettingsTypes, Restart
    PROVE  /\ persisted' \in AllSettings /\ disk' = disk /\ loadError' \in BOOLEAN
           /\ loadError' \/ persisted' = disk
           /\ draft' = persisted' /\ snapshot' = persisted' /\ runtime' = persisted'
           /\ news' = FALSE /\ edited' = FALSE
           /\ Projected(draft', persisted') = persisted'
<1>1. ASSUME NEW s \in AllSettings, NEW error \in BOOLEAN, Loaded(s, error)
      PROVE  /\ persisted' = s /\ draft' = s /\ snapshot' = s /\ runtime' = s
             /\ loadError' = error /\ news' = FALSE /\ edited' = FALSE
             /\ Projected(draft', persisted') = s
  BY <1>1, ProjectedSelf DEF Loaded
<1>2. disk \in AllSettings /\ Default \in AllSettings
  BY DefaultType DEF SettingsTypes
<1>3. disk' = disk /\ (Loaded(disk, FALSE) \/ Loaded(Default, TRUE))
  BY DEF Restart
<1>4. CASE Loaded(disk, FALSE)
  BY <1>1, <1>2, <1>3, <1>4
<1>5. CASE Loaded(Default, TRUE)
  BY <1>1, <1>2, <1>3, <1>5
<1> QED  BY <1>3, <1>4, <1>5

--------------------------------------------------------------------------------
(***************************************************************************)
(* The steps.                                                              *)
(***************************************************************************)
\* Whatever holds settings holds settings.
LEMMA SettingsTypesStep ==
    IInv /\ [Next]_vars => SettingsTypes'
<1> SUFFICES ASSUME IInv, [Next]_vars PROVE SettingsTypes'
  OBVIOUS
<1>0. /\ SettingsTypes /\ FlagTypes /\ HolderTypes /\ ProposalTypes /\ ConsentTypes /\ BoundTypes
      /\ SavedIsStored /\ FreshOK /\ SnapshotOK /\ ObeyedOK /\ ConsentOK
  BY TypeParts DEF IInv
<1>1. CASE EditPolicy
  <2>1. PICK source \in Sources, profile \in Profiles :
            draft' = [IF source = "battery" THEN Split(draft) ELSE draft EXCEPT ![source] = profile]
    BY <1>1 DEF EditPolicy
  <2> DEFINE s == IF source = "battery" THEN Split(draft) ELSE draft
  <2>2. s \in AllSettings
    BY <1>0, SplitFields DEF SettingsTypes
  <2>3. draft' = [s EXCEPT ![source] = profile]
    BY <2>1
  <2> HIDE DEF s
  <2>4. draft' \in AllSettings
    BY <2>2, <2>3 DEF Sources, AllSettings
  <2>5. UNCHANGED <<disk, persisted, snapshot, runtime>>
    BY <1>1 DEF EditPolicy, fileVars
  <2> QED  BY <1>0, <2>4, <2>5 DEF SettingsTypes
<1>2. CASE EditGlobal
  <2>1. [draft EXCEPT !.tuning = ~@] \in AllSettings
    BY <1>0 DEF SettingsTypes, AllSettings
  <2> QED  BY <1>2, <1>0, <2>1 DEF EditGlobal, SettingsTypes, fileVars
<1>3. CASE Save
  BY <1>3, <1>0, WritesKeep DEF Kept, SettingsTypes
<1>4. CASE Import
  BY <1>4, <1>0, WritesKeep DEF Kept, SettingsTypes
<1>5. CASE Cancel
  BY <1>5, <1>0, WritesKeep DEF Kept, SettingsTypes
<1>6. CASE MenuAction
  BY <1>6, <1>0, WritesKeep DEF Kept, SettingsTypes
<1>7. CASE ShowOrHide
  BY <1>7, <1>0 DEF SettingsTypes, fileVars, editorVars, snapshotVars, uiVars, patchVars,
     ShowOrHide
<1>8. CASE Tick
  BY <1>8, <1>0 DEF SettingsTypes, fileVars, editorVars, snapshotVars, uiVars, patchVars, Tick
<1>9. CASE ApplyExclusions
  BY <1>9, <1>0, WritesKeep DEF Kept, SettingsTypes
<1>10. CASE Requeue
  BY <1>10, <1>0 DEF SettingsTypes, fileVars, editorVars, snapshotVars, uiVars, patchVars,
     Requeue
<1>11. CASE Publish
  BY <1>11, <1>0, PublishKeeps DEF Publish, SettingsTypes, fileVars, editorVars
<1>12. CASE Propose
  BY <1>12, <1>0 DEF SettingsTypes, fileVars, editorVars, snapshotVars, uiVars, patchVars,
     Propose
<1>13. CASE DeadlinePasses
  BY <1>13, <1>0 DEF SettingsTypes, fileVars, editorVars, snapshotVars, uiVars, patchVars,
     DeadlinePasses
<1>14. CASE Restart
  BY <1>14, <1>0, RestartKeeps DEF SettingsTypes
<1>15. CASE UNCHANGED vars
  BY <1>15, <1>0 DEF SettingsTypes, fileVars, editorVars, snapshotVars, uiVars, patchVars, vars
<1> QED  BY <1>1, <1>2, <1>3, <1>4, <1>5, <1>6, <1>7, <1>8, <1>9, <1>10, <1>11, <1>12, <1>13, <1>14,
   <1>15, NextCases

\* The flags keep their types.
LEMMA FlagTypesStep ==
    IInv /\ [Next]_vars => FlagTypes'
<1> SUFFICES ASSUME IInv, [Next]_vars PROVE FlagTypes'
  OBVIOUS
<1>0. /\ SettingsTypes /\ FlagTypes /\ HolderTypes /\ ProposalTypes /\ ConsentTypes /\ BoundTypes
      /\ SavedIsStored /\ FreshOK /\ SnapshotOK /\ ObeyedOK /\ ConsentOK
  BY TypeParts DEF IInv
<1>1. CASE EditPolicy
  BY <1>1, <1>0 DEF FlagTypes, fileVars, editorVars, snapshotVars, uiVars, patchVars, EditPolicy
<1>2. CASE EditGlobal
  BY <1>2, <1>0 DEF FlagTypes, fileVars, editorVars, snapshotVars, uiVars, patchVars, EditGlobal
<1>3. CASE Save
  <2>1. retrying' \in BOOLEAN /\ hidden' \in BOOLEAN /\ woken' \in BOOLEAN
    BY <1>3, <1>0 DEF Save, FlagTypes
  <2>2. ui' \in {"idle", "apply", "requeue", "publish"}
    BY <1>3, WriteEnds
  <2>3. loadError' \in BOOLEAN /\ news' \in BOOLEAN /\ edited' \in BOOLEAN
    BY <1>3, <1>0, WritesKeep DEF Kept
  <2>4. UNCHANGED <<marked, unseen, retryAt>>
    BY <1>3, WriteEnds DEF patchVars
  <2> QED  BY <1>0, <2>1, <2>2, <2>3, <2>4 DEF FlagTypes
<1>4. CASE Import
  <2>1. retrying' \in BOOLEAN /\ hidden' \in BOOLEAN /\ woken' \in BOOLEAN
    BY <1>4, <1>0 DEF Import, FlagTypes
  <2>2. ui' \in {"idle", "apply", "requeue", "publish"}
    BY <1>4, WriteEnds
  <2>3. loadError' \in BOOLEAN /\ news' \in BOOLEAN /\ edited' \in BOOLEAN
    BY <1>4, <1>0, WritesKeep DEF Kept
  <2>4. UNCHANGED <<marked, unseen, retryAt>>
    BY <1>4, WriteEnds DEF patchVars
  <2> QED  BY <1>0, <2>1, <2>2, <2>3, <2>4 DEF FlagTypes
<1>5. CASE Cancel
  <2>1. retrying' \in BOOLEAN /\ hidden' \in BOOLEAN /\ woken' \in BOOLEAN
    BY <1>5, <1>0 DEF Cancel, FlagTypes
  <2>2. ui' \in {"idle", "apply", "requeue", "publish"}
    BY <1>5, WriteEnds
  <2>3. loadError' \in BOOLEAN /\ news' \in BOOLEAN /\ edited' \in BOOLEAN
    BY <1>5, <1>0, WritesKeep DEF Kept
  <2>4. UNCHANGED <<marked, unseen, retryAt>>
    BY <1>5, WriteEnds DEF patchVars
  <2> QED  BY <1>0, <2>1, <2>2, <2>3, <2>4 DEF FlagTypes
<1>6. CASE MenuAction
  <2>1. retrying' \in BOOLEAN /\ hidden' \in BOOLEAN /\ woken' \in BOOLEAN
    BY <1>6, <1>0 DEF MenuAction, FlagTypes
  <2>2. ui' \in {"idle", "apply", "requeue", "publish"}
    BY <1>6, WriteEnds
  <2>3. loadError' \in BOOLEAN /\ news' \in BOOLEAN /\ edited' \in BOOLEAN
    BY <1>6, <1>0, WritesKeep DEF Kept
  <2>4. UNCHANGED <<marked, unseen, retryAt>>
    BY <1>6, WriteEnds DEF patchVars
  <2> QED  BY <1>0, <2>1, <2>2, <2>3, <2>4 DEF FlagTypes
<1>7. CASE ShowOrHide
  BY <1>7, <1>0 DEF FlagTypes, fileVars, editorVars, snapshotVars, uiVars, patchVars, ShowOrHide
<1>8. CASE Tick
  <2>1. UNCHANGED <<loadError, news, edited, retrying, hidden>> /\ woken' = FALSE
    BY <1>8 DEF Tick, editorVars, snapshotVars
  <2>2. ui' \in {ui, "apply"} /\ retryAt' \in {retryAt, "none"}
    BY <1>8 DEF Tick, patchVars, Goto
  <2>3. marked' \in {marked, FALSE} /\ unseen' \in {unseen, FALSE}
    BY <1>8 DEF Tick, patchVars
  <2> QED  BY <1>0, <2>1, <2>2, <2>3 DEF FlagTypes
<1>9. CASE ApplyExclusions
  <2>1. retrying' \in BOOLEAN /\ hidden' \in BOOLEAN /\ woken' \in BOOLEAN
    BY <1>9, <1>0 DEF ApplyExclusions, FlagTypes
  <2>2. ui' \in {"idle", "apply", "requeue", "publish"}
    BY <1>9, WriteEnds
  <2>3. loadError' \in BOOLEAN /\ news' \in BOOLEAN /\ edited' \in BOOLEAN
    BY <1>9, <1>0, WritesKeep DEF Kept
  <2>4. UNCHANGED <<marked, unseen, retryAt>>
    BY <1>9, WriteEnds DEF patchVars
  <2> QED  BY <1>0, <2>1, <2>2, <2>3, <2>4 DEF FlagTypes
<1>10. CASE Requeue
  BY <1>10, <1>0 DEF FlagTypes, fileVars, editorVars, snapshotVars, uiVars, patchVars, Requeue,
     Announce, Goto
<1>11. CASE Publish
  <2>1. UNCHANGED <<loadError, retrying, hidden, woken, marked, unseen, retryAt>> /\ ui' = "idle"
    BY <1>11 DEF Publish, editorVars, patchVars, Goto
  <2> QED  BY <1>11, <1>0, <2>1, PublishKeeps DEF FlagTypes
<1>12. CASE Propose
  BY <1>12, <1>0 DEF FlagTypes, fileVars, editorVars, snapshotVars, uiVars, patchVars, Propose
<1>13. CASE DeadlinePasses
  BY <1>13, <1>0 DEF FlagTypes, fileVars, editorVars, snapshotVars, uiVars, patchVars,
     DeadlinePasses
<1>14. CASE Restart
  <2>1. /\ ui' = "idle" /\ retrying' = FALSE /\ hidden' \in BOOLEAN /\ marked' = FALSE
        /\ retryAt' = "none" /\ unseen' = FALSE /\ woken' = FALSE
    BY <1>14 DEF Restart
  <2> QED  BY <1>14, <1>0, <2>1, RestartKeeps DEF FlagTypes
<1>15. CASE UNCHANGED vars
  BY <1>15, <1>0 DEF FlagTypes, fileVars, editorVars, snapshotVars, uiVars, patchVars, vars
<1> QED  BY <1>1, <1>2, <1>3, <1>4, <1>5, <1>6, <1>7, <1>8, <1>9, <1>10, <1>11, <1>12, <1>13, <1>14,
   <1>15, NextCases

\* Only holders hold.
LEMMA HolderTypesStep ==
    IInv /\ [Next]_vars => HolderTypes'
<1> SUFFICES ASSUME IInv, [Next]_vars PROVE HolderTypes'
  OBVIOUS
<1>0. /\ SettingsTypes /\ FlagTypes /\ HolderTypes /\ ProposalTypes /\ ConsentTypes /\ BoundTypes
      /\ SavedIsStored /\ FreshOK /\ SnapshotOK /\ ObeyedOK /\ ConsentOK
  BY TypeParts DEF IInv
<1>1. CASE EditPolicy
  BY <1>1, <1>0 DEF HolderTypes, fileVars, editorVars, snapshotVars, uiVars, patchVars,
     EditPolicy
<1>2. CASE EditGlobal
  BY <1>2, <1>0 DEF HolderTypes, fileVars, editorVars, snapshotVars, uiVars, patchVars,
     EditGlobal
<1>3. CASE Save
  BY <1>3, <1>0, WritesKeep DEF Kept
<1>4. CASE Import
  BY <1>4, <1>0, WritesKeep DEF Kept
<1>5. CASE Cancel
  BY <1>5, <1>0, WritesKeep DEF Kept
<1>6. CASE MenuAction
  BY <1>6, <1>0, WritesKeep DEF Kept
<1>7. CASE ShowOrHide
  BY <1>7, <1>0 DEF HolderTypes, fileVars, editorVars, snapshotVars, uiVars, patchVars,
     ShowOrHide
<1>8. CASE Tick
  BY <1>8, <1>0 DEF HolderTypes, fileVars, editorVars, snapshotVars, uiVars, patchVars, Tick
<1>9. CASE ApplyExclusions
  BY <1>9, <1>0, WritesKeep DEF Kept
<1>10. CASE Requeue
  BY <1>10, <1>0 DEF HolderTypes, fileVars, editorVars, snapshotVars, uiVars, patchVars, Requeue
<1>11. CASE Publish
  BY <1>11, <1>0 DEF HolderTypes, fileVars, editorVars, snapshotVars, uiVars, patchVars,
     Publish, Renewed
<1>12. CASE Propose
  BY <1>12, <1>0 DEF HolderTypes, fileVars, editorVars, snapshotVars, uiVars, patchVars, Propose
<1>13. CASE DeadlinePasses
  BY <1>13, <1>0 DEF HolderTypes, fileVars, editorVars, snapshotVars, uiVars, patchVars,
     DeadlinePasses
<1>14. CASE Restart
  BY <1>14, <1>0 DEF HolderTypes, fileVars, editorVars, snapshotVars, uiVars, patchVars, Restart
<1>15. CASE UNCHANGED vars
  BY <1>15, <1>0 DEF HolderTypes, fileVars, editorVars, snapshotVars, uiVars, patchVars, vars
<1> QED  BY <1>1, <1>2, <1>3, <1>4, <1>5, <1>6, <1>7, <1>8, <1>9, <1>10, <1>11, <1>12, <1>13, <1>14,
   <1>15, NextCases

\* What waits, and what the window took, was proposed.
LEMMA ProposalTypesStep ==
    IInv /\ [Next]_vars => ProposalTypes'
<1> SUFFICES ASSUME IInv, [Next]_vars PROVE ProposalTypes'
  OBVIOUS
<1>0. /\ SettingsTypes /\ FlagTypes /\ HolderTypes /\ ProposalTypes /\ ConsentTypes /\ BoundTypes
      /\ SavedIsStored /\ FreshOK /\ SnapshotOK /\ ObeyedOK /\ ConsentOK
  BY TypeParts DEF IInv
<1>1. CASE EditPolicy
  BY <1>1, <1>0 DEF ProposalTypes, fileVars, editorVars, snapshotVars, uiVars, patchVars,
     EditPolicy
<1>2. CASE EditGlobal
  BY <1>2, <1>0 DEF ProposalTypes, fileVars, editorVars, snapshotVars, uiVars, patchVars,
     EditGlobal
<1>3. CASE Save
  BY <1>3, <1>0, WriteEnds DEF ProposalTypes, patchVars
<1>4. CASE Import
  BY <1>4, <1>0, WriteEnds DEF ProposalTypes, patchVars
<1>5. CASE Cancel
  BY <1>5, <1>0, WriteEnds DEF ProposalTypes, patchVars
<1>6. CASE MenuAction
  BY <1>6, <1>0, WriteEnds DEF ProposalTypes, patchVars
<1>7. CASE ShowOrHide
  BY <1>7, <1>0 DEF ProposalTypes, fileVars, editorVars, snapshotVars, uiVars, patchVars,
     ShowOrHide
<1>8. CASE Tick
  BY <1>8, <1>0 DEF ProposalTypes, fileVars, editorVars, snapshotVars, uiVars, patchVars, Tick
<1>9. CASE ApplyExclusions
  BY <1>9, <1>0, WriteEnds DEF ProposalTypes, patchVars
<1>10. CASE Requeue
  BY <1>10, <1>0 DEF ProposalTypes, fileVars, editorVars, snapshotVars, uiVars, patchVars,
     Requeue
<1>11. CASE Publish
  BY <1>11, <1>0 DEF ProposalTypes, fileVars, editorVars, snapshotVars, uiVars, patchVars,
     Publish
<1>12. CASE Propose
  BY <1>12, <1>0 DEF ProposalTypes, fileVars, editorVars, snapshotVars, uiVars, patchVars,
     Propose
<1>13. CASE DeadlinePasses
  BY <1>13, <1>0 DEF ProposalTypes, fileVars, editorVars, snapshotVars, uiVars, patchVars,
     DeadlinePasses
<1>14. CASE Restart
  BY <1>14, <1>0 DEF ProposalTypes, fileVars, editorVars, snapshotVars, uiVars, patchVars,
     Restart
<1>15. CASE UNCHANGED vars
  BY <1>15, <1>0 DEF ProposalTypes, fileVars, editorVars, snapshotVars, uiVars, patchVars, vars
<1> QED  BY <1>1, <1>2, <1>3, <1>4, <1>5, <1>6, <1>7, <1>8, <1>9, <1>10, <1>11, <1>12, <1>13, <1>14,
   <1>15, NextCases

\* The user's wish keeps its type.
LEMMA ConsentTypesStep ==
    IInv /\ [Next]_vars => ConsentTypes'
<1> SUFFICES ASSUME IInv, [Next]_vars PROVE ConsentTypes'
  OBVIOUS
<1>0. /\ SettingsTypes /\ FlagTypes /\ HolderTypes /\ ProposalTypes /\ ConsentTypes /\ BoundTypes
      /\ SavedIsStored /\ FreshOK /\ SnapshotOK /\ ObeyedOK /\ ConsentOK
  BY TypeParts DEF IInv
<1>1. CASE EditPolicy
  BY <1>1, <1>0 DEF ConsentTypes, EditPolicy
<1>2. CASE EditGlobal
  BY <1>2, <1>0 DEF ConsentTypes, EditGlobal
<1>3. CASE Save
  <2>1. consent' = consent \/ consent' = Agreed(draft)
    BY <1>3 DEF Save
  <2>2. draft \in AllSettings
    BY <1>0 DEF SettingsTypes
  <2> QED  BY <1>0, <2>1, <2>2, AgreedType DEF ConsentTypes
<1>4. CASE Import
  <2>1. \/ consent' = consent
        \/ \E s \in {Default, [Default EXCEPT !.plugged.feature = TRUE]} : consent' = Agreed(s)
    BY <1>4 DEF Import
  <2> QED  BY <1>0, <2>1, ImportType, AgreedType DEF ConsentTypes
<1>5. CASE Cancel
  BY <1>5, <1>0 DEF ConsentTypes, Cancel
<1>6. CASE MenuAction
  <2>1. PICK patch \in Switches : consent' = consent \/ consent' = Agree(patch)
    BY <1>6 DEF MenuAction
  <2>2. ASSUME NEW b \in BOOLEAN
        PROVE  Agree(Master(b)) \in [master : BOOLEAN, feature : [Sources -> BOOLEAN]]
    BY <1>0 DEF Agree, Master, ConsentTypes
  <2>3. ASSUME NEW b \in BOOLEAN, NEW source \in Sources
        PROVE  Agree(Switch(source, b)) \in [master : BOOLEAN, feature : [Sources -> BOOLEAN]]
    <3> DEFINE f == [consent.feature EXCEPT ![source] = b]
    <3>1. Agree(Switch(source, b)) = [consent EXCEPT !.feature = f]
      BY DEF Agree, Switch
    <3>2. f \in [Sources -> BOOLEAN]
      BY <1>0 DEF ConsentTypes
    <3> HIDE DEF f
    <3> QED  BY <1>0, <3>1, <3>2 DEF ConsentTypes
  <2>4. Agree(patch) \in [master : BOOLEAN, feature : [Sources -> BOOLEAN]]
    BY <2>2, <2>3 DEF Switches
  <2>5. CASE consent' = consent
    BY <1>0, <2>5 DEF ConsentTypes
  <2>6. CASE consent' = Agree(patch)
    BY <2>4, <2>6 DEF ConsentTypes
  <2> QED  BY <2>1, <2>5, <2>6
<1>7. CASE ShowOrHide
  BY <1>7, <1>0 DEF ConsentTypes, ShowOrHide
<1>8. CASE Tick
  BY <1>8, <1>0 DEF ConsentTypes, Tick
<1>9. CASE ApplyExclusions
  BY <1>9, <1>0 DEF ConsentTypes, ApplyExclusions
<1>10. CASE Requeue
  BY <1>10, <1>0 DEF ConsentTypes, Requeue
<1>11. CASE Publish
  BY <1>11, <1>0 DEF ConsentTypes, Publish
<1>12. CASE Propose
  BY <1>12, <1>0 DEF ConsentTypes, Propose
<1>13. CASE DeadlinePasses
  BY <1>13, <1>0 DEF ConsentTypes, DeadlinePasses
<1>14. CASE Restart
  BY <1>14, <1>0 DEF ConsentTypes, Restart
<1>15. CASE UNCHANGED vars
  BY <1>15, <1>0 DEF ConsentTypes, vars
<1> QED  BY <1>1, <1>2, <1>3, <1>4, <1>5, <1>6, <1>7, <1>8, <1>9, <1>10, <1>11, <1>12, <1>13, <1>14,
   <1>15, NextCases

\* The counters stay within their bounds.
LEMMA BoundTypesStep ==
    IInv /\ [Next]_vars => BoundTypes'
<1> SUFFICES ASSUME IInv, [Next]_vars PROVE BoundTypes'
  OBVIOUS
<1>0. /\ SettingsTypes /\ FlagTypes /\ HolderTypes /\ ProposalTypes /\ ConsentTypes /\ BoundTypes
      /\ SavedIsStored /\ FreshOK /\ SnapshotOK /\ ObeyedOK /\ ConsentOK
  BY TypeParts DEF IInv
<1>1. CASE EditPolicy
  BY <1>1, <1>0, SettingsAssumption DEF BoundTypes, fileVars, EditPolicy, Change
<1>2. CASE EditGlobal
  BY <1>2, <1>0, SettingsAssumption DEF BoundTypes, fileVars, EditGlobal, Change
<1>3. CASE Save
  <2>1. faults' \in 0 .. MaxFaults
    BY <1>3, <1>0, WritesKeep, FaultCounts DEF BoundTypes
  <2>2. UNCHANGED changes /\ UNCHANGED restarts
    BY <1>3 DEF Save
  <2> QED  BY <1>0, <2>1, <2>2, SettingsAssumption DEF BoundTypes
<1>4. CASE Import
  <2>1. faults' \in 0 .. MaxFaults
    BY <1>4, <1>0, WritesKeep, FaultCounts DEF BoundTypes
  <2>2. Change /\ UNCHANGED restarts
    BY <1>4 DEF Import
  <2> QED  BY <1>0, <2>1, <2>2, SettingsAssumption DEF BoundTypes, Change
<1>5. CASE Cancel
  <2>1. faults' \in 0 .. MaxFaults
    BY <1>5, <1>0, WritesKeep, FaultCounts DEF BoundTypes
  <2>2. UNCHANGED changes /\ UNCHANGED restarts
    BY <1>5 DEF Cancel
  <2> QED  BY <1>0, <2>1, <2>2, SettingsAssumption DEF BoundTypes
<1>6. CASE MenuAction
  <2>1. faults' \in 0 .. MaxFaults
    BY <1>6, <1>0, WritesKeep, FaultCounts DEF BoundTypes
  <2>2. Change /\ UNCHANGED restarts
    BY <1>6 DEF MenuAction
  <2> QED  BY <1>0, <2>1, <2>2, SettingsAssumption DEF BoundTypes, Change
<1>7. CASE ShowOrHide
  BY <1>7, <1>0 DEF BoundTypes, fileVars, ShowOrHide
<1>8. CASE Tick
  BY <1>8, <1>0 DEF BoundTypes, fileVars, Tick
<1>9. CASE ApplyExclusions
  <2>1. faults' \in 0 .. MaxFaults
    BY <1>9, <1>0, WritesKeep, FaultCounts DEF BoundTypes
  <2>2. UNCHANGED changes /\ UNCHANGED restarts
    BY <1>9 DEF ApplyExclusions
  <2> QED  BY <1>0, <2>1, <2>2, SettingsAssumption DEF BoundTypes
<1>10. CASE Requeue
  BY <1>10, <1>0 DEF BoundTypes, fileVars, Requeue
<1>11. CASE Publish
  BY <1>11, <1>0 DEF BoundTypes, fileVars, Publish
<1>12. CASE Propose
  BY <1>12, <1>0 DEF BoundTypes, fileVars, Propose
<1>13. CASE DeadlinePasses
  BY <1>13, <1>0 DEF BoundTypes, fileVars, DeadlinePasses
<1>14. CASE Restart
  <2>1. faults' \in 0 .. MaxFaults
    BY <1>14, <1>0, FaultCounts DEF Restart, BoundTypes
  <2>2. UNCHANGED changes /\ restarts < MaxRestarts /\ restarts' = restarts + 1
    BY <1>14 DEF Restart
  <2> QED  BY <1>0, <2>1, <2>2, SettingsAssumption DEF BoundTypes
<1>15. CASE UNCHANGED vars
  BY <1>15, <1>0 DEF BoundTypes, fileVars, vars
<1> QED  BY <1>1, <1>2, <1>3, <1>4, <1>5, <1>6, <1>7, <1>8, <1>9, <1>10, <1>11, <1>12, <1>13, <1>14,
   <1>15, NextCases

\* What counts as saved is what the file holds.
LEMMA SavedStep ==
    IInv /\ [Next]_vars => SavedIsStored'
<1> SUFFICES ASSUME IInv, [Next]_vars PROVE SavedIsStored'
  OBVIOUS
<1>0. /\ SettingsTypes /\ FlagTypes /\ HolderTypes /\ ProposalTypes /\ ConsentTypes /\ BoundTypes
      /\ SavedIsStored /\ FreshOK /\ SnapshotOK /\ ObeyedOK /\ ConsentOK
  BY TypeParts DEF IInv
<1>1. CASE EditPolicy
  BY <1>1, <1>0 DEF SavedIsStored, fileVars, editorVars, EditPolicy
<1>2. CASE EditGlobal
  BY <1>2, <1>0 DEF SavedIsStored, fileVars, editorVars, EditGlobal
<1>3. CASE Save
  BY <1>3, <1>0, WritesKeep DEF Kept
<1>4. CASE Import
  BY <1>4, <1>0, WritesKeep DEF Kept
<1>5. CASE Cancel
  BY <1>5, <1>0, WritesKeep DEF Kept
<1>6. CASE MenuAction
  BY <1>6, <1>0, WritesKeep DEF Kept
<1>7. CASE ShowOrHide
  BY <1>7, <1>0 DEF SavedIsStored, fileVars, editorVars, ShowOrHide
<1>8. CASE Tick
  BY <1>8, <1>0 DEF SavedIsStored, fileVars, editorVars, Tick
<1>9. CASE ApplyExclusions
  BY <1>9, <1>0, WritesKeep DEF Kept
<1>10. CASE Requeue
  BY <1>10, <1>0 DEF SavedIsStored, fileVars, editorVars, Requeue
<1>11. CASE Publish
  BY <1>11, <1>0 DEF SavedIsStored, fileVars, editorVars, Publish
<1>12. CASE Propose
  BY <1>12, <1>0 DEF SavedIsStored, fileVars, editorVars, Propose
<1>13. CASE DeadlinePasses
  BY <1>13, <1>0 DEF SavedIsStored, fileVars, editorVars, DeadlinePasses
<1>14. CASE Restart
  BY <1>14, <1>0, RestartKeeps DEF SavedIsStored
<1>15. CASE UNCHANGED vars
  BY <1>15, <1>0 DEF SavedIsStored, fileVars, editorVars, vars, snapshotVars, uiVars, patchVars
<1> QED  BY <1>1, <1>2, <1>3, <1>4, <1>5, <1>6, <1>7, <1>8, <1>9, <1>10, <1>11, <1>12, <1>13, <1>14,
   <1>15, NextCases

\* Who has the current revision, and for whom it was made.
LEMMA FreshStep ==
    IInv /\ [Next]_vars => FreshOK'
<1> SUFFICES ASSUME IInv, [Next]_vars PROVE FreshOK'
  OBVIOUS
<1>0. /\ SettingsTypes /\ FlagTypes /\ HolderTypes /\ ProposalTypes /\ ConsentTypes /\ BoundTypes
      /\ SavedIsStored /\ FreshOK /\ SnapshotOK /\ ObeyedOK /\ ConsentOK
  BY TypeParts DEF IInv
<1>1. CASE EditPolicy
  BY <1>1, <1>0 DEF FreshOK, patchVars, uiVars, EditPolicy
<1>2. CASE EditGlobal
  BY <1>2, <1>0 DEF FreshOK, patchVars, uiVars, EditGlobal
<1>3. CASE Save
  <2>1. "draft" \in fresh' /\ ("runtime" \in fresh' => fresh \subseteq fresh')
    BY <1>3, <1>0, WritesKeep DEF Kept
  <2>2. /\ "runtime" \in fresh /\ UNCHANGED <<marked, unseen>>
        /\ ui' = "publish" \/ (ui' \in {"idle", "requeue"} /\ UNCHANGED fresh)
    BY <1>3, <1>0, WriteEnds DEF FreshOK, patchVars
  <2> QED  BY <1>0, <2>1, <2>2 DEF FreshOK
<1>4. CASE Import
  <2>1. "draft" \in fresh' /\ ("runtime" \in fresh' => fresh \subseteq fresh')
    BY <1>4, <1>0, WritesKeep DEF Kept
  <2>2. /\ "runtime" \in fresh /\ UNCHANGED <<marked, unseen>>
        /\ ui' = "publish" \/ (ui' \in {"idle", "requeue"} /\ UNCHANGED fresh)
    BY <1>4, <1>0, WriteEnds DEF FreshOK, patchVars
  <2> QED  BY <1>0, <2>1, <2>2 DEF FreshOK
<1>5. CASE Cancel
  <2>1. "draft" \in fresh' /\ ("runtime" \in fresh' => fresh \subseteq fresh')
    BY <1>5, <1>0, WritesKeep DEF Kept
  <2>2. /\ "runtime" \in fresh /\ UNCHANGED <<marked, unseen>>
        /\ ui' = "publish" \/ (ui' \in {"idle", "requeue"} /\ UNCHANGED fresh)
    BY <1>5, <1>0, WriteEnds DEF FreshOK, patchVars
  <2> QED  BY <1>0, <2>1, <2>2 DEF FreshOK
<1>6. CASE MenuAction
  <2>1. "draft" \in fresh' /\ ("runtime" \in fresh' => fresh \subseteq fresh')
    BY <1>6, <1>0, WritesKeep DEF Kept
  <2>2. /\ "runtime" \in fresh /\ UNCHANGED <<marked, unseen>>
        /\ ui' = "publish" \/ (ui' \in {"idle", "requeue"} /\ UNCHANGED fresh)
    BY <1>6, <1>0, WriteEnds DEF FreshOK, patchVars
  <2> QED  BY <1>0, <2>1, <2>2 DEF FreshOK
<1>7. CASE ShowOrHide
  BY <1>7, <1>0 DEF FreshOK, patchVars, uiVars, ShowOrHide
<1>8. CASE Tick
  BY <1>8, <1>0 DEF FreshOK, patchVars, uiVars, Tick, Goto
<1>9. CASE ApplyExclusions
  <2>1. "draft" \in fresh' /\ ("runtime" \in fresh' => fresh \subseteq fresh')
    BY <1>9, <1>0, WritesKeep DEF Kept
  <2>2. /\ "runtime" \in fresh /\ UNCHANGED <<marked, unseen>>
        /\ ui' = "publish" \/ (ui' \in {"idle", "requeue"} /\ UNCHANGED fresh)
    BY <1>9, <1>0, WriteEnds DEF FreshOK, patchVars
  <2> QED  BY <1>0, <2>1, <2>2 DEF FreshOK
<1>10. CASE Requeue
  BY <1>10, <1>0 DEF FreshOK, patchVars, uiVars, Requeue, Goto, Announce
<1>11. CASE Publish
  BY <1>11, <1>0 DEF FreshOK, patchVars, uiVars, Publish, Renewed, Goto
<1>12. CASE Propose
  BY <1>12, <1>0 DEF FreshOK, patchVars, uiVars, Propose
<1>13. CASE DeadlinePasses
  BY <1>13, <1>0 DEF FreshOK, patchVars, uiVars, DeadlinePasses
<1>14. CASE Restart
  BY <1>14, <1>0 DEF FreshOK, patchVars, uiVars, Restart
<1>15. CASE UNCHANGED vars
  BY <1>15, <1>0 DEF FreshOK, patchVars, uiVars, vars
<1> QED  BY <1>1, <1>2, <1>3, <1>4, <1>5, <1>6, <1>7, <1>8, <1>9, <1>10, <1>11, <1>12, <1>13, <1>14,
   <1>15, NextCases

\* The snapshot is of the draft and the saved settings, and the runtime has it.
LEMMA SnapshotStep ==
    IInv /\ [Next]_vars => SnapshotOK'
<1> SUFFICES ASSUME IInv, [Next]_vars PROVE SnapshotOK'
  OBVIOUS
<1>0. /\ SettingsTypes /\ FlagTypes /\ HolderTypes /\ ProposalTypes /\ ConsentTypes /\ BoundTypes
      /\ SavedIsStored /\ FreshOK /\ SnapshotOK /\ ObeyedOK /\ ConsentOK
  BY TypeParts DEF IInv
<1>1. CASE EditPolicy
  BY <1>1, <1>0 DEF SnapshotOK, editorVars, snapshotVars, EditPolicy
<1>2. CASE EditGlobal
  BY <1>2, <1>0 DEF SnapshotOK, editorVars, snapshotVars, EditGlobal
<1>3. CASE Save
  BY <1>3, <1>0, WritesKeep DEF Kept
<1>4. CASE Import
  BY <1>4, <1>0, WritesKeep DEF Kept
<1>5. CASE Cancel
  BY <1>5, <1>0, WritesKeep DEF Kept
<1>6. CASE MenuAction
  BY <1>6, <1>0, WritesKeep DEF Kept
<1>7. CASE ShowOrHide
  BY <1>7, <1>0 DEF SnapshotOK, editorVars, snapshotVars, ShowOrHide
<1>8. CASE Tick
  BY <1>8, <1>0 DEF SnapshotOK, editorVars, snapshotVars, Tick
<1>9. CASE ApplyExclusions
  BY <1>9, <1>0, WritesKeep DEF Kept
<1>10. CASE Requeue
  BY <1>10, <1>0 DEF SnapshotOK, editorVars, snapshotVars, Requeue
<1>11. CASE Publish
  <2>1. UNCHANGED <<draft, persisted>>
    BY <1>11 DEF Publish, editorVars
  <2> QED  BY <1>11, <1>0, <2>1, PublishKeeps DEF SnapshotOK
<1>12. CASE Propose
  BY <1>12, <1>0 DEF SnapshotOK, editorVars, snapshotVars, Propose
<1>13. CASE DeadlinePasses
  BY <1>13, <1>0 DEF SnapshotOK, editorVars, snapshotVars, DeadlinePasses
<1>14. CASE Restart
  BY <1>14, <1>0, RestartKeeps DEF SnapshotOK
<1>15. CASE UNCHANGED vars
  BY <1>15, <1>0 DEF SnapshotOK, editorVars, snapshotVars, vars
<1> QED  BY <1>1, <1>2, <1>3, <1>4, <1>5, <1>6, <1>7, <1>8, <1>9, <1>10, <1>11, <1>12, <1>13, <1>14,
   <1>15, NextCases

\* Unless something is to be published, the runtime obeys what was published.
LEMMA ObeyedStep ==
    IInv /\ [Next]_vars => ObeyedOK'
<1> SUFFICES ASSUME IInv, [Next]_vars PROVE ObeyedOK'
  OBVIOUS
<1>0. /\ SettingsTypes /\ FlagTypes /\ HolderTypes /\ ProposalTypes /\ ConsentTypes /\ BoundTypes
      /\ SavedIsStored /\ FreshOK /\ SnapshotOK /\ ObeyedOK /\ ConsentOK
  BY TypeParts DEF IInv
<1>1. CASE EditPolicy
  BY <1>1, <1>0 DEF ObeyedOK, editorVars, snapshotVars, uiVars, EditPolicy
<1>2. CASE EditGlobal
  BY <1>2, <1>0 DEF ObeyedOK, editorVars, snapshotVars, uiVars, EditGlobal
<1>3. CASE Save
  BY <1>3, <1>0, WriteEnds DEF ObeyedOK, editorVars, snapshotVars
<1>4. CASE Import
  BY <1>4, <1>0, WriteEnds DEF ObeyedOK, editorVars, snapshotVars
<1>5. CASE Cancel
  BY <1>5, <1>0, WriteEnds DEF ObeyedOK, editorVars, snapshotVars
<1>6. CASE MenuAction
  BY <1>6, <1>0, WriteEnds DEF ObeyedOK, editorVars, snapshotVars
<1>7. CASE ShowOrHide
  BY <1>7, <1>0 DEF ObeyedOK, editorVars, snapshotVars, uiVars, ShowOrHide
<1>8. CASE Tick
  BY <1>8, <1>0 DEF ObeyedOK, editorVars, snapshotVars, uiVars, Tick, Goto
<1>9. CASE ApplyExclusions
  BY <1>9, <1>0, WriteEnds DEF ObeyedOK, editorVars, snapshotVars
<1>10. CASE Requeue
  BY <1>10, <1>0 DEF ObeyedOK, editorVars, snapshotVars, uiVars, Requeue, Goto
<1>11. CASE Publish
  <2>1. UNCHANGED <<draft, persisted>>
    BY <1>11 DEF Publish, editorVars
  <2> QED  BY <1>11, <1>0, <2>1, PublishKeeps DEF ObeyedOK
<1>12. CASE Propose
  BY <1>12, <1>0 DEF ObeyedOK, editorVars, snapshotVars, uiVars, Propose
<1>13. CASE DeadlinePasses
  BY <1>13, <1>0 DEF ObeyedOK, editorVars, snapshotVars, uiVars, DeadlinePasses
<1>14. CASE Restart
  BY <1>14, <1>0, RestartKeeps DEF ObeyedOK
<1>15. CASE UNCHANGED vars
  BY <1>15, <1>0 DEF ObeyedOK, editorVars, snapshotVars, uiVars, vars
<1> QED  BY <1>1, <1>2, <1>3, <1>4, <1>5, <1>6, <1>7, <1>8, <1>9, <1>10, <1>11, <1>12, <1>13, <1>14,
   <1>15, NextCases

\* The stored policies, and those that are obeyed, are the user's.
LEMMA ConsentStep ==
    IInv /\ [Next]_vars => ConsentOK'
<1> SUFFICES ASSUME IInv, [Next]_vars PROVE ConsentOK'
  OBVIOUS
<1>0. /\ SettingsTypes /\ FlagTypes /\ HolderTypes /\ ProposalTypes /\ ConsentTypes /\ BoundTypes
      /\ SavedIsStored /\ FreshOK /\ SnapshotOK /\ ObeyedOK /\ ConsentOK
  BY TypeParts DEF IInv
<1>1. CASE EditPolicy
  BY <1>1, <1>0 DEF ConsentOK, fileVars, editorVars, uiVars, EditPolicy
<1>2. CASE EditGlobal
  BY <1>2, <1>0 DEF ConsentOK, fileVars, editorVars, uiVars, EditGlobal
<1>3. CASE Save
  <2>1. CASE Store(draft) /\ consent' = Agreed(draft) /\ Goto("publish")
    BY <2>1 DEF Store, Goto, ConsentOK
  <2>2. CASE UNCHANGED <<disk, editorVars, ui, consent>>
    BY <1>3, <1>0, <2>2 DEF Save, ConsentOK, editorVars
  <2> QED  BY <1>3, <2>1, <2>2 DEF Save
<1>4. CASE Import
  <2>1. ASSUME NEW s, Store(s), consent' = Agreed(s), Goto("publish")  PROVE ConsentOK'
    BY <2>1 DEF Store, Goto, ConsentOK
  <2>2. CASE UNCHANGED <<disk, editorVars, ui, consent>>
    BY <1>4, <1>0, <2>2 DEF Import, ConsentOK, editorVars
  <2> QED  BY <1>4, <2>1, <2>2 DEF Import
<1>5. CASE Cancel
  BY <1>5, <1>0 DEF ConsentOK, fileVars, editorVars, uiVars, Cancel, Goto
<1>6. CASE MenuAction
  <2>1. CASE UNCHANGED <<disk, editorVars, ui, consent>>
    BY <1>6, <1>0, <2>1 DEF MenuAction, ConsentOK, editorVars
  <2>2. ASSUME NEW patch \in Switches, Offered(patch), Succeeds(patch),
               consent' = Agree(patch), Goto("publish")
        PROVE  ConsentOK'
    <3>1. ui' = "publish" /\ persisted \in AllSettings
      BY <1>0, <2>2 DEF Goto, SettingsTypes
    <3>2. CASE Changes(persisted, patch)
      <4>1. ~loadError /\ disk' = Patched(persisted, patch)
        BY <2>2, <3>2 DEF Succeeds, Store, Stored
      <4>2. Agreed(persisted) = consent
        BY <1>0, <4>1 DEF SavedIsStored, ConsentOK
      <4>3. Agreed(Patched(persisted, patch)) = Agree(patch)
        BY <3>1, <4>2, SwitchAgrees
      <4> QED  BY <2>2, <3>1, <4>1, <4>3 DEF ConsentOK
    <3>3. CASE ~Changes(persisted, patch)
      <4>1. ~loadError /\ disk' = disk
        BY <2>2, <3>3 DEF Offered, Succeeds, Unpatched, fileVars
      <4>2. Agreed(persisted) = consent
        BY <1>0, <4>1 DEF SavedIsStored, ConsentOK
      <4>3. Agree(patch) = consent
        BY <3>1, <3>3, <4>2, SwitchAgrees
      <4> QED  BY <1>0, <2>2, <3>1, <4>1, <4>3 DEF ConsentOK
    <3> QED  BY <3>2, <3>3
  <2>3. PICK patch \in Switches :
            /\ Offered(patch)
            /\ \/ Succeeds(patch) /\ consent' = Agree(patch) /\ Goto("publish")
               \/ /\ Refused(patch) \/ Unpatched
                  /\ UNCHANGED <<ui, consent>>
    BY <1>6 DEF MenuAction
  <2>4. Refused(patch) \/ Unpatched => UNCHANGED <<disk, editorVars>>
    BY DEF Refused, Unpatched
  <2> QED  BY <2>1, <2>2, <2>3, <2>4
<1>7. CASE ShowOrHide
  BY <1>7, <1>0 DEF ConsentOK, fileVars, editorVars, uiVars, ShowOrHide
<1>8. CASE Tick
  BY <1>8, <1>0 DEF ConsentOK, fileVars, editorVars, uiVars, Tick, Goto
<1>9. CASE ApplyExclusions
  <2>1. UNCHANGED <<consent, runtime>> /\ ui # "publish"
    BY <1>9 DEF ApplyExclusions
  <2>2. CASE UNCHANGED <<disk, editorVars>>
    BY <1>0, <2>1, <2>2 DEF ConsentOK, editorVars
  <2>3. CASE Succeeds(Exclusion(taken)) /\ Goto("publish")
    <3>1. disk' = disk \/ (~loadError /\ disk' = Patched(persisted, Exclusion(taken)))
      BY <2>3 DEF Succeeds, Store, Stored, Unpatched, fileVars
    <3>2. Patched(persisted, Exclusion(taken)) = Excluded(persisted, taken)
      BY DEF Patched, Exclusion
    <3>3. Agreed(Excluded(persisted, taken)) = Agreed(persisted)
      BY <1>0, ExcludedFields DEF SettingsTypes, ProposalTypes
    <3>4. loadError \/ Agreed(persisted) = Agreed(disk)
      BY <1>0 DEF SavedIsStored
    <3>5. Agreed(disk') = Agreed(disk)
      BY <3>1, <3>2, <3>3, <3>4
    <3> QED  BY <1>0, <2>1, <2>3, <3>5 DEF ConsentOK, Goto
  <2>4. \/ Succeeds(Exclusion(taken)) /\ Goto("publish")
        \/ Refused(Exclusion(taken)) \/ Unpatched
    BY <1>9 DEF ApplyExclusions
  <2>5. Refused(Exclusion(taken)) \/ Unpatched => UNCHANGED <<disk, editorVars>>
    BY DEF Refused, Unpatched
  <2> QED  BY <2>2, <2>3, <2>4, <2>5
<1>10. CASE Requeue
  BY <1>10, <1>0 DEF ConsentOK, fileVars, editorVars, uiVars, Requeue, Goto
<1>11. CASE Publish
  <2>1. UNCHANGED <<disk, persisted, loadError, consent>>
    BY <1>11 DEF Publish, fileVars, editorVars
  <2>2. runtime' = Projected(draft, persisted)
    BY <1>11, <1>0, PublishKeeps
  <2>3. Agreed(runtime') = Agreed(persisted)
    BY <1>0, <2>2, AgreedProjected DEF SettingsTypes
  <2> QED  BY <1>0, <2>1, <2>3 DEF ConsentOK, SavedIsStored
<1>12. CASE Propose
  BY <1>12, <1>0 DEF ConsentOK, fileVars, editorVars, uiVars, Propose
<1>13. CASE DeadlinePasses
  BY <1>13, <1>0 DEF ConsentOK, fileVars, editorVars, uiVars, DeadlinePasses
<1>14. CASE Restart
  <2>1. disk' = disk /\ consent' = consent /\ (loadError' \/ runtime' = disk)
    BY <1>14, <1>0, RestartKeeps DEF Restart
  <2> QED  BY <1>0, <2>1 DEF ConsentOK
<1>15. CASE UNCHANGED vars
  BY <1>15, <1>0 DEF ConsentOK, fileVars, editorVars, uiVars, vars
<1> QED  BY <1>1, <1>2, <1>3, <1>4, <1>5, <1>6, <1>7, <1>8, <1>9, <1>10, <1>11, <1>12, <1>13, <1>14,
   <1>15, NextCases

--------------------------------------------------------------------------------
(***************************************************************************)
(* The invariant, and what follows.                                        *)
(***************************************************************************)
LEMMA InitInv == Init => IInv
<1> SUFFICES ASSUME Init PROVE IInv
  OBVIOUS
<1>1. Default \in AllSettings /\ Projected(Default, Default) = Default
  BY DefaultType, ProjectedSelf
<1>2. pending \subseteq Apps
  BY DEF Init
<1>3. Agreed(Default) \in [master : BOOLEAN, feature : [Sources -> BOOLEAN]]
  BY <1>1, AgreedType
<1>4. SettingsTypes /\ FlagTypes /\ HolderTypes
  BY <1>1 DEF Init, SettingsTypes, FlagTypes, HolderTypes
<1>5. ProposalTypes /\ ConsentTypes /\ BoundTypes
  BY <1>2, <1>3, SettingsAssumption DEF Init, ProposalTypes, ConsentTypes, BoundTypes
<1>6. SavedIsStored /\ FreshOK
  BY DEF Init, SavedIsStored, FreshOK
<1>7. SnapshotOK /\ ObeyedOK /\ ConsentOK
  BY <1>1 DEF Init, SnapshotOK, ObeyedOK, ConsentOK
<1> QED  BY <1>4, <1>5, <1>6, <1>7, TypeParts DEF IInv

LEMMA StepInv == IInv /\ [Next]_vars => IInv'
<1> SUFFICES ASSUME IInv, [Next]_vars PROVE IInv'
  OBVIOUS
<1>1. SettingsTypes' /\ FlagTypes' /\ HolderTypes' /\ ProposalTypes' /\ ConsentTypes' /\ BoundTypes'
  BY SettingsTypesStep, FlagTypesStep, HolderTypesStep, ProposalTypesStep, ConsentTypesStep,
     BoundTypesStep
<1>2. (TypeOK /\ ProposalsOK)'
  <2>1. (SettingsTypes /\ FlagTypes /\ HolderTypes /\ ProposalTypes /\ ConsentTypes /\ BoundTypes)'
    BY <1>1
  <2> QED  BY <2>1, TypeParts, PTL
<1>3. SavedIsStored' /\ FreshOK' /\ SnapshotOK' /\ ObeyedOK' /\ ConsentOK'
  BY SavedStep, FreshStep, SnapshotStep, ObeyedStep, ConsentStep
<1> QED  BY <1>2, <1>3 DEF IInv

LEMMA Invariance == Spec => []IInv
BY InitInv, StepInv, PTL DEF Spec

\* File, editor and runtime agree, whatever failed and whenever Winderust ended: what counts as
\* saved is what the file holds, no proposal is refused for its revision, and between messages
\* the runtime obeys the saved policies with the edited preferences (application/settings.rs and
\* replace_settings).
THEOREM EditorInOrder == Spec => []Consistent
<1>1. IInv => Consistent
  BY DEF IInv, Consistent, PatchesAreCurrent, FreshOK, RuntimeFollows, ObeyedOK
<1> QED  BY <1>1, Invariance, PTL

\* Nothing that the user has not saved, imported or switched is stored or obeyed, for either
\* power source (apply_runtime_patch, set_feature_enabled).
THEOREM NothingUnasked == Spec => []OnlyConsented
<1>1. IInv => OnlyConsented
  BY DEF IInv, OnlyConsented, ConsentOK, SavedIsStored
<1> QED  BY <1>1, Invariance, PTL

================================================================================
