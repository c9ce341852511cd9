---------------------------- MODULE UserSettings ----------------------------
(***************************************************************************)
(* The preferences, or the presence status, of one user of the user        *)
(* service: a row that the first access creates with default values, and a *)
(* copy in Redis.  Both kinds are read and written by the same steps, the  *)
(* status also by a bulk read that passes the cache by.                    *)
(*                                                                         *)
(* A field holds the number of the save that set it, 0 for its default.    *)
(***************************************************************************)
EXTENDS Naturals, Sequences, FiniteSetsExt

CONSTANTS
  Accesses,         \* executions of the handlers that may overlap
  Fields,
  MaxSettingSaves   \* bound on the updates saved

ASSUME UserSettingsAssumption == MaxSettingSaves \in Nat

VARIABLES
  settingKind,  \* which of the two the run is about
  settings,     \* [there, fields]: the row
  copied,       \* [held, fields, read, stored, missed]: the copy in Redis;
                \* history: updates saved when it was read and when it was stored,
                \* and that a writer left it in place
  access,       \* [pc, does, there, fields, sets, read] of each handler execution
  updates       \* history: [read, sets]: updates saved, the fields they set and the
                \* number of updates when they read the row

settingVars == <<settingKind, settings, copied, access, updates>>

Defaults == [f \in Fields |-> 0]
NotCopied == [held |-> FALSE, fields |-> Defaults, read |-> 0, stored |-> 0, missed |-> FALSE]
NoAccess == [pc |-> "none", does |-> "get", there |-> FALSE, fields |-> Defaults,
             sets |-> {}, read |-> 0]

UserSettingsInit ==
  /\ settingKind \in {"preferences", "status"}
  /\ settings = [there |-> FALSE, fields |-> Defaults]
  /\ copied = NotCopied
  /\ access = [a \in Accesses |-> NoAccess]
  /\ updates = <<>>

-----------------------------------------------------------------------------
AccessAt(a, pc) == access[a].pc = pc
AccessTo(a, pc) == access' = [access EXCEPT ![a].pc = pc]
AccessEnds(a) == access' = [access EXCEPT ![a] = NoAccess]

\* findOne: what the execution knows of the row from now on.
ReadRow(a, does, sets, pc) ==
  /\ AccessAt(a, "none")
  /\ access' = [access EXCEPT ![a] =
       [pc |-> pc, does |-> does, there |-> settings.there,
        fields |-> settings.fields, sets |-> sets, read |-> Len(updates)]]
  /\ UNCHANGED <<settingKind, settings, copied, updates>>

\* A read that finds no copy: the row is stored in the cache, or created first.
GetSettings(a) ==
  /\ ~copied.held
  /\ ReadRow(a, "get", {}, IF settings.there THEN "fill" ELSE "insert")

GetPreferences(a) == settingKind = "preferences" /\ GetSettings(a)
GetStatus(a) == settingKind = "status" /\ GetSettings(a)

\* The statuses of several users, the missing ones created with one save.
GetStatusesByUserIds(a) ==
  /\ settingKind = "status"
  /\ ~settings.there
  /\ ReadRow(a, "get_many", {}, "insert")

\* The insert of the defaults; the index on user_id refuses a second row.
InsertDefaults(a) ==
  /\ AccessAt(a, "insert")
  /\ IF settings.there \/ access[a].does = "get_many"
       THEN AccessEnds(a)
       ELSE AccessTo(a, "fill")
  /\ settings' = [settings EXCEPT !.there = TRUE]
  /\ UNCHANGED <<settingKind, copied, updates>>

FillCopy(a) ==
  /\ AccessAt(a, "fill")
  /\ copied' = [held |-> TRUE, fields |-> access[a].fields, read |-> access[a].read,
                stored |-> Len(updates), missed |-> FALSE]
  /\ AccessEnds(a)
  /\ UNCHANGED <<settingKind, settings, updates>>

\* getPreferencesEntity, getStatusEntity: the row, or an entity with the defaults.
LoadSettings(a, sets) == ReadRow(a, "update", sets, "save")

GetPreferencesEntity(a, sets) == settingKind = "preferences" /\ LoadSettings(a, sets)
GetStatusEntity(a, sets) == settingKind = "status" /\ LoadSettings(a, sets)

\* The entity is saved as it was read but for the fields of the request: over
\* the row it was read from, or as a new one if there still is none.
SaveSettings(a) ==
  LET save == Len(updates) + 1
      value == [f \in Fields |-> IF f \in access[a].sets THEN save ELSE access[a].fields[f]]
  IN
  /\ AccessAt(a, "save")
  /\ IF settings.there /\ ~access[a].there
       THEN AccessEnds(a) /\ UNCHANGED <<settings, updates>>
       ELSE /\ save <= MaxSettingSaves
            /\ settings' = [there |-> TRUE, fields |-> value]
            /\ updates' = Append(updates, [read |-> access[a].read, sets |-> access[a].sets])
            /\ AccessTo(a, "delete_copy")
  /\ UNCHANGED <<settingKind, copied>>

\* Variant with a bug: the copy is kept when the row was inserted.
DeleteCopyOfOldRow(a, done) ==
  /\ AccessAt(a, "delete_copy")
  /\ copied' = IF done /\ access[a].there THEN NotCopied ELSE copied
  /\ AccessEnds(a)
  /\ UNCHANGED <<settingKind, settings, updates>>

\* An error of Redis is logged and passed over.
DeleteCopy(a, done) ==
  /\ AccessAt(a, "delete_copy")
  /\ copied' = IF done THEN NotCopied ELSE [copied EXCEPT !.missed = copied.held]
  /\ AccessEnds(a)
  /\ UNCHANGED <<settingKind, settings, updates>>

AccessFails(a) ==
  /\ ~AccessAt(a, "none")
  /\ AccessEnds(a)
  /\ copied' = [copied EXCEPT !.missed = @ \/ (copied.held /\ AccessAt(a, "delete_copy"))]
  /\ UNCHANGED <<settingKind, settings, updates>>

CopyExpires ==
  /\ copied.held
  /\ copied' = NotCopied
  /\ UNCHANGED <<settingKind, settings, access, updates>>

UpdatePreferences(a) == \E sets \in SUBSET Fields : GetPreferencesEntity(a, sets)
UpdateStatus(a) == \E sets \in SUBSET Fields : GetStatusEntity(a, sets)

UserSettingsNext ==
  \/ \E a \in Accesses :
       \/ GetPreferences(a) \/ GetStatus(a) \/ GetStatusesByUserIds(a)
       \/ InsertDefaults(a) \/ FillCopy(a)
       \/ UpdatePreferences(a) \/ UpdateStatus(a)
       \/ SaveSettings(a) \/ AccessFails(a)
       \/ \E done \in BOOLEAN : DeleteCopy(a, done)
  \/ CopyExpires

UserSettingsSpec == UserSettingsInit /\ [][UserSettingsNext]_settingVars

-----------------------------------------------------------------------------
SettingsRow == [there : BOOLEAN, fields : [Fields -> Nat]]
SettingsCopy == [held : BOOLEAN, fields : [Fields -> Nat], read : Nat, stored : Nat,
                 missed : BOOLEAN]
SettingsAccess == [pc : {"none", "insert", "fill", "save", "delete_copy"},
                   does : {"get", "get_many", "update"}, there : BOOLEAN,
                   fields : [Fields -> Nat], sets : SUBSET Fields, read : Nat]
SettingsUpdate == [read : Nat, sets : SUBSET Fields]

\* Types of the row, its copy and the handlers.
UserSettingsTypeOK ==
  /\ settingKind \in {"preferences", "status"}
  /\ settings \in SettingsRow
  /\ copied \in SettingsCopy
  /\ access \in [Accesses -> SettingsAccess]
  /\ updates \in Seq(SettingsUpdate)

LastUpdateOf(f) == Max({0} \cup {i \in DOMAIN updates : f \in updates[i].sets})

\* A field shows the last value saved for it, unless a later update that had
\* read the row before saved its old value back; and the copy is the row unless
\* a reader stored it across an update or a writer left it in place.
SettingsExplained ==
  /\ \A f \in Fields :
       \/ settings.fields[f] = LastUpdateOf(f)
       \/ \E j \in DOMAIN updates : j > LastUpdateOf(f) /\ updates[j].read < LastUpdateOf(f)
  /\ copied.held /\ (\A a \in Accesses : ~AccessAt(a, "delete_copy")) =>
       \/ copied.fields = settings.fields
       \/ copied.read < copied.stored
       \/ copied.missed
=============================================================================
