----------------------------- MODULE ZoneSettings -----------------------------
(***************************************************************************)
(* The list of availability zones in ctl.config.yaml, as `viti config      *)
(* init`, `add` and `remove` edit it.  A process reads the file once, when *)
(* it starts; `init` then asks for a while; the whole file is written      *)
(* back in place.  Users edit the file by hand as well.                    *)
(***************************************************************************)
EXTENDS Integers, Sequences, FiniteSets

CONSTANTS
    ZoneNames,     \* names of zones
    Terms,         \* terminals
    MaxZones,      \* bound: entries in the list
    MaxEdits       \* bound: commands, edits by hand, and kills

ASSUME SettingsAssumption == MaxZones \in Nat /\ MaxEdits \in Nat

VARIABLES
    ctlConfig,     \* the file: its zones, and what else is in it
    editor,        \* editor[t]: the command that runs in terminal t
    edits          \* of those that MaxEdits bounds, so far

settingsVars == <<ctlConfig, editor, edits>>

\* at: the kubeconfig or context of the zone, by the edit that gave it; "": neither.
Zone(name, at) == [name |-> name, at |-> at]
CtlConfig(zones, indexes) == [zones |-> zones, indexes |-> indexes]
Truncated == CtlConfig(<<>>, FALSE)

NoEdit == [step |-> "idle", op |-> "show", zone |-> Zone("", 0), mem |-> Truncated,
           out |-> <<>>, raced |-> FALSE]

\* A hand-written file may list a name twice.
SettingsInit ==
    /\ \E n \in 0..MaxZones - 1 : \E names \in [1..n -> ZoneNames], indexes \in BOOLEAN :
         ctlConfig = CtlConfig([i \in 1..n |-> Zone(names[i], -i)], indexes)
    /\ editor = [t \in Terms |-> NoEdit]
    /\ edits = 0

\* AvailabilityZoneByName: the first of the name, if there is one.
Named(zones, name) == {i \in 1..Len(zones) : zones[i].name = name}
FirstOf(zones, name) == CHOOSE i \in Named(zones, name) : \A j \in Named(zones, name) : i <= j
AvailabilityZoneByName(zones, name) ==
    IF Named(zones, name) = {} THEN Zone(name, 0) ELSE zones[FirstOf(zones, name)]

\* Mutant of AddAvailabilityZone: a zone of the name is not looked for.
AppendAvailabilityZone(zones, z) == Append(zones, z)

AddAvailabilityZone(zones, z) ==
    IF Named(zones, z.name) = {} THEN Append(zones, z)
    ELSE [zones EXCEPT ![FirstOf(zones, z.name)] = z]

RemoveAvailabilityZone(zones, name) ==
    LET kept[i \in 0..Len(zones)] ==
          IF i = 0 THEN <<>>
          ELSE IF zones[i].name = name THEN kept[i - 1]
          ELSE Append(kept[i - 1], zones[i])
    IN kept[Len(zones)]

-----------------------------------------------------------------------------
EditStep(t, r) == editor' = [editor EXCEPT ![t] = r]

\* Terminal t goes on with r, having written the file under all others.
EditWrote(t, r) ==
    editor' = [u \in Terms |-> IF u = t THEN r
                               ELSE [editor[u] EXCEPT !.raced = editor[u].step # "idle"]]

\* settings.Init, when the process starts.
StartEdit(t, op, z) ==
    /\ editor[t].step = "idle" /\ edits < MaxEdits
    /\ edits' = edits + 1
    /\ EditStep(t, [NoEdit EXCEPT !.step = "edit", !.op = op, !.zone = z, !.mem = ctlConfig])
    /\ UNCHANGED ctlConfig

\* A zone must have one of the two, and one that is removed must be there.
Edit(t) ==
    LET c == editor[t]
        zones == c.mem.zones
        refused == \/ c.op = "add" /\ c.zone.at = 0
                   \/ c.op = "remove" /\ Named(zones, c.zone.name) = {}
        edited == IF c.op = "add" THEN AddAvailabilityZone(zones, c.zone)
                  ELSE RemoveAvailabilityZone(zones, c.zone.name)
    IN /\ c.step = "edit"
       /\ EditStep(t, IF refused THEN NoEdit
                      ELSE [c EXCEPT !.step = "save", !.out = edited])
       /\ UNCHANGED <<ctlConfig, edits>>

\* save: viper truncates the file, then writes all it knows.
Save(t) ==
    LET c == editor[t] IN
    /\ c.step \in {"save", "writing"}
    /\ ctlConfig' = IF c.step = "save" THEN Truncated ELSE [c.mem EXCEPT !.zones = c.out]
    /\ EditWrote(t, IF c.step = "save" THEN [c EXCEPT !.step = "writing"] ELSE NoEdit)
    /\ UNCHANGED edits

EditKilled(t) ==
    /\ editor[t].step # "idle" /\ edits < MaxEdits
    /\ edits' = edits + 1
    /\ EditStep(t, NoEdit)
    /\ UNCHANGED ctlConfig

\* A user changes the file by hand.
EditedByHand ==
    /\ edits < MaxEdits
    /\ edits' = edits + 1
    /\ \E name \in ZoneNames :
         /\ Len(ctlConfig.zones) < MaxZones
         /\ ctlConfig' = [ctlConfig EXCEPT !.zones = Append(@, Zone(name, edits'))]
    /\ editor' = [u \in Terms |-> [editor[u] EXCEPT !.raced = editor[u].step # "idle"]]

SettingsNext ==
    \/ \E t \in Terms :
         \/ \E name \in ZoneNames :
              \/ \E at \in {0, edits + 1} : StartEdit(t, "add", Zone(name, at))
              \/ StartEdit(t, "remove", Zone(name, 0))
         \/ Edit(t) \/ Save(t) \/ EditKilled(t)
    \/ EditedByHand

SettingsSpec == SettingsInit /\ [][SettingsNext]_settingsVars

-----------------------------------------------------------------------------
\* Where zones has zones of other names.
OtherZones(zones, name) == {i \in 1..Len(zones) : zones[i].name # name}

\* The zones of other names are the same in both, in the same order.
SameOthers(before, after, name) ==
    \E from \in [OtherZones(after, name) -> OtherZones(before, name)] :
      /\ \A j \in OtherZones(before, name) : \E i \in OtherZones(after, name) : from[i] = j
      /\ \A i, j \in OtherZones(after, name) : i < j => from[i] < from[j]
      /\ \A i \in OtherZones(after, name) : after[i] = before[from[i]]

\* "Appends or replaces an availability zone by name" (settings.go): a command
\* replaces the file it has read, unless somebody wrote it since; and when it is
\* done, the zone it named is found as it said, or not at all if it was removed,
\* and all others are as they were read, in the same order, and so are the other
\* settings.
EditsOneZone ==
    [][\A t \in Terms :
         LET c == editor[t] IN
         /\ c.step = "save" /\ editor'[t].step = "writing" /\ ~c.raced => ctlConfig = c.mem
         /\ c.step = "writing" /\ editor'[t] = NoEdit /\ edits' = edits =>
              /\ AvailabilityZoneByName(ctlConfig'.zones, c.zone.name) = c.zone
              /\ SameOthers(c.mem.zones, ctlConfig'.zones, c.zone.name)
              /\ ctlConfig'.indexes = c.mem.indexes]_<<ctlConfig, editor>>
=============================================================================
