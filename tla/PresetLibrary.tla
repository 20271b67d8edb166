----------------------------- MODULE PresetLibrary -----------------------------
(***************************************************************************)
(* store.py: the presets of every appliance, kept in memory, edited by the *)
(* services and the panel, and written whole to one file after each edit.  *)
(*                                                                         *)
(* A library is the sequence of its presets in the order they were first   *)
(* saved: find by name returns the first that fits, so the order is part   *)
(* of what a restart has to bring back.  A name stands for all that differ *)
(* in case or punctuation only, and for the id made from it.               *)
(***************************************************************************)
EXTENDS Integers, Sequences

CONSTANTS
    Names,       \* names of presets, and ids
    Devices,     \* the appliances they are for
    Callers,     \* calls of save and delete that can be in progress at once
    MaxEdits,    \* bound: edits in a behaviour
    MaxRestarts  \* bound: how often Home Assistant dies

ASSUME LibraryAssumption == MaxEdits \in Nat /\ MaxRestarts \in Nat

Presets == [id : Names, name : Names, device : Devices]
NoPreset == <<>>

VARIABLES
    up,        \* Home Assistant is running
    presets,   \* _presets
    file,      \* what is written
    writes,    \* what Store was asked to write, oldest first, and by whom
    shown,     \* the library the status sensors last took their list from
    edits,     \* how many edits there were
    restarts   \* how often Home Assistant has died

libraryVars == <<up, presets, file, writes, shown, edits, restarts>>

LibraryInit ==
    /\ up = TRUE
    /\ presets = <<>> /\ file = <<>> /\ writes = <<>> /\ shown = <<>>
    /\ edits = 0 /\ restarts = 0

-----------------------------------------------------------------------------
(* The dictionary.                                                         *)

Has(lib, id) == \E i \in DOMAIN lib : lib[i].id = id

\* A preset that is saved again keeps its place.
\* (mutant) it is added once more
PutAgain(lib, p) == Append(lib, p)
Put(lib, p) ==
    IF Has(lib, p.id)
    THEN [i \in DOMAIN lib |-> IF lib[i].id = p.id THEN p ELSE lib[i]]
    ELSE Append(lib, p)

Place(lib, id) == CHOOSE i \in DOMAIN lib : lib[i].id = id
Without(lib, id) ==
    SubSeq(lib, 1, Place(lib, id) - 1) \o SubSeq(lib, Place(lib, id) + 1, Len(lib))

\* find, for an appliance: by id or, failing that, the first with the name.
\* (mutant) of whichever appliance
FindAnyones(lib, key, device) ==
    LET named == {i \in DOMAIN lib : lib[i].name = key}
    IN  IF Has(lib, key) /\ lib[Place(lib, key)].device = device
        THEN lib[Place(lib, key)]
        ELSE IF named # {} THEN lib[CHOOSE i \in named : \A j \in named : i <= j] ELSE NoPreset
Find(lib, key, device) ==
    LET named == {i \in DOMAIN lib : lib[i].name = key /\ lib[i].device = device}
    IN  IF Has(lib, key) /\ lib[Place(lib, key)].device = device
        THEN lib[Place(lib, key)]
        ELSE IF named # {} THEN lib[CHOOSE i \in named : \A j \in named : i <= j] ELSE NoPreset

-----------------------------------------------------------------------------
(* async_save and async_delete: the edit and the snapshot in one step; the *)
(* listeners, and the answer, once the snapshot is written.                *)

May(c) == up /\ edits < MaxEdits /\ \A i \in DOMAIN writes : writes[i].by # c

Ask(c, lib) ==
    /\ presets' = lib
    /\ writes' = Append(writes, [library |-> lib, by |-> c])
    /\ edits' = edits + 1
    /\ UNCHANGED <<up, file, shown, restarts>>

\* A new preset has no id and gets the one made from its name.
Create(c, name, device) ==
    /\ May(c)
    /\ Ask(c, Put(presets, [id |-> name, name |-> name, device |-> device]))

\* An edited one has the id it was listed with, which may be gone by now.
Edit(c, id, name, device) ==
    /\ May(c)
    /\ Ask(c, Put(presets, [id |-> id, name |-> name, device |-> device]))

\* (mutant) a deleted preset stays in the file
DeleteUnwritten(c, id) ==
    /\ May(c) /\ Has(presets, id)
    /\ presets' = Without(presets, id) /\ edits' = edits + 1
    /\ UNCHANGED <<up, file, writes, shown, restarts>>

\* An id that is not there is an error and changes nothing.
Delete(c, id) ==
    /\ May(c) /\ Has(presets, id)
    /\ Ask(c, Without(presets, id))

\* (mutant) the sensors are told what was written
WrittenShowsFile ==
    /\ writes # <<>>
    /\ file' = Head(writes).library
    /\ writes' = Tail(writes)
    /\ shown' = file
    /\ UNCHANGED <<up, presets, edits, restarts>>

Written ==
    /\ writes # <<>>
    /\ file' = Head(writes).library
    /\ writes' = Tail(writes)
    /\ shown' = presets
    /\ UNCHANGED <<up, presets, edits, restarts>>

-----------------------------------------------------------------------------
(* Home Assistant dies and comes back: async_load, then the sensors.       *)

Dies ==
    /\ up /\ restarts < MaxRestarts
    /\ up' = FALSE /\ restarts' = restarts + 1
    /\ presets' = <<>> /\ writes' = <<>> /\ shown' = <<>>
    /\ UNCHANGED <<file, edits>>

Loads ==
    /\ ~up
    /\ up' = TRUE
    /\ presets' = file /\ shown' = file
    /\ UNCHANGED <<file, writes, edits, restarts>>

LibraryNext ==
    \/ \E c \in Callers, name \in Names, device \in Devices :
          \/ Create(c, name, device)
          \/ \E id \in Names : Edit(c, id, name, device)
    \/ \E c \in Callers, id \in Names : Delete(c, id)
    \/ Written \/ Dies \/ Loads

LibrarySpec == LibraryInit /\ [][LibraryNext]_libraryVars

-----------------------------------------------------------------------------
DistinctIds(lib) ==
    \A i, j \in DOMAIN lib : lib[i].id = lib[j].id => i = j

\* Libraries are sequences of presets, no two with one id: a dictionary.
LibraryTypeOK ==
    /\ up \in BOOLEAN
    /\ presets \in Seq(Presets) /\ DistinctIds(presets)
    /\ file \in Seq(Presets) /\ DistinctIds(file)
    /\ writes \in Seq([library : Seq(Presets), by : Callers])
    /\ \A i \in DOMAIN writes : DistinctIds(writes[i].library)
    /\ shown \in Seq(Presets)
    /\ edits \in Nat /\ restarts \in Nat

\* The file catches up: when no write is under way it has what memory has, in
\* the same order, whichever calls overlapped and wherever Home Assistant died;
\* so a restart changes neither a preset nor what a name finds.
FileCatchesUp == up /\ writes = <<>> => file = presets

\* The sensors catch up: when no write is under way their list is of the
\* library as it is, though each was told of another call's edits too early.
SensorsCatchUp == up /\ writes = <<>> => shown = presets

\* The library is "shared by every appliance entry" (store.py), and a preset is
\* looked up for an appliance: an edit of presets that are not appliance d's
\* changes nothing in what a name finds for d, though names are shared.  It does
\* if it takes the id of one of d's: see the README.
AppliancesApart ==
    [][ \A d \in Devices, id \in Names :
          (\A lib \in {presets, presets'} : \A i \in DOMAIN lib :
             lib[i].id = id => lib[i].device # d)
          /\ (\E c \in Callers : \/ Delete(c, id)
                                 \/ \E device \in Devices :
                                       \/ Create(c, id, device)
                                       \/ \E name \in Names : Edit(c, id, name, device))
          => \A key \in Names : Find(presets', key, d) = Find(presets, key, d)
      ]_libraryVars

=============================================================================
