------------------------------- MODULE Picker -------------------------------
(***************************************************************************)
(* The model picker of `darkbloom start` (main.rs): the list of catalog    *)
(* models built from what is on the disk, and the keys that choose from it *)
(* under a memory budget.                                                  *)
(***************************************************************************)
EXTENDS Integers, Sequences, FiniteSets, FiniteSetsExt, SequencesExt

CONSTANTS
    Catalog,  \* the text models of the catalog
    SizeGB,   \* their size in the catalog (rounded)
    MinRam,   \* the memory the catalog asks for
    DiskGB,   \* the memory estimated from the files on the disk (1.2 x their bytes)
    Memories, \* the memory a machine may have
    Reserve   \* 4 GB kept for the system

VARIABLES
    memory,   \* of this machine
    present,  \* the models that are on the disk, complete
    entries,  \* the list, as it is shown
    cursor,   \* the highlighted row
    selected, \* the chosen rows
    ppc       \* "open" | "confirmed" | "cancelled"

pickVars == <<memory, present, entries, cursor, selected, ppc>>

Entry(m, onDisk) == [id |-> m, downloaded |-> m \in onDisk,
                     size |-> IF m \in onDisk THEN DiskGB[m] ELSE SizeGB[m]]

(* A plausible bug: the list is sorted by size alone.                      *)
BySizeOnly(a, b) == a.size > b.size

(* Downloaded models first, then by descending size.                       *)
Before(a, b) == \/ a.downloaded /\ ~b.downloaded
                \/ a.downloaded = b.downloaded /\ a.size > b.size

Items(mem, onDisk) ==
    SetToSortSeq({Entry(m, onDisk) : m \in {c \in Catalog : MinRam[c] <= mem}}, Before)

(* The first downloaded entry is chosen beforehand.                        *)
Preselected(es) == LET d == {i \in DOMAIN es : es[i].downloaded}
                   IN  {i \in d : \A j \in d : i <= j}

PickInit ==
    /\ memory \in Memories /\ present \in SUBSET Catalog
    /\ entries = Items(memory, present) /\ entries # <<>>
    /\ cursor = 1 /\ selected = Preselected(entries) /\ ppc = "open"

Budget == memory - Reserve

Used(rows) == MapThenSumSet(LAMBDA r : entries[r].size, rows)

-----------------------------------------------------------------------------
(* The keys.                                                               *)

Fixed == UNCHANGED <<memory, present, entries>>

KeyUp == ppc = "open" /\ cursor > 1 /\ cursor' = cursor - 1 /\ Fixed /\ UNCHANGED <<selected, ppc>>

KeyDown == /\ ppc = "open" /\ cursor < Len(entries) /\ cursor' = cursor + 1
           /\ Fixed /\ UNCHANGED <<selected, ppc>>

(* A row can always be dropped, and taken when it fits with the others.    *)
KeySpace ==
    /\ ppc = "open" /\ Fixed /\ UNCHANGED <<cursor, ppc>>
    /\ \/ cursor \in selected /\ selected' = selected \ {cursor}
       \/ /\ cursor \notin selected /\ Used(selected) + entries[cursor].size <= Budget
          /\ selected' = selected \union {cursor}

KeyEnter == ppc = "open" /\ selected # {} /\ ppc' = "confirmed" /\ Fixed /\ UNCHANGED <<cursor, selected>>

KeyQuit == ppc = "open" /\ ppc' = "cancelled" /\ Fixed /\ UNCHANGED <<cursor, selected>>

PickNext == KeyUp \/ KeyDown \/ KeySpace \/ KeyEnter \/ KeyQuit

PickSpec == PickInit /\ [][PickNext]_pickVars

-----------------------------------------------------------------------------
(* The rows as render draws them: first the downloaded entries, then the   *)
(* others, numbered by a counter of its own.                               *)
Rendered == SelectSeq(entries, LAMBDA e : e.downloaded)
            \o SelectSeq(entries, LAMBDA e : ~e.downloaded)

PickTypeOK ==
    /\ memory \in Memories /\ present \subseteq Catalog
    /\ Len(entries) \in 1..Cardinality(Catalog)
    /\ cursor \in 1..Len(entries) /\ selected \subseteq 1..Len(entries)
    /\ ppc \in {"open", "confirmed", "cancelled"}

(* The marks and the arrow are drawn beside the entries they stand for:    *)
(* render's own numbering is the numbering of the list.                    *)
MarksTheRightRow == \A i \in 1..Len(entries) : Rendered[i] = entries[i]

(* More than the memory budget is chosen only by leaving the preselected   *)
(* model, alone, as it was.                                                *)
OnlyPresetExceeds == Used(selected) > Budget => selected = Preselected(entries)

(* The picker shows what is chosen and chooses what fits.                  *)
PickerIsRight == MarksTheRightRow /\ OnlyPresetExceeds
=============================================================================
