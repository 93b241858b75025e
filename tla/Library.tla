------------------------------ MODULE Library ------------------------------
(***************************************************************************)
(* The disc library of the desktop frontend (`LibraryModel`): a list       *)
(* rebuilt from folders of the host, which change behind its back, and a   *)
(* selection that gamepad and mouse move.  Titles are numbers in the       *)
(* order of their file names.                                              *)
(***************************************************************************)
EXTENDS Integers, Sequences, Lists

CONSTANTS
    Slots,          \* number of formats; format n has folder n
    Title           \* numbers of the discs a folder may hold

ASSUME LibraryAssumption == Slots \in Nat \ {0} /\ Title \subseteq Nat

VARIABLES
    onDisk,         \* what the folder of each format holds
    configured,     \* which formats have a folder
    entries,        \* the titles listed of each format; the list is one behind the other
    tab, focus, selection,
    chosen          \* the disc this step hands to the player, or NoTitle

libraryVars == <<onDisk, configured, entries, tab, focus, selection, chosen>>
cursor == <<tab, focus, selection>>

Format == 0..(Slots - 1)
OpenFocus == Slots          \* the "Open .cue" button beside the formats
NoTitle == <<Slots, 0>>

\* `sort`: in the order of names.
Scanned == [f \in Format |-> IF configured[f] THEN Ascending(onDisk[f]) ELSE <<>>]

Clamped(row, list) == IF row < Len(list) THEN row ELSE IF list = <<>> THEN 0 ELSE Len(list) - 1

\* `scan`: a format without discs gives way to the first that has some.
Populated(list) == {f \in Format : list[f] # <<>>}
FirstPopulated(list) == CHOOSE f \in Populated(list) : \A g \in Populated(list) : f <= g

AfterScan(list, f, row) ==
    IF list[tab] = <<>> /\ Populated(list) # {}
    THEN LET first == FirstPopulated(list)
         IN  [tab |-> first, focus |-> first, selection |-> Clamped(row, list[first])]
    ELSE [tab |-> tab, focus |-> f, selection |-> Clamped(row, list[tab])]

PlaceAt(c) == tab' = c.tab /\ focus' = c.focus /\ selection' = c.selection

\* The folders changed in the settings.
Rescan ==
    /\ entries' = Scanned
    /\ PlaceAt(AfterScan(Scanned, focus, selection))
    /\ chosen' = NoTitle
    /\ UNCHANGED <<onDisk, configured>>

\* `enter`: the library is opened.
Enter ==
    /\ entries' = Scanned
    /\ LET c == AfterScan(Scanned, focus, selection)
       IN  PlaceAt([tab |-> c.tab, focus |-> c.tab, selection |-> 0])
    /\ chosen' = NoTitle
    /\ UNCHANGED <<onDisk, configured>>

SetFolder(f, is) ==
    /\ configured' = [configured EXCEPT ![f] = is]
    /\ chosen' = NoTitle
    /\ UNCHANGED <<onDisk, entries, cursor>>

\* Another program adds or removes a disc.
DiskChanges ==
    /\ \E f \in Format, t \in Title :
          onDisk' = [onDisk EXCEPT ![f] = IF t \in @ THEN @ \ {t} ELSE @ \cup {t}]
    /\ chosen' = NoTitle
    /\ UNCHANGED <<configured, entries, cursor>>

\* The disc under the cursor, if there is one.
Under == IF selection < Len(entries[tab]) THEN <<tab, entries[tab][selection + 1]>> ELSE NoTitle

\* Mutant: the row is kept, whatever has been sorted before it.
RefreshedByRow ==
    LET c == AfterScan(Scanned, focus, selection) IN
    [c EXCEPT !.focus = IF focus = OpenFocus THEN OpenFocus ELSE c.focus]

\* `refresh`: the selected disc stays selected where it is still listed, and
\* "Open .cue" keeps the focus.
Refreshed ==
    LET c == AfterScan(Scanned, focus, selection)
        list == Scanned[tab]
        rows == {i \in DOMAIN list : Under = <<tab, list[i]>>}
        kept == IF list = <<>> THEN c
                ELSE [tab |-> tab, focus |-> IF focus < Slots THEN tab ELSE focus,
                      selection |-> IF rows # {} THEN (CHOOSE i \in rows : TRUE) - 1
                                    ELSE Clamped(selection, list)]
    IN  [kept EXCEPT !.focus = IF focus = OpenFocus THEN OpenFocus ELSE kept.focus]

\* The refresh button. The pass that paints the library puts the tab it began
\* with back at its end, at the first row.
Refresh ==
    /\ entries' = Scanned
    /\ PlaceAt(IF Refreshed.tab = tab THEN Refreshed
               ELSE [tab |-> tab, focus |-> tab, selection |-> 0])
    /\ chosen' = NoTitle
    /\ UNCHANGED <<onDisk, configured>>

\* A click on a format, on "Open .cue" or on a row, which loads its disc.
SelectTab(f) == PlaceAt([tab |-> f, focus |-> f, selection |-> 0])
             /\ chosen' = NoTitle /\ UNCHANGED <<onDisk, configured, entries>>

FocusOpen == focus' = OpenFocus /\ chosen' = NoTitle
          /\ UNCHANGED <<onDisk, configured, entries, tab, selection>>

ClickRow(row) ==
    /\ focus # OpenFocus
    /\ PlaceAt([tab |-> tab, focus |-> tab, selection |-> row])
    /\ chosen' = <<tab, entries[tab][row + 1]>>
    /\ UNCHANGED <<onDisk, configured, entries>>

\* Mutant: a format reached with the pad keeps the row.
CycleKeepsRow(by) ==
    LET f == (focus + by + Slots + 1) % (Slots + 1)
    IN  [tab |-> IF f < Slots THEN f ELSE tab, focus |-> f, selection |-> selection]

\* `apply`: bumpers and triggers go round the formats and "Open .cue".
Cycle(by) ==
    LET f == (focus + by + Slots + 1) % (Slots + 1)
    IN  [tab |-> IF f < Slots THEN f ELSE tab, focus |-> f, selection |-> 0]

PadTab ==
    /\ \E by \in {-1, 1} : PlaceAt(Cycle(by))
    /\ chosen' = NoTitle
    /\ UNCHANGED <<onDisk, configured, entries>>

PadRow ==
    /\ focus < Slots
    /\ LET n == Len(entries[tab])
       IN  selection' \in IF n = 0 THEN {0} ELSE {(selection + 1) % n, (selection + n - 1) % n}
    /\ chosen' = NoTitle
    /\ UNCHANGED <<onDisk, configured, entries, tab, focus>>

PadActivate ==
    /\ focus # OpenFocus
    /\ Under # NoTitle
    /\ chosen' = Under
    /\ UNCHANGED <<onDisk, configured, entries, cursor>>

LibraryInit ==
    /\ onDisk = [f \in Format |-> {}]
    /\ configured = [f \in Format |-> FALSE]
    /\ entries = [f \in Format |-> <<>>]
    /\ tab = 0 /\ focus = 0 /\ selection = 0
    /\ chosen = NoTitle

LibraryNext ==
    \/ Rescan \/ Enter \/ Refresh \/ DiskChanges
    \/ \E f \in Format, is \in BOOLEAN : SetFolder(f, is)
    \/ \E f \in Format : SelectTab(f)
    \/ FocusOpen
    \/ \E row \in 0..(Len(entries[tab]) - 1) : ClickRow(row)
    \/ PadTab \/ PadRow \/ PadActivate

LibrarySpec == LibraryInit /\ [][LibraryNext]_libraryVars

-----------------------------------------------------------------------------
(* Properties.                                                             *)

\* The cursor is on an entry whenever the format shown has any, whichever list
\* replaced the one it was placed in, and the focus is on the format shown or
\* on "Open .cue". A list has each title once, in their order.
CursorOnAnEntry ==
    /\ tab \in Format
    /\ focus \in {tab, OpenFocus}
    /\ entries[tab] # <<>> => selection \in 0..(Len(entries[tab]) - 1)
    /\ \A f \in Format : \A i, j \in DOMAIN entries[f] :
          entries[f][i] \in Title /\ (i < j => entries[f][i] < entries[f][j])

\* "Stable paths retain their selection even if newly discovered entries sort
\* before them": a refresh leaves the cursor on the disc it was on, if that is
\* still there.
RefreshKeepsSelection ==
    [][Refresh /\ Under # NoTitle /\ (\E i \in DOMAIN entries'[tab] : Under = <<tab, entries'[tab][i]>>)
          => Under' = Under]_libraryVars

\* Both: the cursor is always on an entry, and a refresh leaves it on its disc
\* (library.rs:275).
SelectionKept == []CursorOnAnEntry /\ RefreshKeepsSelection
=============================================================================
