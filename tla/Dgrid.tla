-------------------------------- MODULE Dgrid --------------------------------
(***************************************************************************)
(* A grid of the dgrid library (List.js, Grid.js, Selection.js): the rows  *)
(* it shows, the sort and the arrow in its header, and the selection with  *)
(* its four traces: the selection object, the class of the row elements,   *)
(* the events, and the rows a mouse selection starts from.                 *)
(*                                                                         *)
(* The grid has no collection (no store), so that its rows are numbered in *)
(* the order they are made in and selectAll() cannot be used; a row's      *)
(* number is its element as long as the row is there.  Layout is left out. *)
(***************************************************************************)
EXTENDS Integers, Sequences, FiniteSets

CONSTANTS Items,           \* the objects that rows show
          Fields,          \* the fields of an object; a column shows one
          Value,           \* Value[f][o], the value of field f of object o
          HasNeutralSort,  \* hasNeutralSort
          None             \* null

ASSUME DgridAssumption == /\ HasNeutralSort \in BOOLEAN
                          /\ Value \in [Fields -> [Items -> Int]]

Modes == {"none", "single", "multiple", "extended", "toggle"}

VARIABLES
  object,        \* _rowIdToObject: what each row shows
  autoRowId,     \* _autoRowId
  collection,    \* _lastCollection
  columns,       \* the fields shown
  sort,          \* sort: <<>>, or <<[property, descending]>>
  sortNode,      \* _sortNode: the header cell that was clicked, or None
  arrow,         \* the arrow in the header: [property, descending], or None
  selectionMode, \* selectionMode
  sel,           \* selection: ids; marked: rows with the class dgrid-selected;
                 \* heard: rows a listener of the two events knows to be selected
  lastSelected,  \* _lastSelected: a row, Gone once it is removed, or None
  waitForMouseUp \* _waitForMouseUp: a row, or None

rowVars   == <<object, autoRowId, collection>>
sortVars  == <<columns, sort, sortNode, arrow>>
mouseVars == <<lastSelected, waitForMouseUp>>
gridVars  == <<rowVars, sortVars, selectionMode, sel, mouseVars>>

Rows == DOMAIN object
Gone == -1
Sort == {<<>>} \cup {<<[property |-> f, descending |-> d]>> : f \in Fields, d \in BOOLEAN}

DgridTypeOK ==
  /\ Rows \subseteq 0..(autoRowId - 1) /\ \A r \in Rows : object[r] \in Items
  /\ autoRowId \in Nat
  /\ collection \in Seq(Items)
  /\ columns \subseteq Fields
  /\ sort \in Sort
  /\ sortNode \in Fields \cup {None}
  /\ arrow \in [property : Fields, descending : BOOLEAN] \cup {None}
  /\ selectionMode \in Modes
  /\ sel \in [selection : SUBSET Nat, marked : SUBSET Nat, heard : SUBSET Nat]
  /\ lastSelected \in Rows \cup {None, Gone}
  /\ waitForMouseUp \in Rows \cup {None}

NothingSelected == [selection |-> {}, marked |-> {}, heard |-> {}]

-----------------------------------------------------------------------------
(* selecting: the operators take the selection before and give the one after *)

\* Mutant of _select: the event is left out for rows that are deselected.
SelectedQuietly(s, rows, value) ==
  [s EXCEPT !.selection = IF value THEN @ \cup rows ELSE @ \ rows,
            !.marked = IF value THEN @ \cup (rows \cap Rows) ELSE @ \ rows,
            !.heard = IF value THEN @ \cup ((rows \ s.selection) \cap Rows) ELSE @]

\* _select of rows that get the same value, and the events for those it changes.
_select(s, rows, value) ==
  LET changed == (IF value THEN rows \ s.selection ELSE rows \cap s.selection) \cap Rows IN
  [selection |-> IF value THEN s.selection \cup rows ELSE s.selection \ rows,
   marked |-> IF value THEN s.marked \cup (rows \cap Rows) ELSE s.marked \ rows,
   heard |-> IF value THEN s.heard \cup changed ELSE s.heard \ changed]

\* The rows from one row to another: _move goes up or down one row at a time.
RowsBetween(from, to) == {r \in Rows : (from <= r /\ r <= to) \/ (to <= r /\ r <= from)}

\* The value of select(): TRUE, FALSE, or None to toggle the row it starts from.
select(s, from, to, value) ==
  _select(s, RowsBetween(from, to), IF value = None THEN from \notin s.selection ELSE value)

clearSelection(s) == _select(s, s.selection, FALSE)

\* The selection handlers of the modes give the selection and _lastSelected.
SingleHandler(row, ctrl) ==
  IF lastSelected = row
  THEN <<_select(sel, {row}, ~ctrl \/ row \notin sel.selection), lastSelected>>
  ELSE <<_select(clearSelection(sel), {row}, TRUE), row>>

\* A range whose first row is gone is reset to the row of the event.
MultipleHandler(s, row, ctrl, shift) ==
  IF shift /\ lastSelected \in Rows
  THEN <<select(s, row, lastSelected, TRUE), lastSelected>>
  ELSE <<select(s, row, row, IF ctrl /\ ~shift THEN None ELSE TRUE), row>>

ExtendedHandler(row, right, ctrl, shift) ==
  LET keeps == IF right THEN row \in sel.selection ELSE ctrl IN
  MultipleHandler(IF keeps THEN sel ELSE clearSelection(sel), row, ctrl, shift)

ToggleHandler(row) == <<select(sel, row, row, None), lastSelected>>

SelectionHandler(row, right, ctrl, shift) ==
  CASE selectionMode = "single"   -> SingleHandler(row, ctrl)
    [] selectionMode = "multiple" -> MultipleHandler(sel, row, ctrl, shift)
    [] selectionMode = "extended" -> ExtendedHandler(row, right, ctrl, shift)
    [] selectionMode = "toggle"   -> ToggleHandler(row)

Handle(row, right, ctrl, shift) ==
  LET after == SelectionHandler(row, right, ctrl, shift)
  IN sel' = after[1] /\ lastSelected' = after[2]

\* _handleSelect for a button that goes down: a selected row waits for it to go up.
MouseDown(row, right, ctrl, shift) ==
  /\ selectionMode # "none"
  /\ row \in Rows
  /\ \/ /\ ~shift /\ row \in sel.selection
        /\ waitForMouseUp' = row
        /\ UNCHANGED <<sel, lastSelected>>
     \/ /\ shift \/ row \notin sel.selection
        /\ waitForMouseUp' = None
        /\ Handle(row, right, ctrl, shift)
  /\ UNCHANGED <<rowVars, sortVars, selectionMode>>

MouseUp(row, right, ctrl, shift) ==
  /\ selectionMode # "none"
  /\ row \in Rows /\ row = waitForMouseUp
  /\ waitForMouseUp' = None
  /\ Handle(row, right, ctrl, shift)
  /\ UNCHANGED <<rowVars, sortVars, selectionMode>>

-----------------------------------------------------------------------------
(* rows *)

\* Mutant: the numbers given to the rows are not counted.
RenderedUncounted(shown, next, items, s) ==
  /\ collection' = items
  /\ autoRowId' = next
  /\ object' = [r \in DOMAIN shown \cup next..(next + Len(items) - 1) |->
                  IF r >= next THEN items[r - next + 1] ELSE shown[r]]
  /\ sel' = s

\* renderArray of items after shown, on a grid that has shown and selection s:
\* rows already selected by their number get the class, without an event.
Rendered(shown, next, items, s) ==
  /\ collection' = items
  /\ autoRowId' = next + Len(items)
  /\ object' = [r \in DOMAIN shown \cup next..(next + Len(items) - 1) |->
                  IF r >= next THEN items[r - next + 1] ELSE shown[r]]
  /\ sel' = [s EXCEPT !.marked = @ \cup (s.selection \cap next..(next + Len(items) - 1))]

renderArray(items) == Rendered(object, autoRowId, items, sel)

\* Mutant: a refresh that does not deselect.
RefreshKeepsSelection(items) == /\ lastSelected' = None
                                /\ waitForMouseUp' = None
                                /\ Rendered(<<>>, 0, items, [sel EXCEPT !.marked = {}])

\* refresh() and then renderArray(): the selection is cleared while the rows are
\* still there; no element of before can be met again.
refresh(items) == /\ lastSelected' = None
                  /\ waitForMouseUp' = None
                  /\ Rendered(<<>>, 0, items, clearSelection(sel))

\* removeRow, with the advice that deselects the row before.
removeRow(row) ==
  /\ row \in Rows
  /\ sel' = IF row \in sel.selection THEN _select(sel, {row}, FALSE) ELSE sel
  /\ object' = [r \in Rows \ {row} |-> object[r]]
  /\ lastSelected' = IF lastSelected = row THEN Gone ELSE lastSelected
  /\ waitForMouseUp' = IF waitForMouseUp = row THEN None ELSE waitForMouseUp
  /\ UNCHANGED <<autoRowId, collection, sortVars, selectionMode>>

-----------------------------------------------------------------------------
(* sort and columns *)

\* The order of _applySort: equal values stay in the order they are in.
Before(items, by, i, j) ==
  LET a == Value[by.property][items[i]]
      b == Value[by.property][items[j]]
  IN IF a = b THEN i < j ELSE a > b <=> by.descending

\* The collection, sorted in place: the i-th is the one with i - 1 before it.
Sorted(items, by) ==
  [n \in DOMAIN items |->
     items[CHOOSE i \in DOMAIN items :
             Cardinality({j \in DOMAIN items : Before(items, by, j, i)}) = n - 1]]

\* Mutant: the clicked node is remembered after the arrow is placed.
ArrowKeepsNode(by, fields, node) ==
  /\ sortNode' = node
  /\ arrow' = IF by = <<>> \/ (node = None /\ by[1].property \notin fields) THEN None
              ELSE [property |-> IF node # None THEN node ELSE by[1].property,
                    descending |-> by[1].descending]

\* The arrow goes under the node that was clicked, or under the column of the
\* sort; without a sort the node is not forgotten.
updateSortArrow(by, fields, node) ==
  /\ sortNode' = IF by = <<>> THEN node ELSE None
  /\ arrow' = IF by = <<>> \/ (node = None /\ by[1].property \notin fields) THEN None
              ELSE [property |-> IF node # None THEN node ELSE by[1].property,
                    descending |-> by[1].descending]

\* set("sort", by), with the node clicked if that is where it comes from.
setSort(by, node) ==
  /\ sort' = by
  /\ refresh(IF by = <<>> THEN collection ELSE Sorted(collection, by[1]))
  /\ updateSortArrow(by, columns, node)
  /\ UNCHANGED <<columns, selectionMode>>

\* A click on the header cell of a field: ascending, descending, and neutral.
HeaderClick(field) ==
  /\ field \in columns
  /\ LET sorted == sort # <<>> /\ sort[1].property = field IN
     setSort(IF HasNeutralSort /\ sorted /\ sort[1].descending THEN <<>>
             ELSE <<[property |-> field, descending |-> sorted /\ ~sort[1].descending]>>,
             field)

\* set("columns", fields): header and rows are made anew, then the arrow.
setColumns(fields) ==
  /\ columns' = fields
  /\ refresh(collection)
  /\ \/ sort # <<>> /\ updateSortArrow(sort, fields, sortNode)
     \/ sort = <<>> /\ UNCHANGED <<sortNode, arrow>>
  /\ UNCHANGED <<sort, selectionMode>>

setSelectionMode(mode) ==
  /\ mode # selectionMode
  /\ selectionMode' = mode
  /\ sel' = clearSelection(sel)
  /\ lastSelected' = None
  /\ UNCHANGED <<rowVars, sortVars, waitForMouseUp>>
=============================================================================
