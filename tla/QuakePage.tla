------------------------------ MODULE QuakePage ------------------------------
(***************************************************************************)
(* The pages that use a Dgrid.  The page of the earthquakes                *)
(* (yearSelection.js, quakeDataLoader.js) asks for the quakes of the year  *)
(* its slider shows, makes a grid of each answer, in the mode "single",    *)
(* and opens the popup of the map at the quake that is selected.  The      *)
(* other host is any page that calls the library.                          *)
(***************************************************************************)
EXTENDS Dgrid

CONSTANTS Years,       \* what the slider may show
          Features,    \* Features[y]: the quakes of year y, a sequence of Items
          PageFields,  \* the columns of the page: its Name and Magnitude
          MaxQueries,  \* bound: queries under way
          MaxRows      \* bound: rows made since the last refresh

ASSUME QuakeAssumption == /\ Years # {}
                          /\ Features \in [Years -> Seq(Items)]
                          /\ PageFields \subseteq Fields
                          /\ MaxQueries \in Nat
                          /\ MaxRows \in Nat

VARIABLES
  host,        \* "page", or "other"
  layerReady,  \* whether the promise of rootLayer is resolved
  slider,      \* yearsSlider.value
  waiting,     \* inputs whose query waits for the layer
  queries,     \* the years of the queries under way
  popup        \* the quake rootView.popup was last opened at, or None

pageVars == <<host, layerReady, slider, waiting, queries, popup>>
vars == <<gridVars, pageVars>>

TypeOK == /\ DgridTypeOK
          /\ host \in {"page", "other"}
          /\ layerReady \in BOOLEAN
          /\ slider \in Years
          /\ waiting \in 0..MaxQueries
          /\ queries \in Seq(Years) /\ Len(queries) + waiting <= MaxQueries
          /\ popup \in Items \cup {None}

Init == /\ host \in {"page", "other"}
        /\ columns = PageFields
        /\ sort = <<>>
        /\ sortNode = None
        /\ arrow = None
        /\ selectionMode = "single"
        /\ lastSelected = None
        /\ waitForMouseUp = None
        /\ object = <<>>
        /\ autoRowId = 0
        /\ collection = <<>>
        /\ sel = NothingSelected
        /\ layerReady = FALSE
        /\ slider = CHOOSE y \in Years : TRUE
        /\ waiting = 0
        /\ queries = <<>>
        /\ popup = None

-----------------------------------------------------------------------------
(* the page of the earthquakes *)

\* The slider moves: queryingFeatures runs at once, or when the layer is ready.
Input(year) ==
  /\ host = "page"
  /\ Len(queries) + waiting < MaxQueries
  /\ slider' = year
  /\ \/ layerReady /\ queries' = Append(queries, year) /\ UNCHANGED waiting
     \/ ~layerReady /\ waiting' = waiting + 1 /\ UNCHANGED queries
  /\ UNCHANGED <<gridVars, host, layerReady, popup>>

\* queryingFeatures of the inputs so far: each reads the slider now.
LayerReady ==
  /\ host = "page" /\ ~layerReady
  /\ layerReady' = TRUE
  /\ queries' = queries \o [i \in 1..waiting |-> slider]
  /\ waiting' = 0
  /\ UNCHANGED <<gridVars, host, slider, popup>>

Others(i) == [j \in 1..(Len(queries) - 1) |-> queries[IF j < i THEN j ELSE j + 1]]

\* displayingFeatures and loadData: a new grid takes the node of the one before.
Displayed(i) ==
  /\ host = "page" /\ i \in DOMAIN queries
  /\ queries' = Others(i)
  /\ Rendered(<<>>, 0, Features[queries[i]], NothingSelected)
  /\ columns' = PageFields
  /\ sort' = <<>> /\ sortNode' = None /\ arrow' = None
  /\ selectionMode' = "single"
  /\ lastSelected' = None /\ waitForMouseUp' = None
  /\ UNCHANGED <<host, layerReady, slider, waiting, popup>>

QueryFails(i) == /\ host = "page" /\ i \in DOMAIN queries
                 /\ queries' = Others(i)
                 /\ UNCHANGED <<gridVars, host, layerReady, slider, waiting, popup>>

-----------------------------------------------------------------------------
(* calls of the library by another page, on rows that are there *)

Fits(items) == autoRowId + Len(items) <= MaxRows

LibraryCall ==
  /\ host = "other"
  /\ \/ \E y \in Years : /\ Fits(Features[y])
                         /\ renderArray(Features[y])
                         /\ UNCHANGED <<sortVars, selectionMode, mouseVars>>
     \/ \E r \in Rows : removeRow(r)
     \/ \E r, to \in Rows, value \in BOOLEAN \cup {None} :
          /\ sel' = select(sel, r, to, value)
          /\ UNCHANGED <<rowVars, sortVars, selectionMode, mouseVars>>
     \/ /\ sel' = clearSelection(sel)
        /\ lastSelected' = None
        /\ UNCHANGED <<rowVars, sortVars, selectionMode, waitForMouseUp>>
     \/ \E mode \in Modes : setSelectionMode(mode)
     \/ \E by \in Sort : setSort(by, sortNode)
     \/ \E fields \in SUBSET Fields : setColumns(fields)
  /\ UNCHANGED pageVars

-----------------------------------------------------------------------------

\* A click on a header cell, or a button of the mouse over a row: the page's
\* listener of dgrid-select opens the popup at the row that is told.
User ==
  \/ \E f \in columns : HeaderClick(f) /\ UNCHANGED pageVars
  \/ /\ \E r \in Rows, right, ctrl, shift \in BOOLEAN :
          MouseDown(r, right, ctrl, shift) \/ MouseUp(r, right, ctrl, shift)
     /\ LET told == IF host = "page" THEN sel'.heard \ sel.heard ELSE {} IN
        popup' = IF told = {} THEN popup ELSE object[CHOOSE r \in told : TRUE]
     /\ UNCHANGED <<host, layerReady, slider, waiting, queries>>

Next == \/ \E y \in Years : Input(y)
        \/ LayerReady
        \/ \E i \in 1..MaxQueries : Displayed(i) \/ QueryFails(i)
        \/ LibraryCall
        \/ User

Spec == Init /\ [][Next]_vars

-----------------------------------------------------------------------------
(* properties *)

\* The traces of a selection agree, whatever mixes of clicks, ranges, removals,
\* sorts and changes of columns made it: the rows of the selection object are
\* rows of the grid, those that look selected, and those that a listener of
\* dgrid-select and dgrid-deselect believes to be selected.
SelectionIsShownAndTold == /\ sel.selection \subseteq Rows
                           /\ sel.marked = sel.selection
                           /\ sel.heard = sel.selection

\* On the page of the earthquakes, a row that is selected is the only one, and
\* the popup has been opened at its quake: never at one of an answer before, or
\* at the quake that a sort has moved away from there.
PopupIsOfTheSelectedQuake ==
  host = "page" /\ sel.selection # {} =>
    \E r \in Rows : sel.selection = {r} /\ popup = object[r]

\* The header shows the sort there is: an arrow in the column the rows are sorted
\* by, if that column is shown, with the direction; on the page of the
\* earthquakes the rows are in that order.
SortIsShown ==
  /\ arrow = IF sort = <<>> \/ sort[1].property \notin columns THEN None ELSE sort[1]
  /\ host = "page" /\ sort # <<>> =>
       \A q, r \in Rows : q < r => LET a == Value[sort[1].property][object[q]]
                                       b == Value[sort[1].property][object[r]]
                                   IN a = b \/ (a > b <=> sort[1].descending)
=============================================================================
