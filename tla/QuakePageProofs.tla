--------------------------- MODULE QuakePageProofs ---------------------------
(***************************************************************************)
(* The selection of a grid, the popup and the order of the rows, for any   *)
(* data, any number of rows and queries, and any calls of the library.     *)
(***************************************************************************)
EXTENDS QuakePage, FiniteSetTheorems, TLAPS

-----------------------------------------------------------------------------
(* Sorting: Before is a total order, so that each place is taken by one. *)

Orders == [property : Fields, descending : BOOLEAN]

LEMMA BeforeIsATotalOrder ==
  ASSUME NEW items \in Seq(Items), NEW by \in Orders,
         NEW i \in DOMAIN items, NEW j \in DOMAIN items, NEW l \in DOMAIN items
  PROVE  /\ ~Before(items, by, i, i)
         /\ i # j => Before(items, by, i, j) \/ Before(items, by, j, i)
         /\ Before(items, by, i, j) /\ Before(items, by, j, l) => Before(items, by, i, l)
<1> DEFINE v(n) == Value[by.property][items[n]]
<1>1. v(i) \in Int /\ v(j) \in Int /\ v(l) \in Int /\ i \in Nat /\ j \in Nat /\ l \in Nat
  BY DgridAssumption DEF Orders
<1>2. \A m, n \in {i, j, l} :
        Before(items, by, m, n) <=> IF v(m) = v(n) THEN m < n ELSE (v(m) > v(n) <=> by.descending)
  BY DEF Before
<1>3. by.descending \in BOOLEAN
  BY DEF Orders
<1> HIDE DEF v
<1>4. CASE by.descending
  <2>1. \A m, n \in {i, j, l} : Before(items, by, m, n) <=> v(m) > v(n) \/ (v(m) = v(n) /\ m < n)
    BY <1>1, <1>2, <1>4
  <2>2. QED
    BY <1>1, <2>1
<1>5. CASE ~by.descending
  <2>1. \A m, n \in {i, j, l} : Before(items, by, m, n) <=> v(m) < v(n) \/ (v(m) = v(n) /\ m < n)
    BY <1>1, <1>2, <1>5
  <2>2. QED
    BY <1>1, <2>1
<1>6. QED
  BY <1>3, <1>4, <1>5

Preceding(items, by, i) == {j \in DOMAIN items : Before(items, by, j, i)}

LEMMA PrecedingIsFinite ==
  ASSUME NEW items \in Seq(Items), NEW by \in Orders, NEW i \in DOMAIN items
  PROVE  /\ IsFiniteSet(Preceding(items, by, i))
         /\ Cardinality(Preceding(items, by, i)) \in 0..(Len(items) - 1)
<1>1. IsFiniteSet(1..Len(items)) /\ Cardinality(1..Len(items)) = Len(items)
  <2>1. Len(items) \in Int /\ 1 \in Int /\ Len(items) >= 1
    OBVIOUS
  <2>2. QED
    BY <2>1, FS_Interval
<1>2. /\ IsFiniteSet((1..Len(items)) \ {i})
      /\ Cardinality((1..Len(items)) \ {i}) = Len(items) - 1
  <2>1. i \in 1..Len(items)
    OBVIOUS
  <2>2. QED
    BY <1>1, <2>1, FS_RemoveElement
<1>3. Preceding(items, by, i) \in SUBSET ((1..Len(items)) \ {i})
  BY BeforeIsATotalOrder DEF Preceding
<1>4. /\ IsFiniteSet(Preceding(items, by, i))
      /\ Cardinality(Preceding(items, by, i)) <= Len(items) - 1
  BY <1>2, <1>3, FS_Subset
<1>5. Cardinality(Preceding(items, by, i)) \in Nat
  <2>1. ASSUME NEW S, IsFiniteSet(S) PROVE Cardinality(S) \in Nat
    BY <2>1, FS_CardinalityType
  <2>2. QED
    BY <1>4, <2>1
<1>6. Len(items) \in Nat
  OBVIOUS
<1>7. QED
  BY <1>4, <1>5, <1>6

LEMMA RankGrows ==
  ASSUME NEW items \in Seq(Items), NEW by \in Orders,
         NEW i \in DOMAIN items, NEW j \in DOMAIN items, Before(items, by, i, j)
  PROVE  Cardinality(Preceding(items, by, i)) < Cardinality(Preceding(items, by, j))
<1> DEFINE P(n) == Preceding(items, by, n)
<1>1. P(i) \cup {i} \in SUBSET P(j) /\ i \notin P(i)
  BY BeforeIsATotalOrder DEF Preceding
<1>2. /\ IsFiniteSet(P(i)) /\ IsFiniteSet(P(j))
      /\ Cardinality(P(i)) \in Nat /\ Cardinality(P(j)) \in Nat
  <2>1. /\ IsFiniteSet(P(i)) /\ Cardinality(P(i)) \in 0..(Len(items) - 1)
        /\ IsFiniteSet(P(j)) /\ Cardinality(P(j)) \in 0..(Len(items) - 1)
    BY PrecedingIsFinite
  <2>2. QED
    BY <2>1
<1> HIDE DEF P
<1>3. Cardinality(P(i) \cup {i}) = Cardinality(P(i)) + 1
  BY <1>1, <1>2, FS_AddElement
<1>4. Cardinality(P(i) \cup {i}) <= Cardinality(P(j))
  BY <1>1, <1>2, FS_Subset
<1>5. QED
  BY <1>2, <1>3, <1>4 DEF P

\* Each place is that of some item, and the items are in order.
LEMMA SortedIsInOrder ==
  ASSUME NEW items \in Seq(Items), NEW by \in Orders
  PROVE  /\ Sorted(items, by) \in Seq(Items)
         /\ Len(Sorted(items, by)) = Len(items)
         /\ \A m, n \in 1..Len(items) : m < n =>
              LET a == Value[by.property][Sorted(items, by)[m]]
                  b == Value[by.property][Sorted(items, by)[n]]
              IN a = b \/ (a > b <=> by.descending)
<1> DEFINE k == Len(items)
           rank == [i \in 1..k |-> Cardinality(Preceding(items, by, i)) + 1]
           at(n) == CHOOSE i \in DOMAIN items :
                      Cardinality({j \in DOMAIN items : Before(items, by, j, i)}) = n - 1
<1>1. k \in Nat /\ DOMAIN items = 1..k
  OBVIOUS
<1>2. IsFiniteSet(1..k)
  <2>1. 1 \in Int /\ k \in Int
    BY <1>1
  <2>2. QED
    BY <2>1, FS_Interval
<1>3. rank \in [1..k -> 1..k]
  <2>1. ASSUME NEW i \in 1..k PROVE Cardinality(Preceding(items, by, i)) + 1 \in 1..k
    <3>1. Cardinality(Preceding(items, by, i)) \in 0..(k - 1)
      BY <1>1, PrecedingIsFinite
    <3>2. QED
      BY <1>1, <3>1
  <2>2. QED
    BY <2>1
<1>4. ASSUME NEW i \in 1..k, NEW j \in 1..k, rank[i] < rank[j]
      PROVE  Before(items, by, i, j)
  <2>1. rank[i] \in Nat /\ rank[j] \in Nat /\ i # j
    BY <1>3, <1>4
  <2>2. ~Before(items, by, j, i)
    <3>1. SUFFICES ASSUME Before(items, by, j, i) PROVE FALSE
      OBVIOUS
    <3>2. Cardinality(Preceding(items, by, j)) < Cardinality(Preceding(items, by, i))
      BY <1>1, <3>1, RankGrows
    <3>3. /\ Cardinality(Preceding(items, by, j)) \in 0..(k - 1)
          /\ Cardinality(Preceding(items, by, i)) \in 0..(k - 1)
      BY <1>1, PrecedingIsFinite
    <3>4. QED
      BY <1>1, <1>4, <3>2, <3>3
  <2>3. QED
    BY <1>1, <2>1, <2>2, BeforeIsATotalOrder
<1>5. rank \in Injection(1..k, 1..k)
  <2>1. ASSUME NEW i \in 1..k, NEW j \in 1..k, i # j PROVE rank[i] # rank[j]
    <3>1. Before(items, by, i, j) \/ Before(items, by, j, i)
      BY <1>1, <2>1, BeforeIsATotalOrder
    <3>2. \/ Cardinality(Preceding(items, by, i)) < Cardinality(Preceding(items, by, j))
          \/ Cardinality(Preceding(items, by, j)) < Cardinality(Preceding(items, by, i))
      BY <1>1, <3>1, RankGrows
    <3>3. /\ Cardinality(Preceding(items, by, j)) \in 0..(k - 1)
          /\ Cardinality(Preceding(items, by, i)) \in 0..(k - 1)
      BY <1>1, PrecedingIsFinite
    <3>4. QED
      BY <1>1, <3>2, <3>3
  <2>2. QED
    BY <1>3, <2>1 DEF Injection, IsInjective
<1>6. rank \in Surjection(1..k, 1..k)
  BY <1>2, <1>5, FS_Injection
<1>7. ASSUME NEW n \in 1..k PROVE at(n) \in 1..k /\ rank[at(n)] = n
  <2>1. PICK i \in 1..k : rank[i] = n
    BY <1>6 DEF Surjection
  <2>2. Cardinality({j \in DOMAIN items : Before(items, by, j, i)}) = n - 1
    <3>1. Cardinality(Preceding(items, by, i)) \in 0..(k - 1)
      BY <1>1, PrecedingIsFinite
    <3>2. QED
      BY <1>1, <2>1, <3>1 DEF Preceding
  <2>3. /\ at(n) \in DOMAIN items
        /\ Cardinality({j \in DOMAIN items : Before(items, by, j, at(n))}) = n - 1
    BY <1>1, <2>2, Zenon
  <2>4. QED
    BY <1>1, <2>3 DEF Preceding
<1>8. Sorted(items, by) = [n \in 1..k |-> items[at(n)]]
  BY <1>1 DEF Sorted
<1> HIDE DEF rank, at
<1>9. Sorted(items, by) \in Seq(Items) /\ Len(Sorted(items, by)) = k
  <2>1. \A n \in 1..k : items[at(n)] \in Items
    BY <1>1, <1>7
  <2>2. QED
    BY <1>1, <1>8, <2>1
<1>10. ASSUME NEW m \in 1..k, NEW n \in 1..k, m < n
       PROVE  LET a == Value[by.property][Sorted(items, by)[m]]
                  b == Value[by.property][Sorted(items, by)[n]]
              IN a = b \/ (a > b <=> by.descending)
  <2>1. Before(items, by, at(m), at(n))
    BY <1>4, <1>7, <1>10
  <2>2. QED
    BY <1>8, <2>1 DEF Before
<1>11. QED
  BY <1>9, <1>10

-----------------------------------------------------------------------------
(* Selecting keeps the traces of a selection in agreement. *)

Selections == [selection : SUBSET Nat, marked : SUBSET Nat, heard : SUBSET Nat]

Agree(s) == /\ s \in Selections
            /\ s.selection \subseteq Rows
            /\ s.marked = s.selection
            /\ s.heard = s.selection

LEMMA TracesAgree ==
  ASSUME NEW A \in SUBSET Nat, A \subseteq Rows
  PROVE  Agree([selection |-> A, marked |-> A, heard |-> A])
BY DEF Agree, Selections

LEMMA SelectAgrees ==
  ASSUME Rows \subseteq Nat, NEW s, Agree(s), NEW rows \in SUBSET Rows, NEW value \in BOOLEAN
  PROVE  /\ Agree(_select(s, rows, value))
         /\ _select(s, rows, value).selection = IF value THEN s.selection \cup rows
                                                ELSE s.selection \ rows
<1> DEFINE t == _select(s, rows, value)
<1>0. s.selection \subseteq Rows /\ s.marked = s.selection /\ s.heard = s.selection
  BY DEF Agree
<1>1. CASE value
  <2>1. t = [selection |-> s.selection \cup rows,
             marked |-> s.marked \cup (rows \cap Rows),
             heard |-> s.heard \cup ((rows \ s.selection) \cap Rows)]
    BY <1>1 DEF _select
  <2>2. /\ s.marked \cup (rows \cap Rows) = s.selection \cup rows
        /\ s.heard \cup ((rows \ s.selection) \cap Rows) = s.selection \cup rows
        /\ s.selection \cup rows \in SUBSET Nat
        /\ s.selection \cup rows \subseteq Rows
    BY <1>0
  <2>3. Agree([selection |-> s.selection \cup rows, marked |-> s.selection \cup rows,
               heard |-> s.selection \cup rows])
    BY <2>2, TracesAgree
  <2>4. t = [selection |-> s.selection \cup rows, marked |-> s.selection \cup rows,
             heard |-> s.selection \cup rows]
    BY <2>1, <2>2
  <2> HIDE DEF t
  <2>5. Agree(t)
    BY <2>3, <2>4
  <2>6. t.selection = s.selection \cup rows
    BY <2>4
  <2>7. QED
    BY <1>1, <2>5, <2>6 DEF t
<1>2. CASE ~value
  <2>1. t = [selection |-> s.selection \ rows,
             marked |-> s.marked \ rows,
             heard |-> s.heard \ ((rows \cap s.selection) \cap Rows)]
    BY <1>2 DEF _select
  <2>2. /\ s.marked \ rows = s.selection \ rows
        /\ s.heard \ ((rows \cap s.selection) \cap Rows) = s.selection \ rows
        /\ s.selection \ rows \in SUBSET Nat
        /\ s.selection \ rows \subseteq Rows
    BY <1>0
  <2>3. Agree([selection |-> s.selection \ rows, marked |-> s.selection \ rows,
               heard |-> s.selection \ rows])
    BY <2>2, TracesAgree
  <2>4. t = [selection |-> s.selection \ rows, marked |-> s.selection \ rows,
             heard |-> s.selection \ rows]
    BY <2>1, <2>2
  <2> HIDE DEF t
  <2>5. Agree(t)
    BY <2>3, <2>4
  <2>6. t.selection = s.selection \ rows
    BY <2>4
  <2>7. QED
    BY <1>2, <2>5, <2>6 DEF t
<1>3. QED
  BY <1>1, <1>2

LEMMA ClearAgrees ==
  ASSUME Rows \subseteq Nat, NEW s, Agree(s)
  PROVE  /\ clearSelection(s) = NothingSelected
         /\ Agree(clearSelection(s))
<1>1. clearSelection(s) = [selection |-> s.selection \ s.selection,
                           marked |-> s.marked \ s.selection,
                           heard |-> s.heard \ ((s.selection \cap s.selection) \cap Rows)]
  BY DEF clearSelection, _select
<1>2. clearSelection(s) = NothingSelected
  BY <1>1 DEF Agree, NothingSelected
<1>3. QED
  BY <1>2 DEF Agree, NothingSelected, Selections

LEMMA RangeAgrees ==
  ASSUME Rows \subseteq Nat, NEW s, Agree(s), NEW from, NEW to, NEW value \in BOOLEAN \cup {None}
  PROVE  Agree(select(s, from, to, value))
<1>1. RowsBetween(from, to) \in SUBSET Rows
  BY DEF RowsBetween
<1>2. (IF value = None THEN from \notin s.selection ELSE value) \in BOOLEAN
  OBVIOUS
<1>3. QED
  BY <1>1, <1>2, SelectAgrees DEF select

\* Every handler selects by these operators, and starts the next range from its
\* row or from where it started.
LEMMA HandlerAgrees ==
  ASSUME Rows \subseteq Nat, Agree(sel), selectionMode \in Modes \ {"none"},
         NEW row \in Rows, NEW right \in BOOLEAN, NEW ctrl \in BOOLEAN, NEW shift \in BOOLEAN
  PROVE  /\ Agree(SelectionHandler(row, right, ctrl, shift)[1])
         /\ SelectionHandler(row, right, ctrl, shift)[2] \in {lastSelected, row}
<1> DEFINE Good(h) == Agree(h[1]) /\ h[2] \in {lastSelected, row}
<1>1. ASSUME NEW s, Agree(s) PROVE Good(MultipleHandler(s, row, ctrl, shift))
  <2>1. Agree(select(s, row, lastSelected, TRUE))
    BY <1>1, RangeAgrees
  <2>2. Agree(select(s, row, row, IF ctrl /\ ~shift THEN None ELSE TRUE))
    BY <1>1, RangeAgrees
  <2>3. QED
    BY <2>1, <2>2 DEF MultipleHandler
<1>2. Good(SingleHandler(row, ctrl))
  <2>1. Agree(_select(sel, {row}, ~ctrl \/ row \notin sel.selection))
    BY SelectAgrees
  <2>2. Agree(_select(clearSelection(sel), {row}, TRUE))
    BY ClearAgrees, SelectAgrees
  <2>3. QED
    BY <2>1, <2>2 DEF SingleHandler
<1>3. Good(ExtendedHandler(row, right, ctrl, shift))
  <2>1. Agree(clearSelection(sel))
    BY ClearAgrees
  <2>2. QED
    BY <1>1, <2>1 DEF ExtendedHandler
<1>4. Good(ToggleHandler(row))
  BY RangeAgrees DEF ToggleHandler
<1>5. Good(MultipleHandler(sel, row, ctrl, shift))
  BY <1>1
<1> HIDE DEF Good
<1>6. Good(SelectionHandler(row, right, ctrl, shift))
  <2>1. \/ selectionMode = "single" \/ selectionMode = "multiple"
        \/ selectionMode = "extended" \/ selectionMode = "toggle"
    BY DEF Modes
  <2>2. CASE selectionMode = "single"
    <3>1. SelectionHandler(row, right, ctrl, shift) = SingleHandler(row, ctrl)
      BY <2>2, Zenon DEF SelectionHandler
    <3>2. QED
      BY <1>2, <3>1
  <2>3. CASE selectionMode = "multiple"
    <3>1. SelectionHandler(row, right, ctrl, shift) = MultipleHandler(sel, row, ctrl, shift)
      BY <2>3, Zenon DEF SelectionHandler
    <3>2. QED
      BY <1>5, <3>1
  <2>4. CASE selectionMode = "extended"
    <3>1. SelectionHandler(row, right, ctrl, shift) = ExtendedHandler(row, right, ctrl, shift)
      BY <2>4, Zenon DEF SelectionHandler
    <3>2. QED
      BY <1>3, <3>1
  <2>5. CASE selectionMode = "toggle"
    <3>1. SelectionHandler(row, right, ctrl, shift) = ToggleHandler(row)
      BY <2>5, Zenon DEF SelectionHandler
    <3>2. QED
      BY <1>4, <3>1
  <2>6. QED
    BY <2>1, <2>2, <2>3, <2>4, <2>5
<1>7. QED
  BY <1>6 DEF Good

-----------------------------------------------------------------------------
(* What each operation of the library leaves of the grid. *)

GridInv == DgridTypeOK /\ SelectionIsShownAndTold

LEMMA GridFacts ==
  ASSUME GridInv
  PROVE  Rows \subseteq Nat /\ Agree(sel)
BY DEF GridInv, DgridTypeOK, SelectionIsShownAndTold, Agree, Selections

\* A change of the selection and of the rows the mouse works with.
LEMMA SelectingKeepsGrid ==
  ASSUME GridInv, NEW s, Agree(s), sel' = s, UNCHANGED <<rowVars, sortVars>>,
         selectionMode' \in Modes, lastSelected' \in Rows \cup {None, Gone},
         waitForMouseUp' \in Rows \cup {None}
  PROVE  GridInv'
<1>1. object' = object /\ autoRowId' = autoRowId /\ collection' = collection
      /\ columns' = columns /\ sort' = sort /\ sortNode' = sortNode /\ arrow' = arrow
  BY DEF rowVars, sortVars
<1>2. Rows' = Rows
  BY <1>1 DEF Rows
<1>3. DgridTypeOK'
  BY <1>1, <1>2 DEF GridInv, DgridTypeOK, Agree, Selections
<1>4. SelectionIsShownAndTold'
  BY <1>2 DEF SelectionIsShownAndTold, Agree
<1>5. QED
  BY <1>3, <1>4 DEF GridInv

LEMMA RenderedFromNothing ==
  ASSUME NEW items \in Seq(Items), Rendered(<<>>, 0, items, NothingSelected)
  PROVE  /\ object' = [r \in 0..(Len(items) - 1) |-> items[r + 1]]
         /\ autoRowId' = Len(items)
         /\ collection' = items
         /\ sel' = NothingSelected
<1>1. Len(items) \in Nat
  OBVIOUS
<1>2. DOMAIN <<>> \cup 0..(0 + Len(items) - 1) = 0..(Len(items) - 1)
  BY <1>1
<1>3. \A r \in 0..(Len(items) - 1) : r >= 0 /\ r - 0 + 1 = r + 1
  BY <1>1
<1>4. object' = [r \in 0..(Len(items) - 1) |-> IF r >= 0 THEN items[r - 0 + 1] ELSE <<>>[r]]
  BY <1>2 DEF Rendered
<1>5. object' = [r \in 0..(Len(items) - 1) |-> items[r + 1]]
  BY <1>3, <1>4
<1>6. autoRowId' = Len(items) /\ collection' = items /\ sel' = NothingSelected
  <2>1. autoRowId' = 0 + Len(items) /\ collection' = items
    BY DEF Rendered
  <2>2. sel' = [NothingSelected EXCEPT !.marked = {} \cup ({} \cap 0..(0 + Len(items) - 1))]
    BY DEF Rendered, NothingSelected
  <2>3. {} \cup ({} \cap 0..(0 + Len(items) - 1)) = {}
    OBVIOUS
  <2>4. sel' = NothingSelected
    BY <2>2, <2>3 DEF NothingSelected
  <2>5. QED
    BY <1>1, <2>1, <2>4
<1>7. QED
  BY <1>5, <1>6

\* A refresh leaves the items as rows 0, 1, ... and nothing selected.
LEMMA RefreshEffect ==
  ASSUME Rows \subseteq Nat, Agree(sel), NEW items \in Seq(Items), refresh(items)
  PROVE  /\ object' = [r \in 0..(Len(items) - 1) |-> items[r + 1]]
         /\ autoRowId' = Len(items)
         /\ collection' = items
         /\ sel' = NothingSelected
         /\ lastSelected' = None
         /\ waitForMouseUp' = None
<1>1. Rendered(<<>>, 0, items, NothingSelected) /\ lastSelected' = None /\ waitForMouseUp' = None
  BY ClearAgrees DEF refresh
<1>2. QED
  BY <1>1, RenderedFromNothing

LEMMA NewRowsKeepGrid ==
  ASSUME NEW items \in Seq(Items),
         object' = [r \in 0..(Len(items) - 1) |-> items[r + 1]],
         autoRowId' = Len(items), collection' = items, sel' = NothingSelected,
         lastSelected' = None, waitForMouseUp' = None,
         columns' \in SUBSET Fields, sort' \in Sort, sortNode' \in Fields \cup {None},
         arrow' \in Orders \cup {None}, selectionMode' \in Modes
  PROVE  GridInv'
<1>1. Len(items) \in Nat /\ DOMAIN items = 1..Len(items)
  OBVIOUS
<1>2. Rows' = 0..(Len(items) - 1)
  BY DEF Rows
<1>3. \A r \in 0..(Len(items) - 1) : r + 1 \in DOMAIN items /\ items[r + 1] \in Items
  BY <1>1
<1>4. DgridTypeOK'
  BY <1>1, <1>2, <1>3 DEF DgridTypeOK, NothingSelected, Orders
<1>5. SelectionIsShownAndTold'
  BY DEF SelectionIsShownAndTold, NothingSelected
<1>6. QED
  BY <1>4, <1>5 DEF GridInv

LEMMA ArrowType ==
  ASSUME NEW by \in Sort, NEW fields \in SUBSET Fields, NEW node \in Fields \cup {None},
         updateSortArrow(by, fields, node)
  PROVE  sortNode' \in Fields \cup {None} /\ arrow' \in Orders \cup {None}
<1>1. CASE by = <<>>
  BY <1>1 DEF updateSortArrow
<1>2. CASE by # <<>>
  <2>1. PICK f \in Fields, d \in BOOLEAN : by = <<[property |-> f, descending |-> d]>>
    BY <1>2 DEF Sort
  <2>2. by[1].property \in Fields /\ by[1].descending \in BOOLEAN
    BY <2>1
  <2>3. QED
    BY <1>2, <2>2 DEF updateSortArrow, Orders
<1>3. QED
  BY <1>1, <1>2

LEMMA SetSortKeepsGrid ==
  ASSUME GridInv, NEW by \in Sort, NEW node \in Fields \cup {None}, setSort(by, node)
  PROVE  /\ GridInv'
         /\ sel' = NothingSelected
         /\ lastSelected' = None
         /\ by # <<>> => /\ object' = [r \in 0..(Len(collection) - 1) |->
                                         Sorted(collection, by[1])[r + 1]]
                         /\ by[1] \in Orders
<1>1. collection \in Seq(Items) /\ columns \in SUBSET Fields /\ selectionMode \in Modes
  BY DEF GridInv, DgridTypeOK
<1>2. by # <<>> => by[1] \in Orders
  BY DEF Sort, Orders
<1> DEFINE items == IF by = <<>> THEN collection ELSE Sorted(collection, by[1])
<1>3. items \in Seq(Items)
  BY <1>1, <1>2, SortedIsInOrder
<1>4. by # <<>> => Len(items) = Len(collection)
  BY <1>1, <1>2, SortedIsInOrder
<1>5. /\ refresh(items) /\ updateSortArrow(by, columns, node)
      /\ sort' = by /\ columns' = columns /\ selectionMode' = selectionMode
  BY DEF setSort
<1> HIDE DEF items
<1>6. /\ object' = [r \in 0..(Len(items) - 1) |-> items[r + 1]]
      /\ autoRowId' = Len(items) /\ collection' = items /\ sel' = NothingSelected
      /\ lastSelected' = None /\ waitForMouseUp' = None
  BY <1>3, <1>5, GridFacts, RefreshEffect
<1>7. sortNode' \in Fields \cup {None} /\ arrow' \in Orders \cup {None}
  BY <1>1, <1>5, ArrowType
<1>8. GridInv'
  BY <1>1, <1>3, <1>5, <1>6, <1>7, NewRowsKeepGrid
<1>9. by # <<>> => items = Sorted(collection, by[1])
  BY DEF items
<1>10. QED
  BY <1>2, <1>4, <1>6, <1>8, <1>9

LEMMA SetColumnsKeepsGrid ==
  ASSUME GridInv, NEW fields \in SUBSET Fields, setColumns(fields)
  PROVE  GridInv'
<1>1. collection \in Seq(Items) /\ sort \in Sort /\ selectionMode \in Modes
      /\ sortNode \in Fields \cup {None} /\ arrow \in Orders \cup {None}
  BY DEF GridInv, DgridTypeOK, Orders
<1>2. /\ refresh(collection) /\ columns' = fields /\ sort' = sort
      /\ selectionMode' = selectionMode
  BY DEF setColumns
<1>3. /\ object' = [r \in 0..(Len(collection) - 1) |-> collection[r + 1]]
      /\ autoRowId' = Len(collection) /\ collection' = collection
      /\ sel' = NothingSelected /\ lastSelected' = None /\ waitForMouseUp' = None
  BY <1>1, <1>2, GridFacts, RefreshEffect
<1>4. sortNode' \in Fields \cup {None} /\ arrow' \in Orders \cup {None}
  <2>1. CASE updateSortArrow(sort, fields, sortNode)
    BY <1>1, <2>1, ArrowType
  <2>2. CASE UNCHANGED <<sortNode, arrow>>
    BY <1>1, <2>2
  <2>3. QED
    BY <2>1, <2>2 DEF setColumns
<1>5. QED
  BY <1>1, <1>2, <1>3, <1>4, NewRowsKeepGrid

LEMMA RenderKeepsGrid ==
  ASSUME GridInv, NEW items \in Seq(Items), renderArray(items),
         UNCHANGED <<sortVars, selectionMode, mouseVars>>
  PROVE  GridInv'
<1> DEFINE n == autoRowId
           new == n..(n + Len(items) - 1)
<1>1. n \in Nat /\ Len(items) \in Nat /\ DOMAIN items = 1..Len(items)
      /\ Rows \subseteq 0..(n - 1)
  BY DEF GridInv, DgridTypeOK
<1>2. /\ collection' = items /\ autoRowId' = n + Len(items)
      /\ object' = [r \in Rows \cup new |-> IF r >= n THEN items[r - n + 1] ELSE object[r]]
      /\ sel' = [sel EXCEPT !.marked = @ \cup (sel.selection \cap new)]
  BY DEF renderArray, Rendered, Rows
<1>3. sel' = sel
  <2>1. sel.selection \cap new = {}
    BY <1>1, GridFacts DEF Agree
  <2>2. sel \in Selections
    BY GridFacts DEF Agree
  <2> HIDE DEF new
  <2>3. sel.marked \cup (sel.selection \cap new) = sel.marked
    BY <2>1
  <2>4. QED
    BY <1>2, <2>2, <2>3 DEF Selections
<1>4. Rows' = Rows \cup new
  BY <1>2 DEF Rows
<1>5. \A r \in Rows \cup new : object'[r] \in Items
  <2>1. ASSUME NEW r \in Rows PROVE object'[r] \in Items
    <3>1. ~(r >= n)
      BY <1>1
    <3>2. object'[r] = object[r]
      BY <1>2, <3>1
    <3>3. QED
      BY <3>2 DEF GridInv, DgridTypeOK
  <2>2. ASSUME NEW r \in new PROVE object'[r] \in Items
    <3>1. r >= n /\ r - n + 1 \in 1..Len(items)
      BY <1>1
    <3>2. object'[r] = items[r - n + 1]
      BY <1>2, <3>1
    <3>3. QED
      BY <1>1, <3>1, <3>2
  <2>3. QED
    BY <2>1, <2>2
<1>6. Rows' \subseteq 0..(autoRowId' - 1) /\ autoRowId' \in Nat
  BY <1>1, <1>2, <1>4
<1>7. /\ columns' = columns /\ sort' = sort /\ sortNode' = sortNode /\ arrow' = arrow
      /\ selectionMode' = selectionMode
      /\ lastSelected' = lastSelected /\ waitForMouseUp' = waitForMouseUp
  BY DEF sortVars, mouseVars
<1> HIDE DEF new
<1>8. DgridTypeOK'
  BY <1>2, <1>3, <1>4, <1>5, <1>6, <1>7 DEF GridInv, DgridTypeOK
<1>9. SelectionIsShownAndTold'
  BY <1>3, <1>4 DEF GridInv, SelectionIsShownAndTold
<1>10. QED
  BY <1>8, <1>9 DEF GridInv

LEMMA RemoveKeepsGrid ==
  ASSUME GridInv, NEW row \in Rows, removeRow(row)
  PROVE  GridInv'
<1>1. /\ object' = [r \in Rows \ {row} |-> object[r]]
      /\ autoRowId' = autoRowId /\ collection' = collection
      /\ columns' = columns /\ sort' = sort /\ sortNode' = sortNode /\ arrow' = arrow
      /\ selectionMode' = selectionMode
  BY DEF removeRow, sortVars
<1>2. Rows' = Rows \ {row}
  BY <1>1 DEF Rows
<1>3. Agree(sel') /\ sel'.selection \subseteq Rows \ {row}
  <2>1. Rows \subseteq Nat /\ Agree(sel)
    BY GridFacts
  <2>2. CASE row \in sel.selection
    <3>1. sel' = _select(sel, {row}, FALSE)
      BY <2>2 DEF removeRow
    <3>2. Agree(sel') /\ sel'.selection = sel.selection \ {row}
      BY <2>1, <3>1, SelectAgrees
    <3>3. QED
      BY <2>1, <3>2 DEF Agree
  <2>3. CASE row \notin sel.selection
    <3>1. sel' = sel
      BY <2>3 DEF removeRow
    <3>2. QED
      BY <2>1, <2>3, <3>1 DEF Agree
  <2>4. QED
    BY <2>2, <2>3
<1>4. /\ lastSelected' \in (Rows \ {row}) \cup {None, Gone}
      /\ waitForMouseUp' \in (Rows \ {row}) \cup {None}
  BY DEF removeRow, GridInv, DgridTypeOK
<1>5. DgridTypeOK'
  BY <1>1, <1>2, <1>3, <1>4 DEF GridInv, DgridTypeOK, Agree, Selections
<1>6. SelectionIsShownAndTold'
  BY <1>2, <1>3 DEF SelectionIsShownAndTold, Agree
<1>7. QED
  BY <1>5, <1>6 DEF GridInv

LEMMA HandleEffect ==
  ASSUME GridInv, selectionMode # "none", NEW row \in Rows,
         NEW right \in BOOLEAN, NEW ctrl \in BOOLEAN, NEW shift \in BOOLEAN,
         Handle(row, right, ctrl, shift)
  PROVE  Agree(sel') /\ lastSelected' \in {lastSelected, row}
<1>1. selectionMode \in Modes \ {"none"}
  BY DEF GridInv, DgridTypeOK
<1>2. QED
  BY <1>1, GridFacts, HandlerAgrees DEF Handle

LEMMA MouseKeepsGrid ==
  ASSUME GridInv, NEW row \in Rows,
         NEW right \in BOOLEAN, NEW ctrl \in BOOLEAN, NEW shift \in BOOLEAN,
         MouseDown(row, right, ctrl, shift) \/ MouseUp(row, right, ctrl, shift)
  PROVE  /\ GridInv'
         /\ UNCHANGED <<rowVars, sortVars, selectionMode>>
         /\ \/ UNCHANGED <<sel, lastSelected>>
            \/ selectionMode # "none" /\ Handle(row, right, ctrl, shift)
<1>1. UNCHANGED <<rowVars, sortVars, selectionMode>>
  BY DEF MouseDown, MouseUp
<1>2. \/ UNCHANGED <<sel, lastSelected>>
      \/ selectionMode # "none" /\ Handle(row, right, ctrl, shift)
  BY DEF MouseDown, MouseUp
<1>3. waitForMouseUp' \in Rows \cup {None}
  BY DEF MouseDown, MouseUp
<1>4. Agree(sel') /\ lastSelected' \in {lastSelected, row}
  <2>1. CASE UNCHANGED <<sel, lastSelected>>
    BY <2>1, GridFacts
  <2>2. CASE selectionMode # "none" /\ Handle(row, right, ctrl, shift)
    BY <2>2, HandleEffect
  <2>3. QED
    BY <1>2, <2>1, <2>2
<1>5. selectionMode' \in Modes /\ lastSelected' \in Rows \cup {None, Gone}
  BY <1>1, <1>4 DEF GridInv, DgridTypeOK
<1>6. GridInv'
  BY <1>1, <1>3, <1>4, <1>5, SelectingKeepsGrid
<1>7. QED
  BY <1>1, <1>2, <1>6

-----------------------------------------------------------------------------
(* The page: the library's invariant, and who the grid belongs to. *)

\* On the page of the earthquakes the mode is "single": what is selected was
\* clicked last.
PageMode ==
  host = "page" => /\ selectionMode = "single"
                   /\ sel.selection \subseteq {lastSelected}

IInv == /\ TypeOK
        /\ SelectionIsShownAndTold
        /\ PageMode
        /\ PopupIsOfTheSelectedQuake

LEMMA GridOfIInv ==
  ASSUME IInv
  PROVE  GridInv /\ Rows \subseteq Nat /\ Agree(sel)
BY GridFacts DEF IInv, TypeOK, GridInv

LEMMA QueriesType ==
  ASSUME TypeOK, NEW i \in DOMAIN queries
  PROVE  /\ Others(i) \in Seq(Years)
         /\ Len(Others(i)) = Len(queries) - 1
         /\ queries[i] \in Years
<1>1. queries \in Seq(Years) /\ Len(queries) \in Nat /\ DOMAIN queries = 1..Len(queries)
  BY DEF TypeOK
<1>2. \A j \in 1..(Len(queries) - 1) : queries[IF j < i THEN j ELSE j + 1] \in Years
  BY <1>1
<1>3. Len(queries) - 1 \in Nat
  BY <1>1
<1>4. QED
  BY <1>1, <1>2, <1>3 DEF Others

LEMMA InitInv == Init => IInv
<1> SUFFICES ASSUME Init PROVE IInv
  OBVIOUS
<1>2. Rows = {}
  BY DEF Init, Rows
<1>3. DgridTypeOK
  <2>1. /\ 0..(autoRowId - 1) = {} /\ autoRowId \in Nat
        /\ collection \in Seq(Items)
        /\ columns \subseteq Fields
    BY QuakeAssumption DEF Init
  <2>2. sort \in Sort /\ selectionMode \in Modes
    BY DEF Init, Sort, Modes
  <2>3. sel \in Selections
    BY DEF Init, NothingSelected, Selections
  <2>4. /\ sortNode \in Fields \cup {None} /\ arrow \in Orders \cup {None}
        /\ lastSelected \in Rows \cup {None, Gone} /\ waitForMouseUp \in Rows \cup {None}
    BY DEF Init
  <2>5. QED
    BY <1>2, <2>1, <2>2, <2>3, <2>4 DEF DgridTypeOK, Selections, Orders
<1>4. TypeOK
  <2>1. slider \in Years
    BY QuakeAssumption DEF Init
  <2>2. /\ host \in {"page", "other"} /\ layerReady \in BOOLEAN /\ waiting \in 0..MaxQueries
        /\ queries \in Seq(Years) /\ Len(queries) + waiting <= MaxQueries
        /\ popup \in Items \cup {None}
    <3>1. host \in {"page", "other"} /\ layerReady \in BOOLEAN /\ popup \in Items \cup {None}
      BY DEF Init
    <3>2. waiting = 0 /\ queries = <<>> /\ Len(<<>>) = 0 /\ <<>> \in Seq(Years)
      BY DEF Init
    <3>3. QED
      BY <3>1, <3>2, QuakeAssumption
  <2>3. QED
    BY <1>3, <2>1, <2>2 DEF TypeOK
<1>5. sel.selection = {} /\ sel.marked = {} /\ sel.heard = {} /\ selectionMode = "single"
  BY DEF Init, NothingSelected
<1>6. QED
  BY <1>4, <1>5 DEF IInv, SelectionIsShownAndTold, PageMode, PopupIsOfTheSelectedQuake

\* The selection of one row after a click, and what its listener is told.
LEMMA SingleEffect ==
  ASSUME IInv, host = "page", NEW row \in Rows, NEW right \in BOOLEAN,
         NEW ctrl \in BOOLEAN, NEW shift \in BOOLEAN, Handle(row, right, ctrl, shift)
  PROVE  /\ lastSelected' = row
         /\ sel'.selection \in {{}, {row}}
         /\ sel'.selection = {row} => sel.selection = {row} \/ sel'.heard \ sel.heard = {row}
         /\ sel'.selection = {} => sel'.heard \ sel.heard = {}
<1>1. GridInv /\ Rows \subseteq Nat /\ Agree(sel) /\ sel.selection \subseteq {lastSelected}
      /\ selectionMode = "single"
  BY GridOfIInv DEF IInv, PageMode
<1>2. SelectionHandler(row, right, ctrl, shift) = SingleHandler(row, ctrl)
  BY <1>1, Zenon DEF SelectionHandler
<1>3. sel' = SingleHandler(row, ctrl)[1] /\ lastSelected' = SingleHandler(row, ctrl)[2]
  BY <1>2 DEF Handle
<1>4. Agree(sel')
  BY <1>1, HandleEffect
<1>5. sel'.heard = sel'.selection /\ sel.heard = sel.selection
  BY <1>1, <1>4 DEF Agree
<1>6. CASE lastSelected = row
  <2> DEFINE v == ~ctrl \/ row \notin sel.selection
  <2>1. sel' = _select(sel, {row}, v) /\ lastSelected' = row
    BY <1>3, <1>6 DEF SingleHandler
  <2>2. sel'.selection = IF v THEN sel.selection \cup {row} ELSE sel.selection \ {row}
    <3>1. v \in BOOLEAN /\ {row} \in SUBSET Rows
      OBVIOUS
    <3> HIDE DEF v
    <3>2. _select(sel, {row}, v).selection = IF v THEN sel.selection \cup {row}
                                             ELSE sel.selection \ {row}
      BY <1>1, <3>1, SelectAgrees
    <3>3. QED
      BY <2>1, <3>2
  <2>3. sel.selection \in {{}, {row}}
    BY <1>1, <1>6
  <2>4. CASE v
    <3>1. sel'.selection = {row}
      BY <2>2, <2>3, <2>4
    <3>2. QED
      BY <1>5, <2>1, <2>3, <3>1
  <2>5. CASE ~v
    <3>1. sel'.selection = {}
      BY <2>2, <2>3, <2>5
    <3>2. QED
      BY <1>5, <2>1, <3>1
  <2>6. QED
    BY <2>4, <2>5
<1>7. CASE lastSelected # row
  <2>1. sel' = _select(clearSelection(sel), {row}, TRUE) /\ lastSelected' = row
    BY <1>3, <1>7 DEF SingleHandler
  <2>2. clearSelection(sel) = NothingSelected /\ Agree(clearSelection(sel))
    BY <1>1, ClearAgrees
  <2>3. sel'.selection = {row}
    <3> DEFINE c == clearSelection(sel)
    <3>1. c.selection = {} /\ Agree(c)
      BY <2>2 DEF NothingSelected
    <3>2. TRUE \in BOOLEAN /\ {row} \in SUBSET Rows
      OBVIOUS
    <3> HIDE DEF c
    <3>3. _select(c, {row}, TRUE).selection = c.selection \cup {row}
      BY <1>1, <3>1, <3>2, SelectAgrees
    <3>4. QED
      BY <2>1, <3>1, <3>3 DEF c
  <2>4. row \notin sel.selection
    BY <1>1, <1>7
  <2>5. sel'.heard \ sel.heard = {row}
    BY <1>5, <2>3, <2>4
  <2>6. QED
    BY <2>1, <2>3, <2>5
<1>8. QED
  BY <1>6, <1>7

LEMMA ClickKeepsPopup ==
  ASSUME IInv, NEW row \in Rows,
         NEW right \in BOOLEAN, NEW ctrl \in BOOLEAN, NEW shift \in BOOLEAN,
         MouseDown(row, right, ctrl, shift) \/ MouseUp(row, right, ctrl, shift),
         NEW told, told = (IF host = "page" THEN sel'.heard \ sel.heard ELSE {}),
         popup' = (IF told = {} THEN popup ELSE object[CHOOSE r \in told : TRUE]),
         UNCHANGED <<host, layerReady, slider, waiting, queries>>
  PROVE  IInv'
<1>1. /\ GridInv' /\ UNCHANGED <<rowVars, sortVars, selectionMode>>
      /\ \/ UNCHANGED <<sel, lastSelected>>
         \/ selectionMode # "none" /\ Handle(row, right, ctrl, shift)
  BY GridOfIInv, MouseKeepsGrid
<1>2. object' = object /\ Rows' = Rows /\ selectionMode' = selectionMode
  BY <1>1 DEF rowVars, Rows
<1>3. row \in Rows /\ object[row] \in Items
  BY GridOfIInv DEF GridInv, DgridTypeOK
<1>4. CASE host # "page"
  <2>1. popup' = popup /\ host' # "page"
    BY <1>4
  <2>2. QED
    BY <1>1, <2>1 DEF IInv, TypeOK, GridInv, PageMode, PopupIsOfTheSelectedQuake
<1>5. CASE host = "page" /\ UNCHANGED <<sel, lastSelected>>
  <2>1. told = {}
    BY <1>5
  <2>2. popup' = popup
    BY <2>1
  <2>3. TypeOK'
    BY <1>1, <2>2 DEF IInv, TypeOK, GridInv
  <2>4. PageMode' /\ PopupIsOfTheSelectedQuake'
    BY <1>2, <1>5, <2>2 DEF IInv, PageMode, PopupIsOfTheSelectedQuake
  <2>5. QED
    BY <1>1, <2>3, <2>4 DEF IInv, GridInv
<1>6. CASE host = "page" /\ Handle(row, right, ctrl, shift)
  <2>1. /\ lastSelected' = row
        /\ sel'.selection \in {{}, {row}}
        /\ sel'.selection = {row} => sel.selection = {row} \/ sel'.heard \ sel.heard = {row}
        /\ sel'.selection = {} => sel'.heard \ sel.heard = {}
    BY <1>6, SingleEffect
  <2>2. told = sel'.heard \ sel.heard
    BY <1>6
  <2>3. told \subseteq {row}
    <3>1. sel'.heard = sel'.selection
      BY <1>1 DEF GridInv, SelectionIsShownAndTold
    <3>2. QED
      BY <2>1, <2>2, <3>1
  <2>4. popup' = IF told = {} THEN popup ELSE object[row]
    <3>1. CASE told = {}
      BY <3>1
    <3>2. CASE told = {row}
      BY <3>2
    <3>3. QED
      BY <2>3, <3>1, <3>2
  <2>5. popup' \in Items \cup {None}
    BY <1>3, <2>4 DEF IInv, TypeOK
  <2>6. TypeOK'
    BY <1>1, <2>5 DEF IInv, TypeOK, GridInv
  <2>7. PageMode'
    BY <1>2, <2>1 DEF IInv, PageMode
  <2>8. PopupIsOfTheSelectedQuake'
    <3>1. CASE sel'.selection = {}
      BY <3>1 DEF PopupIsOfTheSelectedQuake
    <3>2. CASE sel'.selection = {row}
      <4>1. popup' = object[row]
        <5>1. CASE sel.selection = {row} /\ told = {}
          <6>1. popup' = popup
            BY <2>4, <5>1
          <6>2. PICK r \in Rows : sel.selection = {r} /\ popup = object[r]
            BY <1>6, <5>1 DEF IInv, PopupIsOfTheSelectedQuake
          <6>3. QED
            BY <5>1, <6>1, <6>2
        <5>2. CASE told # {}
          BY <2>4, <5>2
        <5>3. QED
          BY <2>1, <2>2, <3>2, <5>1, <5>2
      <4>2. QED
        BY <1>2, <1>3, <3>2, <4>1 DEF PopupIsOfTheSelectedQuake
    <3>3. QED
      BY <2>1, <3>1, <3>2
  <2>9. QED
    BY <1>1, <2>6, <2>7, <2>8 DEF IInv, GridInv
<1>7. QED
  BY <1>1, <1>4, <1>5, <1>6

LEMMA GridAndPopupStay ==
  ASSUME IInv, UNCHANGED <<gridVars, host, popup>>
  PROVE  DgridTypeOK' /\ SelectionIsShownAndTold' /\ PageMode' /\ PopupIsOfTheSelectedQuake'
<1>1. /\ object' = object /\ autoRowId' = autoRowId /\ collection' = collection
      /\ columns' = columns /\ sort' = sort /\ sortNode' = sortNode /\ arrow' = arrow
      /\ selectionMode' = selectionMode /\ sel' = sel /\ lastSelected' = lastSelected
      /\ waitForMouseUp' = waitForMouseUp /\ host' = host /\ popup' = popup
  BY DEF gridVars, rowVars, sortVars, mouseVars
<1>2. Rows' = Rows
  BY <1>1 DEF Rows
<1>3. DgridTypeOK'
  BY <1>1, <1>2 DEF IInv, TypeOK, DgridTypeOK
<1>4. SelectionIsShownAndTold'
  BY <1>1, <1>2 DEF IInv, SelectionIsShownAndTold
<1>5. PageMode' /\ PopupIsOfTheSelectedQuake'
  BY <1>1, <1>2 DEF IInv, PageMode, PopupIsOfTheSelectedQuake
<1>6. QED
  BY <1>3, <1>4, <1>5

\* A new grid, or a refresh, on the page: nothing is selected.
LEMMA NothingToPopUp ==
  ASSUME sel' = NothingSelected, host' = "page" => selectionMode' = "single"
  PROVE  PageMode' /\ PopupIsOfTheSelectedQuake'
BY DEF PageMode, PopupIsOfTheSelectedQuake, NothingSelected

LEMMA InputInv ==
  ASSUME IInv, NEW y \in Years, Input(y)
  PROVE  IInv'
<1>1. DgridTypeOK' /\ SelectionIsShownAndTold' /\ PageMode' /\ PopupIsOfTheSelectedQuake'
  BY GridAndPopupStay DEF Input
<1>2. /\ queries \in Seq(Years) /\ waiting \in 0..MaxQueries /\ Len(queries) \in Nat
      /\ Len(queries) + waiting < MaxQueries
  BY DEF IInv, TypeOK, Input
<1>3. /\ queries' \in Seq(Years) /\ waiting' \in 0..MaxQueries
      /\ Len(queries') + waiting' <= MaxQueries
  <2>1. CASE layerReady
    <3>1. queries' = Append(queries, y) /\ waiting' = waiting
      BY <2>1 DEF Input
    <3>2. queries' \in Seq(Years) /\ Len(queries') = Len(queries) + 1
      BY <1>2, <3>1
    <3>3. QED
      BY <1>2, <3>1, <3>2, QuakeAssumption
  <2>2. CASE ~layerReady
    <3>1. waiting' = waiting + 1 /\ queries' = queries
      BY <2>2 DEF Input
    <3>2. QED
      BY <1>2, <3>1, QuakeAssumption
  <2>3. QED
    BY <2>1, <2>2
<1>4. TypeOK'
  BY <1>1, <1>3 DEF IInv, TypeOK, Input
<1>5. QED
  BY <1>1, <1>4 DEF IInv

LEMMA LayerReadyInv ==
  ASSUME IInv, LayerReady
  PROVE  IInv'
<1>1. DgridTypeOK' /\ SelectionIsShownAndTold' /\ PageMode' /\ PopupIsOfTheSelectedQuake'
  BY GridAndPopupStay DEF LayerReady
<1>2. /\ queries \in Seq(Years) /\ waiting \in 0..MaxQueries /\ Len(queries) \in Nat
      /\ Len(queries) + waiting <= MaxQueries /\ slider \in Years
  BY DEF IInv, TypeOK
<1> DEFINE read == [i \in 1..waiting |-> slider]
<1>3. read \in Seq(Years) /\ Len(read) = waiting
  <2>1. waiting \in Nat
    BY <1>2, QuakeAssumption
  <2>2. QED
    BY <1>2, <2>1
<1>4. queries' = queries \o read /\ waiting' = 0
  BY DEF LayerReady
<1> HIDE DEF read
<1>5. queries' \in Seq(Years) /\ Len(queries') = Len(queries) + waiting
  BY <1>2, <1>3, <1>4
<1>6. waiting' \in 0..MaxQueries /\ Len(queries') + waiting' <= MaxQueries
  BY <1>2, <1>4, <1>5, QuakeAssumption
<1>7. TypeOK'
  BY <1>1, <1>5, <1>6 DEF IInv, TypeOK, LayerReady
<1>8. QED
  BY <1>1, <1>7 DEF IInv

LEMMA QueriesLeft ==
  ASSUME IInv, NEW i \in DOMAIN queries, queries' = Others(i), waiting' = waiting
  PROVE  /\ queries' \in Seq(Years)
         /\ waiting' \in 0..MaxQueries
         /\ Len(queries') + waiting' <= MaxQueries
<1>1. Others(i) \in Seq(Years) /\ Len(Others(i)) = Len(queries) - 1
  BY QueriesType DEF IInv
<1>2. /\ waiting \in 0..MaxQueries /\ Len(queries) + waiting <= MaxQueries
      /\ queries \in Seq(Years)
  BY DEF IInv, TypeOK
<1>3. Len(queries) \in Nat /\ waiting \in Int /\ MaxQueries \in Int
  BY <1>2, QuakeAssumption
<1>4. Len(queries) - 1 + waiting <= MaxQueries
  BY <1>2, <1>3
<1>5. QED
  BY <1>1, <1>2, <1>4

LEMMA DisplayedInv ==
  ASSUME IInv, NEW i \in 1..MaxQueries, Displayed(i)
  PROVE  IInv'
<1>1. i \in DOMAIN queries /\ queries' = Others(i) /\ waiting' = waiting
  BY DEF Displayed
<1>2. /\ queries' \in Seq(Years) /\ waiting' \in 0..MaxQueries
      /\ Len(queries') + waiting' <= MaxQueries
  BY <1>1, QueriesLeft
<1> DEFINE items == Features[queries[i]]
<1>3. items \in Seq(Items)
  <2>1. queries[i] \in Years
    BY <1>1, QueriesType DEF IInv
  <2>2. QED
    BY <2>1, QuakeAssumption
<1>4. /\ Rendered(<<>>, 0, items, NothingSelected)
      /\ columns' = PageFields /\ sort' = <<>> /\ sortNode' = None /\ arrow' = None
      /\ selectionMode' = "single" /\ lastSelected' = None /\ waitForMouseUp' = None
      /\ UNCHANGED <<host, layerReady, slider, popup>>
  BY DEF Displayed
<1> HIDE DEF items
<1>5. /\ object' = [r \in 0..(Len(items) - 1) |-> items[r + 1]]
      /\ autoRowId' = Len(items) /\ collection' = items /\ sel' = NothingSelected
  BY <1>3, <1>4, RenderedFromNothing
<1>6. /\ columns' \in SUBSET Fields /\ sort' \in Sort /\ sortNode' \in Fields \cup {None}
      /\ arrow' \in Orders \cup {None} /\ selectionMode' \in Modes
  BY <1>4, QuakeAssumption DEF Sort, Modes
<1>7. GridInv'
  BY <1>3, <1>4, <1>5, <1>6, NewRowsKeepGrid
<1>8. TypeOK'
  BY <1>2, <1>4, <1>7 DEF IInv, TypeOK, GridInv
<1>9. PageMode' /\ PopupIsOfTheSelectedQuake'
  BY <1>4, <1>5, NothingToPopUp
<1>10. QED
  BY <1>7, <1>8, <1>9 DEF IInv, GridInv

LEMMA QueryFailsInv ==
  ASSUME IInv, NEW i \in 1..MaxQueries, QueryFails(i)
  PROVE  IInv'
<1>1. DgridTypeOK' /\ SelectionIsShownAndTold' /\ PageMode' /\ PopupIsOfTheSelectedQuake'
  BY GridAndPopupStay DEF QueryFails
<1>2. /\ queries' \in Seq(Years) /\ waiting' \in 0..MaxQueries
      /\ Len(queries') + waiting' <= MaxQueries
  BY QueriesLeft DEF QueryFails
<1>3. TypeOK'
  BY <1>1, <1>2 DEF IInv, TypeOK, QueryFails
<1>4. QED
  BY <1>1, <1>3 DEF IInv

LEMMA LibraryCallGrid ==
  ASSUME IInv, LibraryCall
  PROVE  GridInv'
<1>1. GridInv /\ Rows \subseteq Nat /\ Agree(sel)
  BY GridOfIInv
<1>2. selectionMode \in Modes /\ lastSelected \in Rows \cup {None, Gone}
      /\ waitForMouseUp \in Rows \cup {None} /\ sortNode \in Fields \cup {None}
  BY <1>1 DEF GridInv, DgridTypeOK
<1>3. ASSUME NEW y \in Years, renderArray(Features[y]),
             UNCHANGED <<sortVars, selectionMode, mouseVars>>
      PROVE  GridInv'
  <2>1. Features[y] \in Seq(Items)
    BY QuakeAssumption
  <2>2. QED
    BY <1>1, <1>3, <2>1, RenderKeepsGrid
<1>4. ASSUME NEW r \in Rows, removeRow(r) PROVE GridInv'
  BY <1>1, <1>4, RemoveKeepsGrid
<1>5. ASSUME NEW r \in Rows, NEW to \in Rows, NEW value \in BOOLEAN \cup {None},
             sel' = select(sel, r, to, value),
             UNCHANGED <<rowVars, sortVars, selectionMode, mouseVars>>
      PROVE  GridInv'
  <2>1. Agree(select(sel, r, to, value))
    BY <1>1, RangeAgrees
  <2>2. selectionMode' = selectionMode /\ lastSelected' = lastSelected
        /\ waitForMouseUp' = waitForMouseUp
    BY <1>5 DEF mouseVars
  <2>3. QED
    BY <1>1, <1>2, <1>5, <2>1, <2>2, SelectingKeepsGrid
<1>6. ASSUME sel' = clearSelection(sel), lastSelected' = None,
             UNCHANGED <<rowVars, sortVars, selectionMode, waitForMouseUp>>
      PROVE  GridInv'
  <2>1. Agree(clearSelection(sel))
    BY <1>1, ClearAgrees
  <2>2. QED
    BY <1>1, <1>2, <1>6, <2>1, SelectingKeepsGrid
<1>7. ASSUME NEW mode \in Modes, setSelectionMode(mode) PROVE GridInv'
  <2>1. Agree(clearSelection(sel))
    BY <1>1, ClearAgrees
  <2>2. /\ sel' = clearSelection(sel) /\ lastSelected' = None /\ selectionMode' = mode
        /\ UNCHANGED <<rowVars, sortVars, waitForMouseUp>>
    BY <1>7 DEF setSelectionMode
  <2>3. QED
    BY <1>1, <1>2, <2>1, <2>2, SelectingKeepsGrid
<1>8. ASSUME NEW by \in Sort, setSort(by, sortNode) PROVE GridInv'
  BY <1>1, <1>2, <1>8, SetSortKeepsGrid
<1>9. ASSUME NEW fields \in SUBSET Fields, setColumns(fields) PROVE GridInv'
  BY <1>1, <1>9, SetColumnsKeepsGrid
<1>10. QED
  BY <1>3, <1>4, <1>5, <1>6, <1>7, <1>8, <1>9 DEF LibraryCall

LEMMA LibraryCallInv ==
  ASSUME IInv, LibraryCall
  PROVE  IInv'
<1>1. GridInv'
  BY LibraryCallGrid
<1>2. host' = "other" /\ UNCHANGED <<host, layerReady, slider, waiting, queries, popup>>
  BY DEF LibraryCall, pageVars
<1>3. TypeOK'
  BY <1>1, <1>2 DEF IInv, TypeOK, GridInv
<1>4. QED
  BY <1>1, <1>2, <1>3 DEF IInv, GridInv, PageMode, PopupIsOfTheSelectedQuake

\* The sort a click on a header cell sets.
ClickedSort(f) ==
  LET sorted == sort # <<>> /\ sort[1].property = f IN
  IF HasNeutralSort /\ sorted /\ sort[1].descending THEN <<>>
  ELSE <<[property |-> f, descending |-> sorted /\ ~sort[1].descending]>>

LEMMA HeaderClickSorts ==
  ASSUME IInv, NEW f \in columns, HeaderClick(f)
  PROVE  setSort(ClickedSort(f), f) /\ ClickedSort(f) \in Sort /\ f \in Fields
<1>1. f \in Fields
  BY DEF IInv, TypeOK, DgridTypeOK
<1>2. setSort(ClickedSort(f), f)
  BY DEF HeaderClick, ClickedSort
<1>3. ClickedSort(f) \in Sort
  <2> DEFINE d == (sort # <<>> /\ sort[1].property = f) /\ ~sort[1].descending
  <2>1. d \in BOOLEAN
    OBVIOUS
  <2>2. ClickedSort(f) = <<>> \/ ClickedSort(f) = <<[property |-> f, descending |-> d]>>
    BY DEF ClickedSort
  <2> HIDE DEF d
  <2>3. QED
    BY <1>1, <2>1, <2>2 DEF Sort
<1>4. QED
  BY <1>1, <1>2, <1>3

LEMMA HeaderClickInv ==
  ASSUME IInv, NEW f \in columns, HeaderClick(f), UNCHANGED pageVars
  PROVE  IInv'
<1>1. GridInv
  BY GridOfIInv
<1>2. setSort(ClickedSort(f), f) /\ ClickedSort(f) \in Sort /\ f \in Fields
  BY HeaderClickSorts
<1>3. GridInv' /\ sel' = NothingSelected
  BY <1>1, <1>2, SetSortKeepsGrid
<1>4. selectionMode' = selectionMode
  BY <1>2 DEF setSort
<1>5. UNCHANGED <<host, layerReady, slider, waiting, queries, popup>>
  BY DEF pageVars
<1>6. TypeOK'
  BY <1>3, <1>5 DEF IInv, TypeOK, GridInv
<1>7. PageMode' /\ PopupIsOfTheSelectedQuake'
  BY <1>3, <1>4, <1>5, NothingToPopUp DEF IInv, PageMode
<1>8. QED
  BY <1>3, <1>6, <1>7 DEF IInv, GridInv

LEMMA StepInv == IInv /\ [Next]_vars => IInv'
<1> SUFFICES ASSUME IInv, [Next]_vars PROVE IInv'
  OBVIOUS
<1>1. ASSUME NEW y \in Years, Input(y) PROVE IInv'
  BY <1>1, InputInv
<1>2. CASE LayerReady
  BY <1>2, LayerReadyInv
<1>3. ASSUME NEW i \in 1..MaxQueries, Displayed(i) PROVE IInv'
  BY <1>3, DisplayedInv
<1>4. ASSUME NEW i \in 1..MaxQueries, QueryFails(i) PROVE IInv'
  BY <1>4, QueryFailsInv
<1>5. CASE LibraryCall
  BY <1>5, LibraryCallInv
<1>6. CASE User
  <2>1. CASE \E f \in columns : HeaderClick(f) /\ UNCHANGED pageVars
    BY <2>1, HeaderClickInv
  <2>2. CASE ~(\E f \in columns : HeaderClick(f) /\ UNCHANGED pageVars)
    <3> DEFINE told == IF host = "page" THEN sel'.heard \ sel.heard ELSE {}
    <3>1. /\ \E r \in Rows, right, ctrl, shift \in BOOLEAN :
               MouseDown(r, right, ctrl, shift) \/ MouseUp(r, right, ctrl, shift)
          /\ popup' = IF told = {} THEN popup ELSE object[CHOOSE r \in told : TRUE]
          /\ UNCHANGED <<host, layerReady, slider, waiting, queries>>
      BY <1>6, <2>2 DEF User
    <3>2. PICK r \in Rows, right \in BOOLEAN, ctrl \in BOOLEAN, shift \in BOOLEAN :
            MouseDown(r, right, ctrl, shift) \/ MouseUp(r, right, ctrl, shift)
      BY <3>1
    <3>3. told = IF host = "page" THEN sel'.heard \ sel.heard ELSE {}
      OBVIOUS
    <3> HIDE DEF told
    <3>4. QED
      BY <3>1, <3>2, <3>3, ClickKeepsPopup
  <2>3. QED
    BY <2>1, <2>2
<1>7. CASE UNCHANGED vars
  <2>1. UNCHANGED <<gridVars, host, layerReady, slider, waiting, queries, popup>>
    BY <1>7 DEF vars, pageVars
  <2>2. DgridTypeOK' /\ SelectionIsShownAndTold' /\ PageMode' /\ PopupIsOfTheSelectedQuake'
    BY <2>1, GridAndPopupStay
  <2>3. QED
    BY <2>1, <2>2 DEF IInv, TypeOK
<1>8. QED
  BY <1>1, <1>2, <1>3, <1>4, <1>5, <1>6, <1>7 DEF Next

LEMMA Invariance == Spec => []IInv
BY InitInv, StepInv, PTL DEF Spec

\* The state keeps its types: among them that the rows are numbered below
\* _autoRowId and show objects, and that no row a mouse selection would start
\* from is one that a refresh has dropped.
THEOREM TypeCorrect == Spec => []TypeOK
<1>1. IInv => TypeOK
  BY DEF IInv
<1>2. QED
  BY <1>1, Invariance, PTL

\* In every mode and after any calls of the library, the selection, the rows that
\* look selected and the rows a listener was told of are the same rows of the grid.
THEOREM SelectionAgrees == Spec => []SelectionIsShownAndTold
<1>1. IInv => SelectionIsShownAndTold
  BY DEF IInv
<1>2. QED
  BY <1>1, Invariance, PTL

\* On the page of the earthquakes, for any data and any order of answers, sorts and
\* clicks, a selected row is the only one and the popup was opened at its quake.
THEOREM PopupIsRight == Spec => []PopupIsOfTheSelectedQuake
<1>1. IInv => PopupIsOfTheSelectedQuake
  BY DEF IInv
<1>2. QED
  BY <1>1, Invariance, PTL

-----------------------------------------------------------------------------
(* The sort.  Without a neutral sort a click always sets one, and so the     *)
(* clicked node is forgotten each time; with one the property is false.      *)

SortInv == sortNode = None /\ SortIsShown

InOrder(by) == \A q, r \in Rows : q < r => LET a == Value[by.property][object[q]]
                                               b == Value[by.property][object[r]]
                                           IN a = b \/ (a > b <=> by.descending)

LEMMA ArrowShows ==
  ASSUME NEW by \in Sort, NEW fields \in SUBSET Fields, NEW node,
         updateSortArrow(by, fields, node),
         by = <<>> => node = None,
         node # None => by[1].property = node /\ node \in fields
  PROVE  /\ sortNode' = None
         /\ arrow' = IF by = <<>> \/ by[1].property \notin fields THEN None ELSE by[1]
<1>1. CASE by = <<>>
  BY <1>1 DEF updateSortArrow
<1>2. CASE by # <<>>
  <2>1. PICK f \in Fields, d \in BOOLEAN : by = <<[property |-> f, descending |-> d]>>
    BY <1>2 DEF Sort
  <2>2. by[1] = [property |-> f, descending |-> d] /\ by[1].property = f /\ by[1].descending = d
    BY <2>1
  <2>3. /\ sortNode' = None
        /\ arrow' = IF node = None /\ f \notin fields THEN None
                    ELSE [property |-> IF node # None THEN node ELSE f, descending |-> d]
    BY <1>2, <2>2 DEF updateSortArrow
  <2>4. CASE node = None
    BY <1>2, <2>2, <2>3, <2>4
  <2>5. CASE node # None
    <3>1. node = f /\ f \in fields
      BY <2>2, <2>5
    <3>2. QED
      BY <1>2, <2>2, <2>3, <2>5, <3>1
  <2>6. QED
    BY <2>4, <2>5
<1>3. QED
  BY <1>1, <1>2

LEMMA SetSortShows ==
  ASSUME GridInv, NEW by \in Sort, NEW node \in Fields \cup {None}, setSort(by, node),
         by = <<>> => node = None,
         node # None => by[1].property = node /\ node \in columns
  PROVE  SortInv'
<1>1. columns \in SUBSET Fields /\ collection \in Seq(Items)
  BY DEF GridInv, DgridTypeOK
<1>2. updateSortArrow(by, columns, node) /\ sort' = by /\ columns' = columns
  BY DEF setSort
<1>3. /\ sortNode' = None
      /\ arrow' = IF by = <<>> \/ by[1].property \notin columns THEN None ELSE by[1]
  BY <1>1, <1>2, ArrowShows
<1>4. ASSUME by # <<>> PROVE InOrder(by[1])'
  <2>1. /\ object' = [r \in 0..(Len(collection) - 1) |-> Sorted(collection, by[1])[r + 1]]
        /\ by[1] \in Orders
    BY <1>4, SetSortKeepsGrid
  <2>2. Rows' = 0..(Len(collection) - 1) /\ Len(collection) \in Nat
    BY <1>1, <2>1 DEF Rows
  <2>3. ASSUME NEW q \in Rows', NEW r \in Rows', q < r
        PROVE  LET a == Value[by[1].property][object'[q]]
                   b == Value[by[1].property][object'[r]]
               IN a = b \/ (a > b <=> by[1].descending)
    <3>1. q + 1 \in 1..Len(collection) /\ r + 1 \in 1..Len(collection) /\ q + 1 < r + 1
      BY <2>2, <2>3
    <3>2. /\ object'[q] = Sorted(collection, by[1])[q + 1]
          /\ object'[r] = Sorted(collection, by[1])[r + 1]
      BY <2>1, <2>2
    <3>3. LET a == Value[by[1].property][Sorted(collection, by[1])[q + 1]]
              b == Value[by[1].property][Sorted(collection, by[1])[r + 1]]
          IN a = b \/ (a > b <=> by[1].descending)
      BY <1>1, <2>1, <3>1, SortedIsInOrder
    <3>4. QED
      BY <3>2, <3>3
  <2>4. QED
    BY <2>3 DEF InOrder
<1>5. QED
  BY <1>2, <1>3, <1>4 DEF SortInv, SortIsShown, InOrder

LEMMA SortStays ==
  ASSUME SortInv, UNCHANGED <<sortVars, host>>, host = "page" => object' = object
  PROVE  SortInv'
<1>1. columns' = columns /\ sort' = sort /\ sortNode' = sortNode /\ arrow' = arrow
  BY DEF sortVars
<1>2. host' = "page" => object' = object /\ Rows' = Rows
  BY DEF Rows
<1>3. QED
  BY <1>1, <1>2 DEF SortInv, SortIsShown

LEMMA LibraryCallSort ==
  ASSUME IInv, SortInv, LibraryCall
  PROVE  SortInv'
<1>1. GridInv
  BY GridOfIInv
<1>2. host = "other" /\ host' = "other"
  BY DEF LibraryCall, pageVars
<1>3. CASE UNCHANGED sortVars
  BY <1>2, <1>3, SortStays
<1>4. ASSUME NEW by \in Sort, setSort(by, sortNode) PROVE SortInv'
  <2>1. sortNode = None
    BY DEF SortInv
  <2>2. QED
    BY <1>1, <1>4, <2>1, SetSortShows
<1>5. ASSUME NEW fields \in SUBSET Fields, setColumns(fields) PROVE SortInv'
  <2>1. sort' = sort /\ columns' = fields /\ sort \in Sort /\ sortNode = None
    BY <1>1, <1>5 DEF setColumns, GridInv, DgridTypeOK, SortInv
  <2>2. /\ sortNode' = None
        /\ arrow' = IF sort = <<>> \/ sort[1].property \notin fields THEN None ELSE sort[1]
    <3>1. CASE updateSortArrow(sort, fields, sortNode)
      BY <2>1, <3>1, ArrowShows
    <3>2. CASE sort = <<>> /\ UNCHANGED <<sortNode, arrow>>
      BY <2>1, <3>2 DEF SortInv, SortIsShown
    <3>3. QED
      BY <1>5, <3>1, <3>2 DEF setColumns
  <2>3. QED
    BY <1>2, <2>1, <2>2 DEF SortInv, SortIsShown
<1>6. QED
  BY <1>3, <1>4, <1>5 DEF LibraryCall, removeRow, setSelectionMode

LEMMA SortStep == ~HasNeutralSort /\ IInv /\ SortInv /\ [Next]_vars => SortInv'
<1> SUFFICES ASSUME ~HasNeutralSort, IInv, SortInv, [Next]_vars PROVE SortInv'
  OBVIOUS
<1>1. ASSUME UNCHANGED <<gridVars, host>> PROVE SortInv'
  <2>1. UNCHANGED <<sortVars, host>> /\ object' = object
    BY <1>1 DEF gridVars, rowVars
  <2>2. QED
    BY <2>1, SortStays
<1>2. ASSUME NEW y \in Years, Input(y) PROVE SortInv'
  BY <1>1, <1>2 DEF Input
<1>3. CASE LayerReady
  BY <1>1, <1>3 DEF LayerReady
<1>4. ASSUME NEW i \in 1..MaxQueries, Displayed(i) PROVE SortInv'
  <2>1. sort' = <<>> /\ sortNode' = None /\ arrow' = None
    BY <1>4 DEF Displayed
  <2>2. QED
    BY <2>1 DEF SortInv, SortIsShown
<1>5. ASSUME NEW i \in 1..MaxQueries, QueryFails(i) PROVE SortInv'
  BY <1>1, <1>5 DEF QueryFails
<1>6. CASE LibraryCall
  BY <1>6, LibraryCallSort
<1>7. ASSUME NEW f \in columns, HeaderClick(f) PROVE SortInv'
  <2>1. setSort(ClickedSort(f), f) /\ ClickedSort(f) \in Sort /\ f \in Fields
    BY <1>7, HeaderClickSorts
  <2>2. ClickedSort(f) # <<>> /\ ClickedSort(f)[1].property = f
    BY DEF ClickedSort
  <2>3. QED
    BY <1>7, <2>1, <2>2, GridOfIInv, SetSortShows
<1>8. ASSUME NEW r \in Rows, NEW right \in BOOLEAN, NEW ctrl \in BOOLEAN, NEW shift \in BOOLEAN,
             MouseDown(r, right, ctrl, shift) \/ MouseUp(r, right, ctrl, shift), host' = host
      PROVE  SortInv'
  <2>1. UNCHANGED <<rowVars, sortVars>>
    BY <1>8 DEF MouseDown, MouseUp
  <2>2. object' = object
    BY <2>1 DEF rowVars
  <2>3. QED
    BY <1>8, <2>1, <2>2, SortStays
<1>9. CASE User
  <2>1. \/ \E f \in columns : HeaderClick(f)
        \/ /\ \E r \in Rows, right, ctrl, shift \in BOOLEAN :
                MouseDown(r, right, ctrl, shift) \/ MouseUp(r, right, ctrl, shift)
           /\ host' = host
    BY <1>9 DEF User
  <2>2. QED
    BY <1>7, <1>8, <2>1
<1>10. CASE UNCHANGED vars
  BY <1>1, <1>10 DEF vars, pageVars
<1>11. QED
  BY <1>2, <1>3, <1>4, <1>5, <1>6, <1>9, <1>10 DEF Next

\* Without a neutral sort, the arrow is in the column the rows are sorted by, and
\* the rows of the page are in the order it shows.
THEOREM SortShown == ASSUME ~HasNeutralSort PROVE Spec => []SortIsShown
<1>1. Init => SortInv
  BY DEF Init, SortInv, SortIsShown
<1>2. IInv /\ SortInv /\ [Next]_vars => SortInv'
  BY SortStep
<1>3. SortInv => SortIsShown
  BY DEF SortInv
<1>4. QED
  BY <1>1, <1>2, <1>3, Invariance, PTL DEF Spec
=============================================================================
