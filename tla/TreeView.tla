------------------------------ MODULE TreeView ------------------------------
(***************************************************************************)
(* The tensor tree of the terminal explorer: the kernel's TreeState with   *)
(* its navigation, folding, search, filter and sort, and the tree screen   *)
(* of the explorer that drives it with keys, clicks and draws.             *)
(*                                                                         *)
(* The tree is given by its rows in display order with everything open,    *)
(* each with its depth.  What a row is called and how it is drawn is left  *)
(* out; a node stands for its name.  Row indices start at 0 as in the      *)
(* code.                                                                   *)
(***************************************************************************)
EXTENDS Integers, Sequences, FiniteSets, SequencesExt

CONSTANTS
  Shape,      \* [BOOLEAN -> rows [node, depth]]: the tree, full and compact
  Kind,       \* [nodes -> {"group", "config", "tensor", "metadata"}]
  Letters,    \* what can be typed into a search
  Ranked,     \* [queries -> leaves], best match first (the fuzzy matcher)
  Passing,    \* [filters -> tensors], in tree order (the filter's grammar)
  SortKeys,   \* the sort keys in their cycle, "None" first
  Facet,      \* [sort keys but "None" -> [tensors -> Nat]]
  Sizes,      \* the sizes the terminal may have
  Body,       \* [Sizes -> [BOOLEAN -> rows on the screen]], by whether a search is on
  WheelStep,  \* rows one turn of the wheel scrolls
  Jumps,      \* the row counts an arrow or a page key may move by
  None,       \* what stands for no search, no filter and nothing kept
  MaxQuery,   \* bound on the length of a query
  MaxBurst    \* bound on the inputs handled between two draws

IsGroup(node) == Kind[node] \in {"group", "config"}
IsTensor(node) == Kind[node] = "tensor"

\* The rows of a tree: from one root down, a row one level deeper only right
\* after the group it is in, no node twice.
TreeRows(rows) ==
  /\ rows \in Seq([node : DOMAIN Kind, depth : Nat])
  /\ rows # <<>> /\ rows[1].depth = 0
  /\ \A i \in 1..(Len(rows) - 1) :
       rows[i + 1].depth <= rows[i].depth + (IF IsGroup(rows[i].node) THEN 1 ELSE 0)
  /\ \A i, j \in 1..Len(rows) : rows[i].node = rows[j].node => i = j

Queries == UNION {[1..n -> Letters] : n \in 0..MaxQuery}

\* The rows of a list, a search and a filter.
Rows == [node : DOMAIN Kind, depth : Nat, open : BOOLEAN]
SearchRecord == [query : Queries, cursor : Nat, filtered : Seq(Rows)]
FilterRecord == [query : DOMAIN Passing, filtered : Seq(Rows)]

ASSUME TreeViewAssumptions ==
  /\ \A c \in BOOLEAN : TreeRows(Shape[c])
  /\ \A query \in Queries \ {<<>>} : Ranked[query] \in Seq(DOMAIN Kind)
  /\ \A query \in DOMAIN Passing : Passing[query] \in Seq(DOMAIN Kind)
  /\ SortKeys \in Seq(STRING) /\ SortKeys # <<>> /\ SortKeys[1] = "None"
  /\ \A k \in 1..Len(SortKeys) : SortKeys[k] # "None" =>
       \A node \in DOMAIN Kind : IsTensor(node) => Facet[SortKeys[k]][node] \in Nat
  /\ Sizes # {} /\ \A s \in Sizes, b \in BOOLEAN : Body[s][b] \in Nat \ {0}
  /\ WheelStep \in Nat /\ Jumps \subseteq Nat
  /\ None \notin SearchRecord
  /\ MaxQuery \in Nat /\ MaxBurst \in Nat \ {0}

VARIABLES
  compact,    \* whether the tree shown is the compact one
  open,       \* the groups that are expanded
  flattened,  \* the rows of the tree that its folding shows
  selected,   \* the highlighted row
  scroll,     \* the first row on the screen
  search,     \* None, or the query, its caret and the rows it found
  filter,     \* None, or the filter's query and its rows
  sort,       \* the sort key and the direction
  lastSel,    \* the row that was selected at the last draw of this screen
  size,       \* the size of the terminal
  burst,      \* inputs handled since the last draw
  scrolled    \* history: the view moved, or the terminal came to show fewer
              \* rows, since the selection last pulled the view

vars == <<compact, open, flattened, selected, scroll, search, filter, sort,
          lastSel, size, burst, scrolled>>

Row(rows, i) == rows[i + 1]
HasRow(rows, i) == i < Len(rows)
AtLeast0(n) == IF n < 0 THEN 0 ELSE n
Least(m, n) == IF m < n THEN m ELSE n
FlatRow(node) == [node |-> node, depth |-> 0, open |-> FALSE]

(***************************************************************************)
(* The tree.                                                               *)
(***************************************************************************)

Nodes(c) == {Shape[c][i].node : i \in 1..Len(Shape[c])}
Groups(c) == {n \in Nodes(c) : IsGroup(n)}

\* The groups around each row: the rows before it that are shallower, with
\* nothing as shallow between.
Around ==
  [c \in BOOLEAN |-> [i \in 1..Len(Shape[c]) |->
    {Shape[c][j].node : j \in {k \in 1..(i - 1) :
       \A l \in (k + 1)..i : Shape[c][l].depth > Shape[c][k].depth}}]]

\* A new tree has its root and the groups directly below it open, the group
\* of the checkpoint's own metadata apart.
BuiltOpen(c) ==
  {Shape[c][i].node : i \in {k \in 1..Len(Shape[c]) :
                              /\ Shape[c][k].depth <= 1
                              /\ Kind[Shape[c][k].node] = "group"}}

\* The rows every group around which is open.
Shown(c, o) == {i \in 1..Len(Shape[c]) : Around[c][i] \subseteq o}

\* The place of a number among the numbers of a set, and the number at one.
PlaceIn(S, i) == Cardinality({j \in S : j <= i})
NthOf(S, k) == CHOOSE i \in S : PlaceIn(S, i) = k

RowOf(c, o, i) == [node |-> Shape[c][i].node, depth |-> Shape[c][i].depth,
                   open |-> Shape[c][i].node \in o]

FlattenTree(c, o) ==
  LET shown == Shown(c, o)
  IN  [k \in 1..Cardinality(shown) |-> RowOf(c, o, NthOf(shown, k))]

\* Mutant of GroupsAbove: only the innermost group is opened.
InnermostAbove(c, node) ==
  UNION {{g \in Around[c][i] : \E k \in 1..Len(Shape[c]) :
            Shape[c][k].node = g /\ Around[c][k] = Around[c][i] \ {g}} :
         i \in {k \in 1..Len(Shape[c]) : Shape[c][k].node = node}}

\* The groups above a node: what must be open for it to be shown.
GroupsAbove(c, node) ==
  UNION {Around[c][i] : i \in {k \in 1..Len(Shape[c]) : Shape[c][k].node = node}}

\* The nodes directly in a group.
ChildrenOf ==
  [c \in BOOLEAN |-> [node \in Nodes(c) |->
    {Shape[c][i].node : i \in {k \in 1..Len(Shape[c]) :
       /\ node \in Around[c][k]
       /\ \A other \in Around[c][k] : other \in GroupsAbove(c, node) \union {node}}}]]
Children(c, node) == ChildrenOf[c][node]

ToggleNode(o, node) == IF node \in o THEN o \ {node} ELSE o \union {node}

\* Expanding or collapsing by the index of a row of the folded tree; an index
\* that is no group changes nothing.
ToggleNodeByIndex(c, o, i) ==
  LET rows == FlattenTree(c, o)
  IN  IF HasRow(rows, i) /\ IsGroup(Row(rows, i).node)
        THEN ToggleNode(o, Row(rows, i).node)
        ELSE o

(***************************************************************************)
(* Flat lists: the sort and the rows of a search or a filter.              *)
(***************************************************************************)

\* Whether a row comes before another one: rows without a tensor compare
\* equal to everything.
Before(key, asc, a, b) ==
  /\ IsTensor(a.node) /\ IsTensor(b.node)
  /\ IF asc THEN Facet[key][a.node] < Facet[key][b.node]
            ELSE Facet[key][b.node] < Facet[key][a.node]

\* The standard library's stable sort of a short slice: each row moves left
\* past the rows it comes before.
InsertRow(key, asc, rows, row) ==
  LET stop == {k \in 1..Len(rows) : ~Before(key, asc, row, rows[k])}
      at == IF stop = {} THEN 0 ELSE CHOOSE k \in stop : \A l \in stop : l <= k
  IN  SubSeq(rows, 1, at) \o <<row>> \o SubSeq(rows, at + 1, Len(rows))

SortRows(rows, srt) ==
  IF srt.key = "None"
    THEN rows
    ELSE LET done[n \in 0..Len(rows)] ==
               IF n = 0 THEN <<>>
               ELSE InsertRow(srt.key, srt.asc, done[n - 1], rows[n])
         IN  done[Len(rows)]

FlatRows(nodes) == [i \in 1..Len(nodes) |-> FlatRow(nodes[i])]

\* The rows of a search: the folded tree while nothing is typed, else the
\* matches among all leaves, in the order of their scores.
Matches(query, flat) ==
  IF query = <<>> THEN flat ELSE FlatRows(Ranked[query])

Found(query, cursor, flat, srt) ==
  [query |-> query, cursor |-> cursor,
   filtered |-> SortRows(Matches(query, flat), srt)]

\* update_filtered_tree sorts the filter's rows too, through apply_sort.
Resorted(f, srt) ==
  IF f = None THEN None ELSE [f EXCEPT !.filtered = SortRows(@, srt)]

\* refresh_filter: the rows are found again in tree order, then sorted.
RefreshedFilter(query, srt) ==
  IF query = None THEN None
  ELSE [query |-> query, filtered |-> SortRows(FlatRows(Passing[query]), srt)]

VisibleIn(s, f, flat) ==
  IF s # None THEN s.filtered
  ELSE IF f # None THEN f.filtered ELSE flat
Visible == VisibleIn(search, filter, flattened)
Searching == search # None
FilterShown == filter # None /\ ~Searching

(***************************************************************************)
(* Initially the tree of a checkpoint that was just opened.                *)
(***************************************************************************)

Init ==
  /\ compact = FALSE
  /\ open = BuiltOpen(FALSE)
  /\ flattened = FlattenTree(FALSE, BuiltOpen(FALSE))
  /\ selected = 0 /\ scroll = 0
  /\ search = None /\ filter = None
  /\ sort = [key |-> "None", asc |-> TRUE]
  /\ lastSel = -1 /\ burst = 0
  /\ size \in Sizes
  /\ scrolled = FALSE

(***************************************************************************)
(* An input is handled: a draw follows unless another input is waiting.    *)
(***************************************************************************)
Handled ==
  /\ burst < MaxBurst
  /\ burst' = burst + 1
  /\ UNCHANGED size

ToTop ==
  /\ selected' = 0
  /\ scroll' = 0
  /\ scrolled' = TRUE

SelectRow(i) ==
  /\ selected' = i
  /\ UNCHANGED <<scroll, scrolled>>

tree == <<compact, open, flattened>>
lists == <<search, filter, sort>>
view == <<selected, scroll, scrolled>>

(***************************************************************************)
(* Moving the selection.                                                   *)
(***************************************************************************)

\* move_selection: the arrows and the page keys, clamped to the list.
MoveSelection ==
  /\ Len(Visible) > 0
  /\ \E n \in Jumps :
       \/ SelectRow(AtLeast0(selected - n))
       \/ SelectRow(Least(selected + n, Len(Visible) - 1))
  /\ Handled
  /\ UNCHANGED <<tree, lists, lastSel>>

\* Home and End act only while searching.
HomeEnd ==
  /\ Searching
  /\ \/ SelectRow(0)
     \/ SelectRow(AtLeast0(Len(Visible) - 1))
  /\ Handled
  /\ UNCHANGED <<tree, lists, lastSel>>

\* The nearest row above that is shallower.
ParentRow(rows, i) ==
  LET shallower == {k \in 0..(i - 1) : HasRow(rows, k)
                      /\ Row(rows, k).depth < Row(rows, i).depth}
  IN  IF shallower = {} THEN i
      ELSE CHOOSE k \in shallower : \A l \in shallower : l <= k

MoveToParent ==
  /\ ~Searching
  /\ HasRow(Visible, selected)
  /\ Row(Visible, selected).depth > 0
  /\ SelectRow(ParentRow(Visible, selected))
  /\ Handled
  /\ UNCHANGED <<tree, lists, lastSel>>

\* Mutant of SiblingRow: the scan does not stop where the group ends.
SameDepthRow(rows, i, forward) ==
  LET side == IF forward THEN (i + 1)..(Len(rows) - 1) ELSE 0..(i - 1)
      next == {k \in side : Row(rows, k).depth = Row(rows, i).depth}
  IN  IF next = {} THEN i ELSE CHOOSE k \in next : TRUE

\* The nearest row of the same depth, without passing a shallower one.
SiblingRow(rows, i, forward) ==
  LET d == Row(rows, i).depth
      side == IF forward THEN (i + 1)..(Len(rows) - 1) ELSE 0..(i - 1)
      between(k) == IF forward THEN (i + 1)..(k - 1) ELSE (k + 1)..(i - 1)
      next == {k \in side : /\ Row(rows, k).depth = d
                            /\ \A l \in between(k) : Row(rows, l).depth > d}
  IN  IF next = {} THEN i ELSE CHOOSE k \in next : TRUE

MoveToSibling ==
  /\ HasRow(Visible, selected)
  /\ \E forward \in BOOLEAN : SelectRow(SiblingRow(Visible, selected, forward))
  /\ Handled
  /\ UNCHANGED <<tree, lists, lastSel>>

\* toggle_group_at, then the rows are flattened again.
ToggleAt(i) ==
  /\ open' = ToggleNodeByIndex(compact, open, i)
  /\ flattened' = FlattenTree(compact, open')
  /\ UNCHANGED compact

\* Entering a group.  It looks at the rows of the folded tree, also while a
\* filter's rows are on the screen.
MoveToFirstChild ==
  /\ ~Searching
  /\ HasRow(flattened, selected)
  /\ LET row == Row(flattened, selected)
     IN  /\ IsGroup(row.node)
         /\ Children(compact, row.node) # {}
         /\ IF row.open THEN UNCHANGED tree ELSE ToggleAt(selected)
         /\ IF /\ HasRow(flattened', selected + 1)
               /\ Row(flattened', selected + 1).depth = row.depth + 1
              THEN SelectRow(selected + 1)
              ELSE SelectRow(selected)
  /\ Handled
  /\ UNCHANGED <<lists, lastSel>>

(***************************************************************************)
(* Folding.                                                                *)
(***************************************************************************)

\* Enter on a row: a group toggles, except in a search; opening a tensor
\* leaves for another screen, see Return.
ActivateSelection ==
  /\ ~Searching
  /\ HasRow(Visible, selected) /\ IsGroup(Row(Visible, selected).node)
  /\ ToggleAt(selected)
  /\ Handled
  /\ UNCHANGED <<view, lists, lastSel>>

SetAllExpanded(expanded) ==
  /\ open' = IF expanded THEN Groups(compact) ELSE {}
  /\ flattened' = FlattenTree(compact, open')
  /\ ToTop
  /\ UNCHANGED compact

\* Expand all, collapse all, and the one key that expands while anything is
\* folded; none of them is a command while a query is typed.
ExpandOrCollapse ==
  /\ ~Searching
  /\ \/ \E expanded \in BOOLEAN : SetAllExpanded(expanded)
     \/ SetAllExpanded(\E g \in Groups(compact) : g \notin open)
  /\ Handled
  /\ UNCHANGED <<lists, lastSel>>

\* set_compact builds the other tree, folded as a new one.
CompactToggle ==
  /\ ~Searching
  /\ compact' = ~compact
  /\ open' = BuiltOpen(compact')
  /\ flattened' = FlattenTree(compact', open')
  /\ ToTop
  /\ Handled
  /\ UNCHANGED <<lists, lastSel>>

\* reveal: the row when it is visible, else the groups above it are opened
\* and its index among the rows of the tree is taken, filter or not.
Reveal(name, s, from) ==
  LET rows == VisibleIn(s, filter, flattened)
      at(r) == {k \in 0..(Len(r) - 1) : Row(r, k).node = name}
      first(r) == CHOOSE k \in at(r) : \A l \in at(r) : k <= l
  IN  IF at(rows) # {}
        THEN selected' = first(rows) /\ UNCHANGED tree
      ELSE IF s # None
        THEN selected' = from /\ UNCHANGED tree
      ELSE /\ open' = open \union GroupsAbove(compact, name)
           /\ flattened' = FlattenTree(compact, open')
           /\ selected' = IF at(flattened') # {} THEN first(flattened') ELSE from
           /\ UNCHANGED compact

(***************************************************************************)
(* Searching.                                                              *)
(***************************************************************************)

SearchFor(query, cursor) ==
  /\ search' = Found(query, cursor, flattened, sort)
  /\ filter' = Resorted(filter, sort)
  /\ UNCHANGED sort

EnterSearch ==
  /\ ~Searching
  /\ SearchFor(<<>>, 0)
  /\ ToTop
  /\ Handled
  /\ UNCHANGED <<tree, lastSel>>

SearchInsert ==
  /\ Searching /\ Len(search.query) < MaxQuery
  /\ \E c \in Letters :
       SearchFor(InsertAt(search.query, search.cursor + 1, c), search.cursor + 1)
  /\ ToTop
  /\ Handled
  /\ UNCHANGED <<tree, lastSel>>

\* Mutant of SearchBackspace: the caret stays.
BackspaceInPlace ==
  /\ Searching /\ search.cursor > 0
  /\ SearchFor(RemoveAt(search.query, search.cursor), search.cursor)
  /\ ToTop
  /\ Handled
  /\ UNCHANGED <<tree, lastSel>>

SearchBackspace ==
  /\ Searching /\ search.cursor > 0
  /\ SearchFor(RemoveAt(search.query, search.cursor), search.cursor - 1)
  /\ ToTop
  /\ Handled
  /\ UNCHANGED <<tree, lastSel>>

\* Left, Right and both with Shift move the caret.
MoveCaret ==
  /\ Searching
  /\ \E at \in {0, AtLeast0(search.cursor - 1), Len(search.query),
                Least(search.cursor + 1, Len(search.query))} :
       search' = [search EXCEPT !.cursor = at]
  /\ Handled
  /\ UNCHANGED <<tree, view, filter, sort, lastSel>>

\* Mutant of ExitSearch: the index of the result is kept.
ExitInPlace ==
  /\ Searching
  /\ search' = None
  /\ Handled
  /\ UNCHANGED <<tree, view, filter, sort, lastSel>>

ExitSearch ==
  /\ Searching
  /\ search' = None
  /\ ToTop
  /\ Handled
  /\ UNCHANGED <<tree, filter, sort, lastSel>>

\* Tab or a double click on a result that is a tensor: the search is left and
\* the tensor shown in the tree.  Both move the selection before a draw.
RevealSearchResult ==
  /\ Searching
  /\ HasRow(Visible, selected)
  /\ LET node == Row(Visible, selected).node
     IN  IsTensor(node) /\ Reveal(node, None, 0)
  /\ search' = None
  /\ scroll' = 0 /\ scrolled' = TRUE
  /\ Handled
  /\ UNCHANGED <<filter, sort, lastSel>>

(***************************************************************************)
(* The filter and the sort.                                                *)
(***************************************************************************)

\* The filter prompt: a query, or what does not parse, which is no filter.
Filter ==
  /\ ~Searching
  /\ \E query \in DOMAIN Passing \union {None} :
       filter' = RefreshedFilter(query, sort)
  /\ ToTop
  /\ Handled
  /\ UNCHANGED <<tree, search, sort, lastSel>>

\* Mutant of Resort: the rows that show are sorted, not built again.
SortInPlace(srt) ==
  /\ sort' = srt
  /\ filter' = Resorted(filter, srt)
  /\ UNCHANGED search

\* resort after the key or the direction changed: what shows is built again.
Resort(srt) ==
  /\ sort' = srt
  /\ filter' = RefreshedFilter(IF filter = None THEN None ELSE filter.query, srt)
  /\ UNCHANGED search

NextKey(key) ==
  LET i == CHOOSE k \in 1..Len(SortKeys) : SortKeys[k] = key
  IN  SortKeys[(i % Len(SortKeys)) + 1]

\* The sort keys are letters: in a search they are typed instead.
SortCommand ==
  /\ ~Searching
  /\ \/ Resort([sort EXCEPT !.key = NextKey(@)])
     \/ Resort([sort EXCEPT !.asc = ~@])
  /\ ToTop
  /\ Handled
  /\ UNCHANGED <<tree, lastSel>>

(***************************************************************************)
(* The mouse.                                                              *)
(***************************************************************************)

\* The rows there are to scroll through and to click on; a filter's are not
\* asked for.
CurrentTreeLen == IF Searching THEN Len(Visible) ELSE Len(flattened)

\* tree_visible_rows: how many rows the screen has for them.
VisibleRowCount == Body[size][Searching]

\* A click selects the row; on a group's arrow it toggles it too.
Click ==
  /\ \E r \in 0..(VisibleRowCount - 1) :
       /\ scroll + r < CurrentTreeLen
       /\ SelectRow(scroll + r)
       /\ \/ UNCHANGED tree
          \/ /\ ~Searching
             /\ HasRow(Visible, scroll + r)
             /\ IsGroup(Row(Visible, scroll + r).node)
             /\ ToggleAt(scroll + r)
  /\ Handled
  /\ UNCHANGED <<lists, lastSel>>

\* The wheel, and the scroll bar, which can be dragged to any row.
Scroll ==
  /\ \/ scroll' \in {AtLeast0(scroll - WheelStep), scroll + WheelStep}
     \/ scroll' \in 0..AtLeast0(CurrentTreeLen - VisibleRowCount)
  /\ scrolled' = TRUE
  /\ Handled
  /\ UNCHANGED <<tree, lists, selected, lastSel>>

(***************************************************************************)
(* The screen.                                                             *)
(***************************************************************************)

\* Mutant of Snapped: off by one at the last row of the screen.
SnappedLate(sel, from, body) ==
  IF sel > from + body THEN AtLeast0(sel - (body - 1))
  ELSE IF sel < from THEN sel ELSE from

\* update_tree_scroll: the view follows the selection.
Snapped(sel, from, body) ==
  IF sel >= from + body THEN AtLeast0(sel - (body - 1))
  ELSE IF sel < from THEN sel ELSE from

\* pre_draw and the frame: the view follows a selection that changed since
\* the last draw and stays within the rows.
Draw ==
  /\ burst > 0 \/ lastSel = -1
  /\ LET body == VisibleRowCount
         from == IF selected # lastSel THEN Snapped(selected, scroll, body)
                                       ELSE scroll
     IN  scroll' = Least(from, AtLeast0(CurrentTreeLen - body))
  /\ scrolled' = (scrolled /\ selected = lastSel)
  /\ lastSel' = selected
  /\ burst' = 0
  /\ UNCHANGED <<tree, lists, selected, size>>

\* Whether fewer rows of what shows fit a terminal of size s.
ShrinksTo(s) == Body[s][Searching] < VisibleRowCount

\* The terminal gets another size.  That is an input like any other: the next
\* draw goes by the new size, but moves no view that the selection did not.
Resize ==
  /\ burst < MaxBurst
  /\ burst' = burst + 1
  /\ \E s \in Sizes \ {size} :
       /\ size' = s
       /\ scrolled' = (scrolled \/ ShrinksTo(s))
  /\ UNCHANGED <<tree, lists, selected, scroll, lastSel>>

\* Another screen was open and the tree comes back, as a new screen: the
\* tensor shown there is revealed; the file browser may have set the filter.
Return ==
  /\ Handled
  /\ lastSel' = -1
  /\ \/ \E name \in Nodes(FALSE) \union Nodes(TRUE) :
          /\ IsTensor(name)
          /\ Reveal(name, search, selected)
          /\ UNCHANGED <<lists, scroll, scrolled>>
     \/ \E query \in DOMAIN Passing :
          /\ filter' = RefreshedFilter(query, sort)
          /\ ToTop
          /\ UNCHANGED <<tree, search, sort>>

Next ==
  \/ MoveSelection \/ HomeEnd \/ MoveToParent \/ MoveToSibling
  \/ MoveToFirstChild \/ ActivateSelection \/ ExpandOrCollapse
  \/ CompactToggle \/ EnterSearch \/ SearchInsert \/ SearchBackspace
  \/ MoveCaret \/ ExitSearch \/ RevealSearchResult \/ Filter
  \/ SortCommand \/ Click \/ Scroll \/ Draw \/ Resize \/ Return

Spec == Init /\ [][Next]_vars

(***************************************************************************)
(* Properties.                                                             *)
(***************************************************************************)

\* Every field of the tree's state has its type.
TypeOK ==
  /\ compact \in BOOLEAN
  /\ open \subseteq Groups(compact)
  /\ flattened \in Seq(Rows)
  /\ \A i \in 1..Len(flattened) : flattened[i].node \in Nodes(compact)
  /\ selected \in Nat /\ scroll \in Nat /\ lastSel \in Nat \union {-1}
  /\ search # None => search \in SearchRecord /\ search.cursor <= Len(search.query)
  /\ filter # None => filter \in FilterRecord
  /\ sort \in [key : STRING, asc : BOOLEAN]
  /\ \E i \in 1..Len(SortKeys) : SortKeys[i] = sort.key
  /\ size \in Sizes
  /\ burst \in 0..MaxBurst
  /\ scrolled \in BOOLEAN

\* The highlighted row is a row of the list that shows, however folding,
\* searching, sorting, clicking and revealing came before it; kernel.rs keeps
\* a bare index and every command must leave it valid.  Not claimed while a
\* filter's rows show: entering a group, revealing and clicking then go by
\* the rows of the tree behind them.
SelectionIsARow ==
  ~FilterShown => selected < Len(Visible) \/ (Visible = <<>> /\ selected = 0)

\* The rows kept beside the tree are the ones the folding, the query, the
\* filter and the order now call for: each command that changes one of them
\* rebuilt what depends on it, also back to the natural order.
RowsAreCurrent ==
  /\ flattened = FlattenTree(compact, open)
  /\ Searching => search.filtered = SortRows(Matches(search.query, flattened), sort)
  /\ filter # None =>
       filter.filtered = SortRows(FlatRows(Passing[filter.query]), sort)

\* After a draw the selected row is on the screen, unless the view was scrolled
\* away from it, or the terminal made to show fewer rows, since a selection last
\* moved: a resize is drawn without following the selection, so a terminal that
\* shrinks may leave the selected row below it until the next key.  A command
\* that sends the view to the top and then selects
\* the row of the last draw again counts as one: pre_draw only follows a
\* selection that differs from the last one drawn, so Tab on a search result
\* that stands at its own row in the tree leaves that row out of sight.
SelectionIsOnScreen ==
  (burst = 0 /\ lastSel # -1 /\ ~scrolled /\ ~FilterShown /\ Visible # <<>>)
    => selected \in scroll..(scroll + VisibleRowCount - 1)

ParentOf(c, node) == {n \in Nodes(c) : node \in Children(c, n)}

\* The arrows move along the tree itself, though they only look at the depths
\* of the rows that show: to the group around the row, to a row with the same
\* group around it, to a row inside the group that is entered.
ArrowsFollowTheTree ==
  [][LET at == Row(flattened, selected).node
         to == Row(flattened', selected').node
     IN  (~Searching /\ filter = None) =>
           /\ MoveToParent => to \in ParentOf(compact, at)
           /\ MoveToSibling => ParentOf(compact, to) = ParentOf(compact, at)
           /\ MoveToFirstChild => to \in Children(compact, at)]_vars

\* Revealing a tensor lands on it: when the tree is what shows and has the
\* tensor, it is the selected row afterwards, whatever was folded, and no
\* group was closed for it.
RevealLands ==
  [][(lastSel' = -1 /\ ~Searching /\ filter = None /\ filter' = None) =>
       \A name \in Nodes(compact) :
         (IsTensor(name) /\ Reveal(name, None, selected))
         => Row(flattened', selected').node = name /\ open \subseteq open']_vars

=============================================================================
