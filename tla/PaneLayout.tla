----------------------------- MODULE PaneLayout -----------------------------
(***************************************************************************)
(* The split tree of a terminal tab (workbench/pane-layout.ts): a leaf     *)
(* shows one pane, a split lays its children out in a row or a column.     *)
(* The sizes of the children and the identifiers of the splits are left    *)
(* out: nothing but the drawing reads them.                                *)
(***************************************************************************)
EXTENDS Integers, SequencesExt, FiniteSetsExt

Leaf(pane) == [type |-> "leaf", pane |-> pane]

Branch(direction, children) ==
  [type |-> "split", direction |-> direction, children |-> children]

IsLeaf(layout) == layout.type = "leaf"

\* layoutPaneIds: the panes from left to right and top to bottom.
RECURSIVE LayoutPanes(_)
LayoutPanes(layout) ==
  IF IsLeaf(layout)
  THEN <<layout.pane>>
  ELSE FlattenSeq([i \in DOMAIN layout.children |->
                     LayoutPanes(layout.children[i])])

\* splitLayout: a sibling after the target when its parent already has the
\* direction, otherwise a split of its own in the target's place.
RECURSIVE SplitLayout(_, _, _, _)
SplitLayout(layout, target, pane, direction) ==
  LET at == {i \in DOMAIN layout.children : layout.children[i] = Leaf(target)}
  IN  CASE layout = Leaf(target) -> Branch(direction, <<layout, Leaf(pane)>>)
        [] IsLeaf(layout) /\ layout # Leaf(target) -> layout
        [] ~IsLeaf(layout) /\ layout.direction = direction /\ at # {} ->
             [layout EXCEPT !.children = InsertAt(@, Min(at) + 1, Leaf(pane))]
        [] OTHER ->
             [layout EXCEPT !.children = [i \in DOMAIN @ |->
                SplitLayout(@[i], target, pane, direction)]]

\* removeLayoutPane, which answers null (Nothing) when no pane is left.
Nothing == [type |-> "null"]

RECURSIVE WithoutPane(_, _)
WithoutPane(layout, pane) ==
  IF IsLeaf(layout)
  THEN IF layout.pane = pane THEN Nothing ELSE layout
  ELSE LET kept == SelectSeq([i \in DOMAIN layout.children |->
                                WithoutPane(layout.children[i], pane)],
                             LAMBDA child : child # Nothing)
       IN  CASE Len(kept) = 0 -> Nothing
             [] Len(kept) = 1 -> kept[1]
             [] OTHER         -> [layout EXCEPT !.children = kept]

\* layoutExtent: how many panes lie side by side along an axis.
RECURSIVE Extent(_, _)
Extent(layout, axis) ==
  IF IsLeaf(layout)
  THEN 1
  ELSE LET extents == [i \in DOMAIN layout.children |->
                         Extent(layout.children[i], axis)]
       IN  IF layout.direction = axis
           THEN FoldLeft(LAMBDA sum, n : sum + n, 0, extents)
           ELSE Max(Range(extents))

\* The depth isLayout (workspace-state.ts) counts when it reads a layout back.
RECURSIVE Depth(_)
Depth(layout) ==
  IF IsLeaf(layout)
  THEN 0
  ELSE 1 + Max({Depth(layout.children[i]) : i \in DOMAIN layout.children})

\* neighborPaneId: the next pane of the layout, or else the one before.
Neighbor(layout, pane, none) ==
  LET ids == LayoutPanes(layout)
      at  == {i \in DOMAIN ids : ids[i] = pane}
  IN  IF at = {} \/ Len(ids) = 1 THEN none
      ELSE IF Max(at) < Len(ids) THEN ids[Min(at) + 1] ELSE ids[Min(at) - 1]
=============================================================================
