------------------------------ MODULE SpatialGrid ------------------------------
(***************************************************************************)
(* dots::simulation::SpatialGrid: the index from grid cells to the entities *)
(* whose bounding circle touches them.  The code treats its two axes alike; *)
(* the model keeps one, so a circle is an interval and a cell a number.     *)
(* A grid is a value (World holds one and copies it), so the operations are *)
(* operators that return the new grid.                                      *)
(***************************************************************************)
EXTENDS Integers, Sequences, SequencesExt

CONSTANTS
  CellSize,         \* cell_size_
  MinCell, MaxCell, \* std::int32_t's limits: the cells that can be named
  MaxCellsPerAxis   \* kMaximumCellsPerAxis

ASSUME GridAssumption ==
  /\ CellSize \in Nat \ {0} /\ MaxCellsPerAxis \in Nat \ {0}
  /\ MinCell \in Int /\ MaxCell \in Int

Circle(center, radius) == [center |-> center, radius |-> radius]

CirclesOverlap(a, b) ==
  LET delta == a.center - b.center
      sum   == a.radius + b.radius
  IN  delta * delta <= sum * sum

NoRange == [min |-> 1, max |-> 0]

CellRange(c) ==
  LET lo == (c.center - c.radius) \div CellSize
      hi == (c.center + c.radius) \div CellSize
  IN  IF lo < MinCell \/ hi > MaxCell \/ (hi - lo) + 1 > MaxCellsPerAxis
        THEN NoRange
        ELSE [min |-> lo, max |-> hi]

Cells(range) == range.min .. range.max

EmptyGrid == [entries |-> <<>>, cells |-> <<>>]

CanIndex(c) == CellRange(c) # NoRange

\* std::erase: the elements of s that are in S, in their order.
Kept(s, S) ==
  LET kept[n \in 0 .. Len(s)] ==
        IF n = 0 THEN <<>>
        ELSE IF s[n] \in S THEN Append(kept[n - 1], s[n]) ELSE kept[n - 1]
  IN  kept[Len(s)]

Indexed(g, id) == id \in DOMAIN g.entries

AddToCells(cells, id, range, excluded) ==
  LET fresh == Cells(range) \ Cells(excluded)
  IN  [k \in DOMAIN cells \cup fresh |->
         (IF k \in DOMAIN cells THEN cells[k] ELSE <<>>)
           \o (IF k \in fresh THEN <<id>> ELSE <<>>)]

\* A cell whose last entity leaves is erased.
RemoveFromCells(cells, id, range, excluded) ==
  LET gone    == Cells(range) \ Cells(excluded)
      left(k) == IF k \in gone THEN Kept(cells[k], ToSet(cells[k]) \ {id}) ELSE cells[k]
  IN  [k \in {c \in DOMAIN cells : left(c) # <<>>} |-> left(k)]

CanInsert(g, id, c) == CanIndex(c) /\ ~Indexed(g, id)

Insert(g, id, c) ==
  [entries |-> [x \in DOMAIN g.entries \cup {id} |->
                  IF x = id THEN CellRange(c) ELSE g.entries[x]],
   cells   |-> AddToCells(g.cells, id, CellRange(c), NoRange)]

CanUpdate(g, id, c) == CanIndex(c) /\ Indexed(g, id)

\* The new cells are entered before the old ones are left, so that a failed
\* allocation can be undone.
Update(g, id, c) ==
  LET old == g.entries[id]
      new == CellRange(c)
  IN  IF old = new
        THEN g
        ELSE [entries |-> [g.entries EXCEPT ![id] = new],
              cells   |-> RemoveFromCells(AddToCells(g.cells, id, new, old), id, old, new)]

Erase(g, id) ==
  [entries |-> [x \in DOMAIN g.entries \ {id} |-> g.entries[x]],
   cells   |-> RemoveFromCells(g.cells, id, g.entries[id], NoRange)]

\* Entities in the order of the cells visited, each one once.
Query(g, c) ==
  LET range    == CellRange(c)
      width    == (range.max - range.min) + 1
      entry(k) == IF k \in DOMAIN g.cells THEN g.cells[k] ELSE <<>>
      seen[n \in 0 .. width] ==
        IF n = 0
          THEN <<>>
          ELSE LET here == entry(range.min + n - 1)
               IN  seen[n - 1] \o Kept(here, ToSet(here) \ ToSet(seen[n - 1]))
  IN  seen[width]

-----------------------------------------------------------------------------

\* Every cell lists exactly the entities whose range covers it, once, and no
\* empty cell is kept.
GridCoherent(g) ==
  /\ \A k \in DOMAIN g.cells :
       /\ g.cells[k] # <<>>
       /\ IsInjective(g.cells[k])
  /\ \A id \in DOMAIN g.entries :
       \A k \in Cells(g.entries[id]) : k \in DOMAIN g.cells /\ id \in ToSet(g.cells[k])
  /\ \A k \in DOMAIN g.cells : \A id \in ToSet(g.cells[k]) :
       id \in DOMAIN g.entries /\ k \in Cells(g.entries[id])
=============================================================================
