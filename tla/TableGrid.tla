----------------------------- MODULE TableGrid -----------------------------
(***************************************************************************)
(* GridBuilder (crates/file-parser/src/model/table.rs), the only maker of  *)
(* table grids: each front end feeds it rows, cells with spans and covered *)
(* markers, and every renderer relies on the invariant of the result.      *)
(* Rows and columns count from 1; a cell is the extent it claims and       *)
(* whether it renders to nothing.                                          *)
(***************************************************************************)
EXTENDS Integers, FiniteSets

CONSTANTS MaxExpansion,  \* limits::MAX_EXPANSION
          Spans,         \* the spans a source may write
          MaxRows, MaxWidth  \* bounds: rows, and the width at which a row is full

ASSUME GridAssumption ==
  Spans \subseteq Nat /\ {MaxExpansion, MaxRows, MaxWidth} \subseteq Nat

VARIABLES
  height, width,  \* the number of rows, and of slots in each
  grid,           \* position -> slot
  pending,        \* position -> the origin whose span covers it
  expansion,      \* covered positions charged so far
  finished

vars == <<height, width, grid, pending, expansion, finished>>

Cell(rows, cols, empty) ==
  [kind |-> "origin", rows |-> rows, cols |-> cols, empty |-> empty]
Covered(origin) == [kind |-> "covered", by |-> origin]

(* Cell::default() claims nothing: its spans are 0.                        *)
Filler == Cell(0, 0, TRUE)

RowsOf(h, w) == UNION {{r} \X (1..w[r]) : r \in 1..h}

(* A span written as 0 is raised to 1; the whole area is charged, less the  *)
(* origin.                                                                 *)
AtLeastOne(n) == IF n = 0 THEN 1 ELSE n
AtMost(n, bound) == IF n > bound THEN bound ELSE n
ChargeAsWritten(rowSpan, colSpan) == rowSpan * colSpan - 1
Charge(rowSpan, colSpan) == AtLeastOne(rowSpan) * AtLeastOne(colSpan) - 1

Init ==
  /\ height = 0 /\ width = [r \in {} |-> 0]
  /\ grid = [p \in {} |-> Filler] /\ pending = [p \in {} |-> p]
  /\ expansion = 0 /\ finished = FALSE

-----------------------------------------------------------------------------
NextRow ==
  /\ ~finished /\ height < MaxRows
  /\ height' = height + 1
  /\ width' = [r \in 1..(height + 1) |-> IF r \in DOMAIN width THEN width[r] ELSE 0]
  /\ UNCHANGED <<grid, pending, expansion, finished>>

(* row_index(): the row being filled; the first is made when it is needed. *)
Row == IF height = 0 THEN 1 ELSE height
Cursor == IF height = 0 THEN 1 ELSE width[height] + 1

IsPending(r, c) == <<r, c>> \in DOMAIN pending
Area(r, rows, c, cols) == (r..(r + rows - 1)) \X (c..(c + cols - 1))

FillUnskipped(end, slot) ==
  /\ height' = Row
  /\ width' = [r \in 1..Row |-> IF r = Row THEN end ELSE width[r]]
  /\ grid' = [p \in DOMAIN grid \cup {<<Row, end>>} |->
                IF p \in DOMAIN grid THEN grid[p] ELSE slot]

(* The row up to `end` gets these slots; what was pending there is so no   *)
(* longer.                                                                 *)
Fill(end, slot) ==
  /\ height' = Row
  /\ width' = [r \in 1..Row |-> IF r = Row THEN end ELSE width[r]]
  /\ grid' = [p \in DOMAIN grid \cup ({Row} \X (Cursor..end)) |->
                IF p \in DOMAIN grid THEN grid[p]
                ELSE IF p \in DOMAIN pending THEN Covered(pending[p]) ELSE slot]

(* place(): the first free column, then spans clamped to what is free.     *)
FirstFree(col) == ~IsPending(Row, col) /\ \A c \in Cursor..(col - 1) : IsPending(Row, c)

ColumnsAsAsked(col, wanted, cols) == cols = wanted
ColumnsClamp(col, wanted, cols) ==
  /\ \A dc \in 1..(cols - 1) : ~IsPending(Row, col + dc)
  /\ cols = wanted \/ IsPending(Row, col + cols)

RowsClamp(col, cols, wanted, rows) ==
  /\ \A dr \in 1..(rows - 1), dc \in 0..(cols - 1) : ~IsPending(Row + dr, col + dc)
  /\ rows = wanted \/ \E dc \in 0..(cols - 1) : IsPending(Row + rows, col + dc)

Place(rowSpan, colSpan, empty) ==
  LET wantedRows == AtLeastOne(rowSpan)
      wantedCols == AtLeastOne(colSpan) IN
  /\ ~finished /\ Cursor <= MaxWidth
  /\ expansion' = expansion + Charge(rowSpan, colSpan)
  /\ expansion' <= MaxExpansion
  /\ \E col \in Cursor..(Cursor + Cardinality(DOMAIN pending)),
        cols \in 1..wantedCols, rows \in 1..wantedRows :
       /\ FirstFree(col)
       /\ ColumnsClamp(col, wantedCols, cols)
       /\ RowsClamp(col, cols, wantedRows, rows)
       /\ Fill(col, Cell(rows, cols, empty))
       /\ LET origin == <<Row, col>>
              claimed == Area(Row, rows, col, cols) \ {origin} IN
          pending' = [p \in (DOMAIN pending \ ({Row} \X (Cursor..col))) \cup claimed |->
                        IF p \in claimed THEN origin ELSE pending[p]]
  /\ UNCHANGED finished

(* The whole area is charged before anything else: no row is even made.    *)
Refuse(rowSpan, colSpan) ==
  /\ ~finished /\ expansion <= MaxExpansion
  /\ expansion' = expansion + Charge(rowSpan, colSpan)
  /\ expansion' > MaxExpansion
  /\ UNCHANGED <<height, width, grid, pending, finished>>

MarkerKeepsPending ==
  /\ ~finished /\ Cursor <= MaxWidth
  /\ Fill(Cursor, Filler)
  /\ UNCHANGED <<pending, expansion, finished>>

(* covered(): the marker of a span, or an empty cell if there is none.     *)
Marker ==
  /\ ~finished /\ Cursor <= MaxWidth
  /\ Fill(Cursor, Filler)
  /\ pending' = [p \in DOMAIN pending \ {<<Row, Cursor>>} |-> pending[p]]
  /\ UNCHANGED <<expansion, finished>>

-----------------------------------------------------------------------------
(* finish(): what is still pending in a row is put where it belongs, with  *)
(* fillers before it; blank rows at the end go; spans are cut to the rest. *)

Reach(r, end) ==
  /\ end >= width[r] /\ \A p \in DOMAIN pending : p[1] = r => p[2] <= end
  /\ end = width[r] \/ IsPending(r, end)

Slot(p) ==
  IF p \in DOMAIN grid THEN grid[p]
  ELSE IF p \in DOMAIN pending THEN Covered(pending[p]) ELSE Filler

BlankStart(r, end, keepCoveredTail) ==
  end = 0 \/ LET slot == Slot(<<r, 1>>) IN
             IF slot.kind = "origin" THEN slot.empty ELSE ~keepCoveredTail
Blank(r, end, keepCoveredTail) ==
  \A c \in 1..end :
    LET slot == Slot(<<r, c>>) IN
    IF slot.kind = "origin" THEN slot.empty ELSE ~keepCoveredTail

Clamped(slot, rowsLeft, colsLeft) ==
  IF slot.kind = "covered" THEN slot
  ELSE [slot EXCEPT !.rows = AtMost(@, rowsLeft), !.cols = AtMost(@, colsLeft)]

Finish(keepCoveredTail) ==
  /\ ~finished /\ finished' = TRUE
  /\ \E ends \in [1..height -> {0} \cup {width[r] : r \in 1..height} \cup {p[2] : p \in DOMAIN pending}],
        n \in 0..height :
       /\ \A r \in 1..height : Reach(r, ends[r])
       /\ \A r \in (n + 1)..height : Blank(r, ends[r], keepCoveredTail)
       /\ n > 0 => ~Blank(n, ends[n], keepCoveredTail)
       /\ height' = n
       /\ width' = [r \in 1..n |-> ends[r]]
       /\ grid' = [p \in RowsOf(n, ends) |->
                     Clamped(Slot(p), n - p[1] + 1, ends[p[1]] - p[2] + 1)]
  /\ pending' = [p \in {} |-> p]
  /\ UNCHANGED expansion

Next ==
  \/ NextRow \/ Marker \/ \E keep \in BOOLEAN : Finish(keep)
  \/ \E rowSpan, colSpan \in Spans :
       Refuse(rowSpan, colSpan) \/ \E empty \in BOOLEAN : Place(rowSpan, colSpan, empty)

Spec == Init /\ [][Next]_vars

-----------------------------------------------------------------------------
Positions == (Nat \ {0}) \X (Nat \ {0})

Slots ==
  [kind : {"origin"}, rows : Nat, cols : Nat, empty : BOOLEAN]
    \cup [kind : {"covered"}, by : Positions]

TypeOK ==
  /\ height \in Nat /\ width \in [1..height -> Nat]
  /\ DOMAIN grid = RowsOf(height, width)
  /\ \A p \in DOMAIN grid : grid[p] \in Slots
  /\ DOMAIN pending \subseteq Positions /\ \A p \in DOMAIN pending : pending[p] \in Positions
  /\ expansion \in Nat /\ finished \in BOOLEAN

IsOrigin(p) == p \in DOMAIN grid /\ grid[p].kind = "origin"
Claims(o) == Area(o[1], grid[o].rows, o[2], grid[o].cols) \ {o}

(* "every logical grid position appears exactly once - content and spans   *)
(* exist only on the origin slot, and each position covered by a span      *)
(* holds a marker pointing back at its origin" (model/table.rs:6).         *)
ExactlyOnce ==
  finished =>
    /\ \A o \in DOMAIN grid : IsOrigin(o) =>
         \A p \in Claims(o) : p \in DOMAIN grid /\ grid[p] = Covered(o)
    /\ \A p \in DOMAIN grid : grid[p].kind = "covered" =>
         IsOrigin(grid[p].by) /\ p \in Claims(grid[p].by)

(* The debug_assert of finish(): a position that is still pending lies     *)
(* past the end of its row.                                                *)
PendingIsAhead ==
  \A p \in DOMAIN pending : p[1] <= height => p[2] > width[p[1]]

(* "charged against MAX_EXPANSION before any per-position work"            *)
(* (model/table.rs:130): no sequence of cells makes more covered positions *)
(* than that.                                                              *)
ExpansionIsBounded ==
  Cardinality(DOMAIN pending \cup {p \in DOMAIN grid : grid[p].kind = "covered"})
    <= MaxExpansion

(* "Drop trailing all-empty rows" (model/table.rs:283): no step loses a    *)
(* cell that renders to something, or moves it from where it was placed.   *)
HasContent(p) == IsOrigin(p) /\ ~grid[p].empty
ContentIsKept == [][\A p \in DOMAIN grid : HasContent(p) => HasContent(p)']_vars
=============================================================================
