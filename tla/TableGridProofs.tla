-------------------------- MODULE TableGridProofs --------------------------
(***************************************************************************)
(* What TableGrid promises of every grid, for any budget, any spans and    *)
(* any number of rows and columns.                                         *)
(***************************************************************************)
EXTENDS TableGrid, FiniteSetTheorems, TLAPS

USE GridAssumption

(* A claimed position is pending for the cell that claims it, or already   *)
(* covered by it, and nothing else is pending or covered.                  *)
HeldFor(p, o) ==
  \/ p \in DOMAIN pending /\ pending[p] = o
  \/ p \in DOMAIN grid /\ grid[p] = Covered(o)
ClaimsAreHeld ==
  \A o \in DOMAIN grid : IsOrigin(o) => \A p \in Claims(o) : HeldFor(p, o)
ClaimedBy(p, o) == IsOrigin(o) /\ p \in Claims(o)
HoldsAreClaimed ==
  /\ \A p \in DOMAIN pending : ClaimedBy(p, pending[p])
  /\ \A p \in DOMAIN grid : grid[p].kind = "covered" => ClaimedBy(p, grid[p].by)

IInv ==
  /\ TypeOK /\ PendingIsAhead /\ ClaimsAreHeld /\ HoldsAreClaimed
  /\ finished => DOMAIN pending = {}

-----------------------------------------------------------------------------
(* The two kinds of slot.                                                  *)
LEMMA SlotKinds ==
  /\ \A rows, cols \in Nat, empty \in BOOLEAN :
       /\ Cell(rows, cols, empty) \in Slots /\ Cell(rows, cols, empty).kind = "origin"
       /\ Cell(rows, cols, empty).rows = rows /\ Cell(rows, cols, empty).cols = cols
       /\ Cell(rows, cols, empty).empty = empty
  /\ \A o \in Positions :
       Covered(o) \in Slots /\ Covered(o).kind = "covered" /\ Covered(o).by = o
BY DEF Cell, Covered, Slots

(* A slot that is not a cell is a marker, and says no more than its origin. *)
LEMMA SlotCases ==
  ASSUME NEW slot \in Slots
  PROVE  \/ /\ slot.kind = "origin" /\ slot.rows \in Nat /\ slot.cols \in Nat
            /\ slot.empty \in BOOLEAN
         \/ slot.kind = "covered" /\ slot.by \in Positions /\ slot = Covered(slot.by)
BY DEF Slots, Covered

(* Cutting a span to the positions left before `m` keeps those it claims   *)
(* there.                                                                  *)
LEMMA Cut ==
  ASSUME NEW m \in Nat, NEW a \in Nat \ {0}, a <= m, NEW span \in Nat, NEW x \in Nat
  PROVE  /\ m - a + 1 \in Nat \ {0} /\ AtMost(span, m - a + 1) \in Nat
         /\ x <= a + AtMost(span, m - a + 1) - 1 <=> x <= a + span - 1 /\ x <= m
BY DEF AtMost

(* Membership in the rows of a grid.                                       *)
LEMMA InRows ==
  ASSUME NEW h \in Nat, NEW w \in [1..h -> Nat]
  PROVE  \A p : p \in RowsOf(h, w) <=>
           /\ p \in Positions /\ p[1] \in 1..h /\ p[2] \in 1..w[p[1]]
BY DEF RowsOf, Positions

(* Filling the row up to `end` keeps every slot there was, and adds those  *)
(* from the cursor on: the pending markers, and the slot elsewhere.        *)
LEMMA Filling ==
  ASSUME TypeOK, NEW end \in Nat, end >= Cursor, NEW slot \in Slots, Fill(end, slot)
  PROVE  /\ Row \in Nat \ {0} /\ Cursor \in Nat \ {0}
         /\ height' = Row /\ width' \in [1..height' -> Nat] /\ width'[Row] = end
         /\ \A r \in 1..height : r # Row => width'[r] = width[r]
         /\ DOMAIN grid' = RowsOf(height', width')
         /\ \A p \in DOMAIN grid : p \in DOMAIN grid' /\ grid'[p] = grid[p]
         /\ \A p \in DOMAIN grid' \ DOMAIN grid :
              /\ p[1] = Row /\ p[2] \in Cursor..end
              /\ grid'[p] = IF p \in DOMAIN pending THEN Covered(pending[p]) ELSE slot
         /\ \A c \in Cursor..end :
              <<Row, c>> \notin DOMAIN grid /\ <<Row, c>> \in DOMAIN grid'
         /\ \A p \in DOMAIN grid' : grid'[p] \in Slots
<1>1. Row \in Nat \ {0} /\ Cursor \in Nat \ {0}
  BY DEF TypeOK, Row, Cursor
<1>2. /\ height' = Row /\ width' \in [1..height' -> Nat] /\ width'[Row] = end
      /\ \A r \in 1..height : r # Row => width'[r] = width[r]
  <2>1. height' = Row /\ width' = [r \in 1..Row |-> IF r = Row THEN end ELSE width[r]]
    BY DEF Fill
  <2>2. \A r \in 1..Row : r # Row => r \in 1..height /\ width[r] \in Nat
    BY DEF Row, TypeOK
  <2>3. \A r \in 1..height : r \in 1..Row
    BY DEF Row, TypeOK
  <2> QED
    BY <1>1, <2>1, <2>2, <2>3
<1>3. \A p : p \in DOMAIN grid <=>
         /\ p \in Positions /\ p[1] \in 1..height /\ p[2] \in 1..width[p[1]]
  BY InRows DEF TypeOK
<1>4. \A p : p \in RowsOf(height', width') <=>
         /\ p \in Positions /\ p[1] \in 1..Row /\ p[2] \in 1..width'[p[1]]
  BY InRows, <1>1, <1>2
<1>5. \A p : p \in DOMAIN grid' <=> p \in DOMAIN grid \/ p \in {Row} \X (Cursor..end)
  BY DEF Fill
<1>6. \A p \in {Row} \X (Cursor..end) : p \in RowsOf(height', width') /\ p \notin DOMAIN grid
  <2> SUFFICES ASSUME NEW c \in Cursor..end
               PROVE  /\ <<Row, c>> \in RowsOf(height', width')
                      /\ <<Row, c>> \notin DOMAIN grid
    OBVIOUS
  <2>1. <<Row, c>> \in Positions /\ <<Row, c>>[1] = Row /\ <<Row, c>>[2] = c /\ c \in 1..end
    BY <1>1 DEF Positions
  <2>2. <<Row, c>> \in RowsOf(height', width')
    BY <2>1, <1>1, <1>2, <1>4
  <2>3. <<Row, c>> \notin DOMAIN grid
    BY <2>1, <1>1, <1>3 DEF Row, Cursor, TypeOK
  <2> QED
    BY <2>2, <2>3
<1>7. \A p \in DOMAIN grid : p \in RowsOf(height', width')
  <2> SUFFICES ASSUME NEW p \in DOMAIN grid PROVE p \in RowsOf(height', width')
    OBVIOUS
  <2>1. p \in Positions /\ p[1] \in 1..height /\ p[2] \in 1..width[p[1]]
    BY <1>3
  <2>2. p[1] \in 1..Row /\ width[p[1]] \in Nat /\ width[p[1]] <= width'[p[1]]
    <3>1. p[1] \in 1..height /\ p[1] \in 1..Row /\ width[p[1]] \in Nat
      BY <2>1 DEF TypeOK, Row
    <3>2. CASE p[1] = Row
      BY <3>1, <3>2, <1>1, <1>2 DEF Row, Cursor, TypeOK
    <3>3. CASE p[1] # Row
      BY <3>1, <3>3, <1>2
    <3> QED
      BY <3>1, <3>2, <3>3
  <2>3. width'[p[1]] \in Nat
    BY <2>2, <1>2
  <2> QED
    BY <2>1, <2>2, <2>3, <1>4
<1>8. DOMAIN grid' = RowsOf(height', width')
  <2>1. ASSUME NEW p \in RowsOf(height', width'), p \notin DOMAIN grid
        PROVE  p \in {Row} \X (Cursor..end)
    <3>1. p \in Positions /\ p[1] \in 1..Row /\ p[2] \in 1..width'[p[1]]
      BY <1>4
    <3>2. p = <<p[1], p[2]>> /\ p[1] \in Nat /\ p[2] \in Nat
      BY <3>1 DEF Positions
    <3>3. p[1] = Row
      BY <3>1, <3>2, <2>1, <1>2, <1>3, <1>1 DEF Row, TypeOK
    <3>4. p[2] \in Cursor..end
      <4>1. p[2] \in 1..end
        BY <3>1, <3>3, <1>2
      <4>2. CASE height = 0
        BY <4>1, <4>2 DEF Cursor
      <4>3. CASE height # 0
        <5>1. Row = height /\ Cursor = width[height] + 1 /\ width[height] \in Nat
          BY <4>3 DEF Row, Cursor, TypeOK
        <5>2. p[1] \in 1..height
          BY <5>1, <3>3, <1>1
        <5>3. p[2] \notin 1..width[height]
          BY <5>1, <5>2, <3>1, <3>3, <2>1, <1>3
        <5> QED
          BY <4>1, <5>1, <5>3
      <4> QED
        BY <4>2, <4>3
    <3> QED
      BY <3>2, <3>3, <3>4
  <2> QED
    BY <1>5, <1>6, <1>7, <2>1
<1>9. \A p \in DOMAIN grid : p \in DOMAIN grid' /\ grid'[p] = grid[p]
  BY DEF Fill
<1>10. \A p \in DOMAIN grid' \ DOMAIN grid :
         /\ p[1] = Row /\ p[2] \in Cursor..end
         /\ grid'[p] = IF p \in DOMAIN pending THEN Covered(pending[p]) ELSE slot
  BY <1>5 DEF Fill
<1>11. \A p \in DOMAIN grid' : grid'[p] \in Slots
  BY <1>9, <1>10, SlotKinds DEF TypeOK
<1> QED
  BY <1>1, <1>2, <1>5, <1>6, <1>8, <1>9, <1>10, <1>11

-----------------------------------------------------------------------------
(* What place() claims for the cell it places at `col`.                    *)
Claim(col, rows, cols) == Area(Row, rows, col, cols) \ {<<Row, col>>}

(* Where a cell claims positions: at or after its own row and column.      *)
LEMMA ClaimShape ==
  ASSUME NEW r \in Nat \ {0}, NEW c \in Nat \ {0}, NEW rows \in Nat, NEW cols \in Nat
  PROVE  \A p : p \in Area(r, rows, c, cols) <=>
           /\ p \in Positions /\ p[1] >= r /\ p[1] <= r + rows - 1
           /\ p[2] >= c /\ p[2] <= c + cols - 1
<1>1. \A p : p \in Area(r, rows, c, cols) <=>
        \E i \in r..(r + rows - 1), j \in c..(c + cols - 1) : p = <<i, j>>
  BY DEF Area
<1>2. \A i \in r..(r + rows - 1), j \in c..(c + cols - 1) : <<i, j>> \in Positions
  BY DEF Positions
<1>3. \A p \in Positions : p = <<p[1], p[2]>> /\ p[1] \in Nat /\ p[2] \in Nat
  BY DEF Positions
<1> QED
  BY <1>1, <1>2, <1>3

(* The clamps of place(): nothing the cell claims is claimed already.      *)
LEMMA ClaimIsFree ==
  ASSUME TypeOK, PendingIsAhead, NEW col \in Nat, col >= Cursor,
         NEW wantedRows \in Nat, NEW wantedCols \in Nat,
         NEW rows \in Nat \ {0}, NEW cols \in Nat \ {0},
         FirstFree(col), ColumnsClamp(col, wantedCols, cols),
         RowsClamp(col, cols, wantedRows, rows)
  PROVE  \A p \in Claim(col, rows, cols) :
           /\ p \in Positions /\ p \notin DOMAIN pending /\ p \notin DOMAIN grid
           /\ p[1] >= Row /\ (p[1] = Row => p[2] > col)
<1>1. Row \in Nat \ {0} /\ Cursor \in Nat \ {0}
  BY DEF TypeOK, Row, Cursor
<1> SUFFICES ASSUME NEW p \in Claim(col, rows, cols)
             PROVE  /\ p \in Positions /\ p \notin DOMAIN pending /\ p \notin DOMAIN grid
                    /\ p[1] >= Row /\ (p[1] = Row => p[2] > col)
  OBVIOUS
<1>2. /\ p \in Positions /\ p[1] >= Row /\ p[1] <= Row + rows - 1
      /\ p[2] >= col /\ p[2] <= col + cols - 1 /\ p # <<Row, col>>
  BY <1>1, ClaimShape DEF Claim
<1>3. p = <<p[1], p[2]>> /\ p[1] \in Nat /\ p[2] \in Nat
  BY <1>2 DEF Positions
<1>4. p[1] = Row => p[2] > col
  BY <1>2, <1>3
<1>5. p \notin DOMAIN grid
  <2>1. p \in DOMAIN grid => p[1] \in 1..height /\ p[2] \in 1..width[p[1]]
    BY InRows DEF TypeOK
  <2>2. SUFFICES ASSUME p \in DOMAIN grid PROVE FALSE
    OBVIOUS
  <2>3. height # 0 /\ Row = height /\ Cursor = width[height] + 1 /\ width[height] \in Nat
    BY <2>1, <2>2 DEF Row, Cursor, TypeOK
  <2>4. p[1] = Row /\ p[2] <= width[height]
    BY <2>1, <2>2, <2>3, <1>1, <1>2, <1>3
  <2> QED
    BY <2>3, <2>4, <1>3, <1>4
<1>6. p \notin DOMAIN pending
  <2>1. CASE p[1] = Row
    <3>1. p[2] - col \in 1..(cols - 1) /\ col + (p[2] - col) = p[2]
      BY <2>1, <1>2, <1>3, <1>4
    <3> QED
      BY <3>1, <2>1, <1>3 DEF ColumnsClamp, IsPending
  <2>2. CASE p[1] > Row
    <3>1. /\ p[1] - Row \in 1..(rows - 1) /\ Row + (p[1] - Row) = p[1]
          /\ p[2] - col \in 0..(cols - 1) /\ col + (p[2] - col) = p[2]
      BY <2>2, <1>1, <1>2, <1>3
    <3> QED
      BY <3>1, <1>3 DEF RowsClamp, IsPending
  <2> QED
    BY <2>1, <2>2, <1>1, <1>2, <1>3
<1> QED
  BY <1>2, <1>4, <1>5, <1>6

-----------------------------------------------------------------------------
(* Any way of filling the row up to `end` that also puts what its last slot *)
(* claims to the pending positions keeps the invariant: place() and        *)
(* covered() are two of them.                                              *)
LEMMA FillStep ==
  ASSUME IInv, ~finished, UNCHANGED finished, expansion' \in Nat,
         NEW end \in Nat, end >= Cursor, NEW slot \in Slots, slot.kind = "origin",
         Fill(end, slot),
         NEW claimed, claimed = Area(Row, slot.rows, end, slot.cols) \ {<<Row, end>>},
         \A p \in claimed :
           /\ p \in Positions /\ p \notin DOMAIN pending /\ p \notin DOMAIN grid
           /\ p[1] >= Row /\ (p[1] = Row => p[2] > end),
         \A c \in Cursor..end : c # end => IsPending(Row, c),
         IsPending(Row, end) => claimed = {},
         pending' = [p \in (DOMAIN pending \ ({Row} \X (Cursor..end))) \cup claimed |->
                       IF p \in claimed THEN <<Row, end>> ELSE pending[p]]
  PROVE  IInv'
<1> DEFINE origin == <<Row, end>>
           passed == {Row} \X (Cursor..end)
<1>1. TypeOK
  BY DEF IInv
<1>2. /\ Row \in Nat \ {0} /\ Cursor \in Nat \ {0}
      /\ height' = Row /\ width' \in [1..height' -> Nat] /\ width'[Row] = end
      /\ \A r \in 1..height : r # Row => width'[r] = width[r]
      /\ DOMAIN grid' = RowsOf(height', width')
  BY <1>1, Filling
<1>3. /\ \A p \in DOMAIN grid : p \in DOMAIN grid' /\ grid'[p] = grid[p]
      /\ \A p \in DOMAIN grid' \ DOMAIN grid :
           /\ p[1] = Row /\ p[2] \in Cursor..end
           /\ grid'[p] = IF p \in DOMAIN pending THEN Covered(pending[p]) ELSE slot
      /\ \A c \in Cursor..end : <<Row, c>> \notin DOMAIN grid /\ <<Row, c>> \in DOMAIN grid'
      /\ \A p \in DOMAIN grid' : grid'[p] \in Slots
  BY <1>1, Filling
<1>4. origin \in Positions /\ origin[1] = Row /\ origin[2] = end
  BY <1>2 DEF Positions
<1>5. /\ \A p \in DOMAIN pending' :
           \/ p \in claimed /\ pending'[p] = origin
           \/ p \in DOMAIN pending /\ p \notin passed /\ pending'[p] = pending[p]
      /\ \A p \in claimed : p \in DOMAIN pending' /\ pending'[p] = origin
      /\ \A p \in DOMAIN pending : p \notin passed =>
           p \in DOMAIN pending' /\ pending'[p] = pending[p]
  OBVIOUS
<1>6. TypeOK'
  <2>1. DOMAIN pending' \subseteq Positions /\ \A p \in DOMAIN pending' : pending'[p] \in Positions
    BY <1>1, <1>4, <1>5 DEF TypeOK
  <2>2. \A p \in DOMAIN grid' : grid'[p] \in Slots
    BY <1>3
  <2> QED
    BY <2>1, <2>2, <1>1, <1>2 DEF TypeOK, Positions, Slots, RowsOf
<1>7. PendingIsAhead'
  <2> SUFFICES ASSUME NEW p \in DOMAIN pending', p[1] <= height'
               PROVE  p[2] > width'[p[1]]
    BY DEF PendingIsAhead
  <2>1. p \in Positions /\ p = <<p[1], p[2]>> /\ p[1] \in Nat \ {0} /\ p[2] \in Nat \ {0}
    BY <1>6 DEF TypeOK, Positions
  <2>2. CASE p \in claimed
    BY <2>1, <2>2, <1>2
  <2>3. CASE p \in DOMAIN pending /\ p \notin passed
    <3>1. CASE p[1] = Row
      <4>1. p[2] \notin Cursor..end
        BY <2>1, <2>3, <3>1
      <4>2. p[2] >= Cursor
        BY <2>1, <2>3, <3>1, <1>1 DEF IInv, PendingIsAhead, Row, Cursor, TypeOK
      <4> QED
        BY <4>1, <4>2, <2>1, <3>1, <1>2
    <3>2. CASE p[1] # Row
      <4>1. p[1] \in 1..height
        BY <2>1, <3>2, <1>2 DEF Row
      <4> QED
        <5>1. width'[p[1]] = width[p[1]]
          BY <4>1, <3>2, <1>2
        <5>2. p[1] <= height
          BY <4>1, <1>1 DEF TypeOK
        <5> QED
          BY <5>1, <5>2, <2>3 DEF IInv, PendingIsAhead
    <3> QED
      BY <3>1, <3>2
  <2> QED
    BY <2>2, <2>3, <1>5
<1>8. \A p, o : HeldFor(p, o) => HeldFor(p, o)'
  <2> SUFFICES ASSUME NEW p, NEW o, HeldFor(p, o) PROVE HeldFor(p, o)'
    OBVIOUS
  <2>1. CASE p \in DOMAIN grid /\ grid[p] = Covered(o)
    BY <2>1, <1>3 DEF HeldFor, Covered
  <2>2. CASE p \in DOMAIN pending /\ pending[p] = o /\ p \notin passed
    BY <2>2, <1>5 DEF HeldFor
  <2>3. CASE p \in DOMAIN pending /\ pending[p] = o /\ p \in passed
    <3>1. PICK c \in Cursor..end : p = <<Row, c>>
      BY <2>3
    <3>2. p \in DOMAIN grid' /\ p \notin DOMAIN grid
      BY <3>1, <1>3
    <3> QED
      BY <3>2, <2>3, <1>3 DEF HeldFor, Covered
  <2> QED
    BY <2>1, <2>2, <2>3 DEF HeldFor
<1>9. \A p, o : ClaimedBy(p, o) => ClaimedBy(p, o)'
  BY <1>3 DEF ClaimedBy, IsOrigin, Claims, Area
<1>10. ClaimsAreHeld'
  <2> SUFFICES ASSUME NEW o \in DOMAIN grid', IsOrigin(o)', NEW p \in Claims(o)'
               PROVE  HeldFor(p, o)'
    BY DEF ClaimsAreHeld
  <2>1. CASE o \in DOMAIN grid
    <3>1. grid'[o] = grid[o]
      BY <2>1, <1>3
    <3>2. IsOrigin(o) /\ p \in Claims(o)
      BY <2>1, <3>1 DEF IsOrigin, Claims, Area
    <3> QED
      BY <2>1, <3>2, <1>8 DEF IInv, ClaimsAreHeld
  <2>2. CASE o \notin DOMAIN grid
    <3>1. /\ o[1] = Row /\ o[2] \in Cursor..end
          /\ grid'[o] = IF o \in DOMAIN pending THEN Covered(pending[o]) ELSE slot
      BY <2>2, <1>3
    <3>2. o \notin DOMAIN pending /\ grid'[o] = slot
      BY <3>1 DEF IsOrigin, Covered
    <3>3. o = <<o[1], o[2]>>
      BY <1>2, InRows DEF Positions
    <3>4. o = origin
      BY <3>1, <3>2, <3>3 DEF IsPending
    <3>5. p \in claimed
      BY <3>2, <3>4, <1>4 DEF Claims
    <3> QED
      BY <3>4, <3>5, <1>5 DEF HeldFor
  <2> QED
    BY <2>1, <2>2
<1>11. HoldsAreClaimed'
  <2>1. ASSUME NEW p \in DOMAIN pending' PROVE ClaimedBy(p, pending[p])'
    <3>1. CASE p \in DOMAIN pending /\ pending'[p] = pending[p]
      BY <3>1, <1>9 DEF IInv, HoldsAreClaimed, ClaimedBy, IsOrigin, Claims, Area
    <3>2. CASE p \in claimed /\ pending'[p] = origin
      <4>1. ~IsPending(Row, end)
        BY <3>2
      <4>2. origin \in DOMAIN grid' /\ grid'[origin] = slot
        <5>1. end \in Cursor..end
          BY <1>2
        <5> QED
          BY <5>1, <4>1, <1>3 DEF IsPending
      <4> QED
        BY <3>2, <4>2, <1>4 DEF ClaimedBy, IsOrigin, Claims, Area
    <3> QED
      BY <3>1, <3>2, <1>5
  <2>2. ASSUME NEW p \in DOMAIN grid', grid'[p].kind = "covered" PROVE ClaimedBy(p, grid[p].by)'
    <3>1. CASE p \in DOMAIN grid
      <4>1. grid'[p] = grid[p]
        BY <3>1, <1>3
      <4>2. PICK o : o = grid[p].by
        OBVIOUS
      <4>3. ClaimedBy(p, o)'
        BY <3>1, <4>1, <4>2, <2>2, <1>9 DEF IInv, HoldsAreClaimed
      <4>4. grid'[p].by = o
        BY <4>1, <4>2
      <4> QED
        BY <4>3, <4>4 DEF ClaimedBy, IsOrigin, Claims, Area
    <3>2. CASE p \notin DOMAIN grid
      <4>1. p \in DOMAIN pending /\ grid'[p] = Covered(pending[p])
        BY <3>2, <2>2, <1>3
      <4>2. grid'[p].by = pending[p] /\ ClaimedBy(p, pending[p])
        BY <4>1 DEF Covered, IInv, HoldsAreClaimed
      <4> QED
        BY <4>2, <1>9 DEF ClaimedBy, IsOrigin, Claims, Area
    <3> QED
      BY <3>1, <3>2
  <2> QED
    BY <2>1, <2>2 DEF HoldsAreClaimed
<1> QED
  BY <1>6, <1>7, <1>10, <1>11 DEF IInv

-----------------------------------------------------------------------------
(* A new row moves nothing.                                                *)
LEMMA NextRowStep ==
  ASSUME IInv, NextRow
  PROVE  IInv'
<1>1. /\ ~finished /\ height \in Nat /\ width \in [1..height -> Nat]
      /\ grid' = grid /\ pending' = pending /\ expansion' = expansion /\ finished' = finished
      /\ height' = height + 1
      /\ width' = [r \in 1..(height + 1) |-> IF r \in DOMAIN width THEN width[r] ELSE 0]
  BY DEF NextRow, IInv, TypeOK
<1>2. /\ height' \in Nat /\ width' \in [1..height' -> Nat]
      /\ \A r \in 1..height : width'[r] = width[r]
      /\ width'[height'] = 0
  BY <1>1
<1>3. TypeOK'
  <2>1. \A p : p \in RowsOf(height', width') <=> p \in RowsOf(height, width)
    <3>1. \A p \in Positions : p[1] \in 1..height' /\ p[2] \in 1..width'[p[1]]
                             <=> p[1] \in 1..height /\ p[2] \in 1..width[p[1]]
      <4> SUFFICES ASSUME NEW p \in Positions
                   PROVE  p[1] \in 1..height' /\ p[2] \in 1..width'[p[1]]
                            <=> p[1] \in 1..height /\ p[2] \in 1..width[p[1]]
        OBVIOUS
      <4>1. p[1] \in Nat \ {0} /\ p[2] \in Nat \ {0}
        BY DEF Positions
      <4>2. CASE p[1] \in 1..height
        BY <1>1, <1>2, <4>1, <4>2
      <4>3. CASE p[1] \notin 1..height
        BY <1>1, <1>2, <4>1, <4>3
      <4> QED
        BY <4>2, <4>3
    <3>2. \A p : p \in RowsOf(height, width) <=>
                  p \in Positions /\ p[1] \in 1..height /\ p[2] \in 1..width[p[1]]
      BY <1>1, InRows
    <3>3. \A p : p \in RowsOf(height', width') <=>
                  p \in Positions /\ p[1] \in 1..height' /\ p[2] \in 1..width'[p[1]]
      BY <1>2, InRows
    <3> HIDE DEF RowsOf, Positions
    <3> QED
      BY <3>1, <3>2, <3>3
  <2>2. DOMAIN grid' = RowsOf(height', width')
    BY <2>1, <1>1 DEF IInv, TypeOK
  <2> QED
    BY <2>2, <1>1, <1>2 DEF IInv, TypeOK, Positions, Slots, RowsOf
<1>4. PendingIsAhead'
  <2> SUFFICES ASSUME NEW p \in DOMAIN pending, p[1] <= height'
               PROVE  p[2] > width'[p[1]]
    BY <1>1 DEF PendingIsAhead
  <2>1. p[1] \in Nat \ {0} /\ p[2] \in Nat \ {0}
    BY DEF IInv, TypeOK, Positions
  <2>2. CASE p[1] <= height
    BY <1>1, <1>2, <2>1, <2>2 DEF IInv, PendingIsAhead
  <2>3. CASE p[1] = height'
    BY <1>2, <2>1, <2>3
  <2> QED
    BY <1>1, <2>1, <2>2, <2>3
<1>5. ClaimsAreHeld' /\ HoldsAreClaimed'
  BY <1>1 DEF IInv, ClaimsAreHeld, HoldsAreClaimed, HeldFor, ClaimedBy, IsOrigin, Claims, Area
<1> QED
  BY <1>1, <1>3, <1>4, <1>5 DEF IInv

(* covered() fills one slot and claims nothing.                            *)
LEMMA MarkerStep ==
  ASSUME IInv, Marker
  PROVE  IInv'
<1>1. Row \in Nat \ {0} /\ Cursor \in Nat \ {0} /\ expansion \in Nat
  BY DEF IInv, TypeOK, Row, Cursor
<1>2. /\ Filler \in Slots /\ Filler.kind = "origin" /\ Filler.rows = 0 /\ Filler.cols = 0
  BY DEF Filler, Cell, Slots
<1>3. Area(Row, Filler.rows, Cursor, Filler.cols) \ {<<Row, Cursor>>} = {}
  BY <1>1, <1>2 DEF Area
<1>4. {<<Row, Cursor>>} = {Row} \X (Cursor..Cursor)
  BY <1>1
<1>5. pending' = [p \in (DOMAIN pending \ ({Row} \X (Cursor..Cursor))) \cup {} |->
                    IF p \in {} THEN <<Row, Cursor>> ELSE pending[p]]
  <2>1. pending' = [p \in DOMAIN pending \ ({Row} \X (Cursor..Cursor)) |-> pending[p]]
    BY <1>4 DEF Marker
  <2>2. (DOMAIN pending \ ({Row} \X (Cursor..Cursor))) \cup {}
          = DOMAIN pending \ ({Row} \X (Cursor..Cursor))
    OBVIOUS
  <2> QED
    BY <2>1, <2>2
<1>6. \A c \in Cursor..Cursor : c # Cursor => IsPending(Row, c)
  BY <1>1
<1>7. /\ ~finished /\ Fill(Cursor, Filler) /\ finished' = finished
      /\ expansion' = expansion /\ Cursor \in Nat /\ Cursor >= Cursor
  BY <1>1 DEF Marker
<1> QED
  BY <1>1, <1>2, <1>3, <1>5, <1>6, <1>7, FillStep

(* place() fills the row up to the cell and claims what the clamps leave.  *)
LEMMA PlaceStep ==
  ASSUME IInv, NEW rowSpan \in Spans, NEW colSpan \in Spans, NEW empty \in BOOLEAN,
         Place(rowSpan, colSpan, empty)
  PROVE  IInv'
<1> DEFINE wantedRows == AtLeastOne(rowSpan)
           wantedCols == AtLeastOne(colSpan)
<1>1. wantedRows \in Nat \ {0} /\ wantedCols \in Nat \ {0}
  BY DEF AtLeastOne
<1>2. Row \in Nat \ {0} /\ Cursor \in Nat \ {0} /\ expansion \in Nat
  BY DEF IInv, TypeOK, Row, Cursor
<1>3. expansion' \in Nat
  <2>1. wantedRows * wantedCols \in Nat \ {0}
    BY <1>1
  <2> QED
    BY <2>1, <1>2 DEF Place, Charge
<1>4. PICK col \in Cursor..(Cursor + Cardinality(DOMAIN pending)),
           cols \in 1..wantedCols, rows \in 1..wantedRows :
        /\ FirstFree(col) /\ ColumnsClamp(col, wantedCols, cols)
        /\ RowsClamp(col, cols, wantedRows, rows)
        /\ Fill(col, Cell(rows, cols, empty))
        /\ pending' = [p \in (DOMAIN pending \ ({Row} \X (Cursor..col)))
                               \cup (Area(Row, rows, col, cols) \ {<<Row, col>>}) |->
                         IF p \in Area(Row, rows, col, cols) \ {<<Row, col>>}
                         THEN <<Row, col>> ELSE pending[p]]
  BY DEF Place
<1>5. col \in Nat /\ col >= Cursor /\ rows \in Nat \ {0} /\ cols \in Nat \ {0}
  BY <1>1, <1>2
<1> DEFINE slot == Cell(rows, cols, empty)
           claimed == Area(Row, rows, col, cols) \ {<<Row, col>>}
<1>6. slot \in Slots /\ slot.kind = "origin" /\ slot.rows = rows /\ slot.cols = cols
  BY <1>5, SlotKinds
<1>7. \A p \in claimed :
        /\ p \in Positions /\ p \notin DOMAIN pending /\ p \notin DOMAIN grid
        /\ p[1] >= Row /\ (p[1] = Row => p[2] > col)
  BY <1>1, <1>4, <1>5, ClaimIsFree DEF Claim, IInv
<1>8. /\ \A c \in Cursor..col : c # col => IsPending(Row, c)
      /\ ~IsPending(Row, col)
  BY <1>2, <1>4, <1>5 DEF FirstFree
<1>9. claimed = Area(Row, slot.rows, col, slot.cols) \ {<<Row, col>>}
  BY <1>6
<1>10. ~finished /\ finished' = finished
  BY DEF Place
<1> HIDE DEF slot, claimed
<1> QED
  BY <1>3, <1>4, <1>5, <1>6, <1>7, <1>8, <1>9, <1>10, FillStep DEF claimed, slot

-----------------------------------------------------------------------------
(* What finish() finds or puts at a position.                              *)
LEMMA SlotTypes ==
  ASSUME TypeOK
  PROVE  \A p \in Positions : Slot(p) \in Slots
BY SlotKinds DEF Slot, Filler, TypeOK, Cell, Slots

(* finish() keeps every slot of the rows that survive, puts what is pending *)
(* in them where it belongs, and cuts each cell to the grid that is left.  *)
LEMMA FinishStep ==
  ASSUME IInv, NEW keep \in BOOLEAN, Finish(keep)
  PROVE  IInv'
<1>1. /\ ~finished /\ finished' = TRUE /\ expansion' = expansion
      /\ pending' = [p \in {} |-> p]
      /\ height \in Nat /\ width \in [1..height -> Nat]
      /\ DOMAIN grid = RowsOf(height, width) /\ expansion \in Nat
  BY DEF Finish, IInv, TypeOK
<1>2. PICK ends \in [1..height -> {0} \cup {width[r] : r \in 1..height} \cup {p[2] : p \in DOMAIN pending}],
           n \in 0..height :
        /\ \A r \in 1..height : Reach(r, ends[r])
        /\ height' = n
        /\ width' = [r \in 1..n |-> ends[r]]
        /\ grid' = [p \in RowsOf(n, ends) |->
                      Clamped(Slot(p), n - p[1] + 1, ends[p[1]] - p[2] + 1)]
  BY DEF Finish
<1>3. \A r \in 1..height : ends[r] \in Nat /\ ends[r] >= width[r]
  <2>1. \A p \in DOMAIN pending : p[2] \in Nat
    BY DEF IInv, TypeOK, Positions
  <2>2. \A r \in 1..height : width[r] \in Nat
    BY <1>1
  <2>3. \A r \in 1..height :
          ends[r] \in {0} \cup {width[i] : i \in 1..height} \cup {p[2] : p \in DOMAIN pending}
    BY <1>2
  <2>4. \A r \in 1..height : ends[r] \in Nat
    BY <2>1, <2>2, <2>3
  <2> QED
    BY <1>2, <2>4 DEF Reach
<1>4. n \in Nat /\ n <= height /\ width' \in [1..n -> Nat]
  BY <1>1, <1>2, <1>3
<1>5. \A p : p \in DOMAIN grid <=> p \in Positions /\ p[1] \in 1..height /\ p[2] \in 1..width[p[1]]
  BY <1>1, InRows
<1>6. RowsOf(n, ends) = RowsOf(n, width')
  BY <1>2, <1>4 DEF RowsOf
<1>7. \A p : p \in DOMAIN grid' <=> p \in Positions /\ p[1] \in 1..n /\ p[2] \in 1..ends[p[1]]
  <2>1. \A p : p \in RowsOf(n, width') <=>
          p \in Positions /\ p[1] \in 1..n /\ p[2] \in 1..width'[p[1]]
    BY <1>4, InRows
  <2>2. DOMAIN grid' = RowsOf(n, ends)
    BY <1>2
  <2> QED
    BY <1>2, <1>6, <2>1, <2>2
<1>8. \A p \in DOMAIN grid' : grid'[p] = Clamped(Slot(p), n - p[1] + 1, ends[p[1]] - p[2] + 1)
  BY <1>2
<1>9. \A p \in Positions : p = <<p[1], p[2]>> /\ p[1] \in Nat \ {0} /\ p[2] \in Nat \ {0}
  BY DEF Positions
<1>10. \A p \in DOMAIN pending : p \in Positions /\ (p[1] \in 1..height => p[2] \in 1..ends[p[1]])
                                /\ p \notin DOMAIN grid
  <2> SUFFICES ASSUME NEW p \in DOMAIN pending
               PROVE  /\ p \in Positions /\ (p[1] \in 1..height => p[2] \in 1..ends[p[1]])
                      /\ p \notin DOMAIN grid
    OBVIOUS
  <2>1. p \in Positions
    BY DEF IInv, TypeOK
  <2>2. p[1] \in 1..height => p[2] \in 1..ends[p[1]]
    BY <2>1, <1>2, <1>3, <1>9 DEF Reach
  <2>3. p[1] \in 1..height => p[2] > width[p[1]]
    BY <2>1, <1>1, <1>9 DEF IInv, PendingIsAhead
  <2>4. p \notin DOMAIN grid
    BY <2>1, <2>3, <1>1, <1>5, <1>9
  <2> QED
    BY <2>1, <2>2, <2>4
<1>11. \A p \in Positions : Slot(p) \in Slots
  BY SlotTypes DEF IInv
<1>12. \A slot \in Slots, i, j \in Nat \ {0} :
         /\ Clamped(slot, i, j) \in Slots /\ Clamped(slot, i, j).kind = slot.kind
         /\ slot.kind = "covered" => Clamped(slot, i, j) = slot
         /\ slot.kind = "origin" =>
              /\ Clamped(slot, i, j).rows = AtMost(slot.rows, i)
              /\ Clamped(slot, i, j).cols = AtMost(slot.cols, j)
  <2> SUFFICES ASSUME NEW slot \in Slots, NEW i \in Nat \ {0}, NEW j \in Nat \ {0}
               PROVE  /\ Clamped(slot, i, j) \in Slots /\ Clamped(slot, i, j).kind = slot.kind
                      /\ slot.kind = "covered" => Clamped(slot, i, j) = slot
                      /\ slot.kind = "origin" =>
                           /\ Clamped(slot, i, j).rows = AtMost(slot.rows, i)
                           /\ Clamped(slot, i, j).cols = AtMost(slot.cols, j)
    OBVIOUS
  <2>1. CASE slot \in [kind : {"covered"}, by : Positions]
    BY <2>1 DEF Clamped, Slots
  <2>2. CASE slot \in [kind : {"origin"}, rows : Nat, cols : Nat, empty : BOOLEAN]
    <3>1. AtMost(slot.rows, i) \in Nat /\ AtMost(slot.cols, j) \in Nat
      BY <2>2 DEF AtMost
    <3> QED
      BY <2>2, <3>1 DEF Clamped, Slots
  <2> QED
    BY <2>1, <2>2 DEF Slots
<1>13. \A p \in DOMAIN grid' :
         /\ p \in Positions /\ Slot(p) \in Slots /\ p[1] \in 1..height /\ p[1] \in 1..n
         /\ p[1] \in Nat \ {0} /\ p[2] \in Nat \ {0} /\ ends[p[1]] \in Nat /\ p[2] <= ends[p[1]]
         /\ grid'[p] \in Slots /\ grid'[p].kind = Slot(p).kind
         /\ Slot(p).kind = "covered" => grid'[p] = Slot(p)
         /\ Slot(p).kind = "origin" =>
              /\ grid'[p].rows = AtMost(Slot(p).rows, n - p[1] + 1)
              /\ grid'[p].cols = AtMost(Slot(p).cols, ends[p[1]] - p[2] + 1)
  <2> SUFFICES ASSUME NEW p \in DOMAIN grid'
               PROVE  /\ p \in Positions /\ Slot(p) \in Slots /\ p[1] \in 1..height /\ p[1] \in 1..n
                      /\ p[1] \in Nat \ {0} /\ p[2] \in Nat \ {0} /\ ends[p[1]] \in Nat
                      /\ p[2] <= ends[p[1]]
                      /\ grid'[p] \in Slots /\ grid'[p].kind = Slot(p).kind
                      /\ Slot(p).kind = "covered" => grid'[p] = Slot(p)
                      /\ Slot(p).kind = "origin" =>
                           /\ grid'[p].rows = AtMost(Slot(p).rows, n - p[1] + 1)
                           /\ grid'[p].cols = AtMost(Slot(p).cols, ends[p[1]] - p[2] + 1)
    OBVIOUS
  <2> DEFINE i == n - p[1] + 1
             j == ends[p[1]] - p[2] + 1
  <2>1. /\ p \in Positions /\ p[1] \in 1..n /\ p[2] \in 1..ends[p[1]]
        /\ p[1] \in Nat \ {0} /\ p[2] \in Nat \ {0} /\ Slot(p) \in Slots
    BY <1>7, <1>9, <1>11
  <2>2. p[1] \in 1..height /\ ends[p[1]] \in Nat
    BY <2>1, <1>1, <1>3, <1>4
  <2>3. i \in Nat \ {0} /\ j \in Nat \ {0}
    <3>1. n \in Nat /\ p[1] <= n /\ p[2] <= ends[p[1]]
      BY <2>1, <2>2, <1>4
    <3> QED
      BY <2>1, <2>2, <3>1, Cut
  <2>4. grid'[p] = Clamped(Slot(p), i, j)
    BY <1>8
  <2> HIDE DEF i, j
  <2>5. /\ grid'[p] \in Slots /\ grid'[p].kind = Slot(p).kind
        /\ Slot(p).kind = "covered" => grid'[p] = Slot(p)
        /\ Slot(p).kind = "origin" =>
             grid'[p].rows = AtMost(Slot(p).rows, i) /\ grid'[p].cols = AtMost(Slot(p).cols, j)
    <3>1. PICK slot \in Slots : slot = Slot(p)
      BY <2>1
    <3>2. grid'[p] = Clamped(slot, i, j)
      BY <2>4, <3>1
    <3>3. /\ Clamped(slot, i, j) \in Slots /\ Clamped(slot, i, j).kind = slot.kind
          /\ slot.kind = "covered" => Clamped(slot, i, j) = slot
          /\ slot.kind = "origin" =>
               /\ Clamped(slot, i, j).rows = AtMost(slot.rows, i)
               /\ Clamped(slot, i, j).cols = AtMost(slot.cols, j)
      BY <2>3, <3>1, <1>12
    <3> QED
      BY <3>1, <3>2, <3>3
  <2> QED
    BY <2>1, <2>2, <2>5 DEF i, j
<1>14. TypeOK'
  <2>1. \A p \in DOMAIN grid' : grid'[p] \in Slots
    BY <1>13
  <2>2. DOMAIN grid' = RowsOf(height', width') /\ height' = n
    BY <1>2, <1>6
  <2> QED
    BY <2>1, <2>2, <1>1, <1>4 DEF TypeOK, Positions, Slots, RowsOf
<1>15. \A o \in DOMAIN grid :
         /\ Slot(o) = grid[o] /\ o \in Positions /\ o[1] \in 1..height
         /\ o[2] \in 1..ends[o[1]]
         /\ o[1] <= n <=> o \in DOMAIN grid'
  BY <1>1, <1>3, <1>4, <1>5, <1>7, <1>9 DEF Slot
<1>16. \A p \in Positions : \A o : HeldFor(p, o) /\ p[1] <= n =>
         p \in DOMAIN grid' /\ Slot(p) = Covered(o)
  <2> SUFFICES ASSUME NEW p \in Positions, NEW o, HeldFor(p, o), p[1] <= n
               PROVE  p \in DOMAIN grid' /\ Slot(p) = Covered(o)
    OBVIOUS
  <2>1. CASE p \in DOMAIN grid
    BY <2>1, <1>10, <1>15 DEF HeldFor
  <2>2. CASE p \in DOMAIN pending /\ p \notin DOMAIN grid
    <3>1. p[1] \in 1..n /\ p[1] \in 1..height
      BY <1>1, <1>4, <1>9
    <3>2. p[2] \in 1..ends[p[1]]
      BY <2>2, <3>1, <1>10
    <3>3. Slot(p) = Covered(pending[p]) /\ pending[p] = o
      BY <2>2 DEF HeldFor, Slot
    <3> QED
      BY <3>1, <3>2, <3>3, <1>7
  <2> QED
    BY <2>1, <2>2 DEF HeldFor
<1>17. ClaimsAreHeld'
  <2> SUFFICES ASSUME NEW o \in DOMAIN grid', IsOrigin(o)', NEW p \in Claims(o)'
               PROVE  p \in DOMAIN grid' /\ grid'[p] = Covered(o)
    BY DEF ClaimsAreHeld, HeldFor
  <2>1. /\ o \in Positions /\ o[1] \in Nat \ {0} /\ o[2] \in Nat \ {0} /\ o[1] \in 1..n
        /\ Slot(o) \in Slots /\ Slot(o).kind = "origin"
        /\ grid'[o].rows = AtMost(Slot(o).rows, n - o[1] + 1)
        /\ grid'[o].cols = AtMost(Slot(o).cols, ends[o[1]] - o[2] + 1)
    BY <1>13 DEF IsOrigin
  <2>2. Slot(o).rows \in Nat /\ Slot(o).cols \in Nat
    BY <2>1, SlotCases
  <2>3. grid'[o].rows \in Nat /\ grid'[o].cols \in Nat
    BY <2>1, <1>14, SlotCases DEF IsOrigin, TypeOK
  <2>4. /\ p \in Positions /\ p # o /\ p[1] >= o[1] /\ p[1] <= o[1] + grid'[o].rows - 1
        /\ p[2] >= o[2] /\ p[2] <= o[2] + grid'[o].cols - 1
    BY <2>1, <2>3, ClaimShape DEF Claims
  <2>5. /\ p[1] <= n /\ p[1] <= o[1] + Slot(o).rows - 1 /\ p[2] <= o[2] + Slot(o).cols - 1
    <3>1. /\ n \in Nat /\ o[1] <= n /\ ends[o[1]] \in Nat /\ o[2] <= ends[o[1]]
          /\ p[1] \in Nat /\ p[2] \in Nat
      BY <2>1, <2>4, <1>4, <1>9, <1>13
    <3>2. p[1] <= o[1] + AtMost(Slot(o).rows, n - o[1] + 1) - 1
      BY <2>1, <2>4
    <3>3. p[2] <= o[2] + AtMost(Slot(o).cols, ends[o[1]] - o[2] + 1) - 1
      BY <2>1, <2>4
    <3>4. p[1] <= n /\ p[1] <= o[1] + Slot(o).rows - 1
      BY <2>1, <2>2, <3>1, <3>2, Cut
    <3>5. p[2] <= o[2] + Slot(o).cols - 1
      BY <2>1, <2>2, <3>1, <3>3, Cut
    <3> QED
      BY <3>4, <3>5
  <2>6. p \in Area(o[1], Slot(o).rows, o[2], Slot(o).cols) \ {o}
    BY <2>1, <2>2, <2>4, <2>5, ClaimShape
  <2>7. o \in DOMAIN grid
    <3>1. CASE o \in DOMAIN pending /\ o \notin DOMAIN grid
      BY <3>1, <2>1 DEF Slot, Covered
    <3>2. CASE o \notin DOMAIN pending /\ o \notin DOMAIN grid
      <4>1. Slot(o).rows = 0
        BY <3>2 DEF Slot, Filler, Cell
      <4> QED
        BY <4>1, <2>1, <2>4, <2>5, <1>9
    <3> QED
      BY <3>1, <3>2
  <2>8. HeldFor(p, o)
    BY <2>1, <2>6, <2>7, <1>15 DEF IInv, ClaimsAreHeld, IsOrigin, Claims
  <2>9. p \in DOMAIN grid' /\ Slot(p) = Covered(o)
    BY <2>4, <2>5, <2>8, <1>16
  <2> QED
    BY <2>1, <2>9, <1>13 DEF Covered
<1>18. HoldsAreClaimed'
  <2> SUFFICES ASSUME NEW p \in DOMAIN grid', grid'[p].kind = "covered"
               PROVE  ClaimedBy(p, grid[p].by)'
    BY <1>1 DEF HoldsAreClaimed
  <2>1. /\ p \in Positions /\ p[1] \in 1..n /\ p[1] \in Nat \ {0} /\ p[2] \in Nat \ {0}
        /\ Slot(p).kind = "covered" /\ grid'[p] = Slot(p)
    BY <1>13, SlotCases
  <2>2. PICK o : o = Slot(p).by
    OBVIOUS
  <2>3. ClaimedBy(p, o)
    <3>1. CASE p \in DOMAIN grid
      BY <3>1, <2>1, <2>2, <1>15 DEF IInv, HoldsAreClaimed
    <3>2. CASE p \in DOMAIN pending /\ p \notin DOMAIN grid
      BY <3>2, <2>1, <2>2 DEF IInv, HoldsAreClaimed, Slot, Covered
    <3>3. CASE p \notin DOMAIN pending /\ p \notin DOMAIN grid
      BY <3>3, <2>1 DEF Slot, Filler, Cell
    <3> QED
      BY <3>1, <3>2, <3>3
  <2>4. /\ o \in DOMAIN grid /\ o \in Positions /\ Slot(o) = grid[o] /\ grid[o].kind = "origin"
        /\ grid[o].rows \in Nat /\ grid[o].cols \in Nat
        /\ o[1] \in Nat \ {0} /\ o[2] \in Nat \ {0}
    <3>1. o \in DOMAIN grid /\ grid[o].kind = "origin" /\ grid[o] \in Slots
      BY <2>3 DEF ClaimedBy, IsOrigin, IInv, TypeOK
    <3>2. o \in Positions /\ Slot(o) = grid[o]
      BY <3>1, <1>15
    <3> QED
      BY <3>1, <3>2, <1>9, SlotCases
  <2>5. /\ p # o /\ p[1] >= o[1] /\ p[1] <= o[1] + grid[o].rows - 1
        /\ p[2] >= o[2] /\ p[2] <= o[2] + grid[o].cols - 1
    BY <2>3, <2>4, ClaimShape DEF ClaimedBy, Claims
  <2>6. o[1] \in 1..n /\ o \in DOMAIN grid'
    <3>1. o[1] <= n /\ o[1] \in 1..n
      <4>1. p[1] \in Nat /\ n \in Nat /\ p[1] <= n
        BY <2>1, <1>4
      <4>2. o[1] \in Nat \ {0} /\ o[1] <= p[1]
        BY <2>4, <2>5
      <4> HIDE DEF Positions
      <4> QED
        BY <4>1, <4>2
    <3> QED
      BY <3>1, <2>4, <1>15
  <2>7. p[2] <= ends[o[1]]
    <3> DEFINE q == <<o[1], p[2]>>
    <3>1. q \in Positions /\ q[1] = o[1] /\ q[2] = p[2]
      BY <2>1, <2>4 DEF Positions
    <3>2. CASE q = o
      <4>1. p[2] = o[2]
        BY <3>1, <3>2
      <4>2. o[2] <= ends[o[1]]
        BY <2>6, <1>13
      <4> QED
        BY <4>1, <4>2
    <3>3. CASE q # o
      <4>1. q \in Area(o[1], grid[o].rows, o[2], grid[o].cols) \ {o}
        <5>1. q[1] >= o[1] /\ q[1] <= o[1] + grid[o].rows - 1
          <6>1. /\ o[1] \in Nat /\ p[1] \in Nat /\ grid[o].rows \in Nat
                /\ p[1] >= o[1] /\ p[1] <= o[1] + grid[o].rows - 1
            BY <2>1, <2>4, <2>5
          <6>2. o[1] >= o[1] /\ o[1] <= o[1] + grid[o].rows - 1
            BY ONLY <6>1
          <6> QED
            BY ONLY <3>1, <6>2
        <5>2. q[2] >= o[2] /\ q[2] <= o[2] + grid[o].cols - 1
          BY <3>1, <2>5
        <5> HIDE DEF q
        <5> QED
          BY <3>1, <3>3, <5>1, <5>2, <2>4, ClaimShape
      <4>2. HeldFor(q, o)
        BY <4>1, <2>4 DEF IInv, ClaimsAreHeld, IsOrigin, Claims
      <4> QED
        BY <4>2, <3>1, <2>6, <1>7, <1>16
    <3> QED
      BY <3>2, <3>3
  <2>8. /\ grid'[o].kind = "origin"
        /\ grid'[o].rows = AtMost(grid[o].rows, n - o[1] + 1)
        /\ grid'[o].cols = AtMost(grid[o].cols, ends[o[1]] - o[2] + 1)
    BY <2>4, <2>6, <1>13
  <2>9. grid'[o].rows \in Nat /\ grid'[o].cols \in Nat /\ ends[o[1]] \in Nat
    BY <2>6, <2>8, <1>3, <1>13, <1>14, SlotCases DEF TypeOK
  <2>10. p[1] <= o[1] + grid'[o].rows - 1 /\ p[2] <= o[2] + grid'[o].cols - 1
    <3>1. n \in Nat /\ p[1] <= n /\ o[1] <= n /\ o[2] <= ends[o[1]]
      BY <2>1, <2>6, <1>4, <1>13
    <3>2. p[1] <= o[1] + AtMost(grid[o].rows, n - o[1] + 1) - 1
      BY <2>1, <2>4, <2>5, <3>1, Cut
    <3>3. p[2] <= o[2] + AtMost(grid[o].cols, ends[o[1]] - o[2] + 1) - 1
      BY <2>1, <2>4, <2>5, <2>7, <2>9, <3>1, Cut
    <3> QED
      BY <2>8, <3>2, <3>3
  <2>11. p \in Area(o[1], grid'[o].rows, o[2], grid'[o].cols) \ {o}
    BY <2>1, <2>4, <2>5, <2>9, <2>10, ClaimShape
  <2> QED
    BY <2>1, <2>2, <2>6, <2>8, <2>11 DEF ClaimedBy, IsOrigin, Claims, Area
<1> QED
  BY <1>1, <1>14, <1>17, <1>18 DEF IInv, PendingIsAhead

-----------------------------------------------------------------------------
(* Nothing but the budget moves.                                           *)
LEMMA Frame ==
  ASSUME IInv, UNCHANGED <<height, width, grid, pending, finished>>, expansion' \in Nat
  PROVE  IInv'
<1>1. /\ height' = height /\ width' = width /\ grid' = grid /\ pending' = pending
      /\ finished' = finished
  OBVIOUS
<1>2. TypeOK'
  BY <1>1 DEF IInv, TypeOK, RowsOf, Positions, Slots
<1>3. PendingIsAhead'
  BY <1>1 DEF IInv, PendingIsAhead
<1>4. ClaimsAreHeld'
  BY <1>1 DEF IInv, ClaimsAreHeld, HeldFor, IsOrigin, Claims, Area
<1>5. HoldsAreClaimed'
  BY <1>1 DEF IInv, HoldsAreClaimed, ClaimedBy, IsOrigin, Claims, Area
<1> QED
  BY <1>1, <1>2, <1>3, <1>4, <1>5 DEF IInv

(* The invariant holds in every state.                                     *)
LEMMA Invariance == Spec => []IInv
<1>1. Init => IInv
  <2> SUFFICES ASSUME Init PROVE IInv
    OBVIOUS
  <2>1. DOMAIN grid = {} /\ DOMAIN pending = {} /\ RowsOf(height, width) = {}
    BY DEF Init, RowsOf
  <2>2. height = 0 /\ width = [r \in {} |-> 0] /\ 1..height = {}
    BY DEF Init
  <2>3. height \in Nat /\ width \in [1..height -> Nat] /\ expansion \in Nat /\ finished \in BOOLEAN
    <3>1. width \in [{} -> Nat]
      BY <2>2
    <3>2. width \in [1..height -> Nat]
      BY <2>2, <3>1
    <3>3. expansion \in Nat /\ finished \in BOOLEAN
      BY DEF Init
    <3> QED
      BY <2>2, <3>2, <3>3
  <2> QED
    BY <2>1, <2>3 DEF IInv, TypeOK, PendingIsAhead, ClaimsAreHeld, HoldsAreClaimed
<1>2. IInv /\ [Next]_vars => IInv'
  <2> SUFFICES ASSUME IInv, [Next]_vars PROVE IInv'
    OBVIOUS
  <2>1. CASE NextRow
    BY <2>1, NextRowStep
  <2>2. CASE Marker
    BY <2>2, MarkerStep
  <2>3. ASSUME NEW keep \in BOOLEAN, Finish(keep) PROVE IInv'
    BY <2>3, FinishStep
  <2>4. ASSUME NEW rowSpan \in Spans, NEW colSpan \in Spans, Refuse(rowSpan, colSpan) PROVE IInv'
    <3>1. AtLeastOne(rowSpan) * AtLeastOne(colSpan) \in Nat \ {0}
      <4>1. AtLeastOne(rowSpan) \in Nat \ {0} /\ AtLeastOne(colSpan) \in Nat \ {0}
        BY DEF AtLeastOne
      <4> QED
        BY <4>1
    <3>2. expansion' \in Nat
      BY <2>4, <3>1 DEF Refuse, Charge, IInv, TypeOK
    <3> QED
      BY <2>4, <3>2, Frame DEF Refuse
  <2>5. ASSUME NEW rowSpan \in Spans, NEW colSpan \in Spans, NEW empty \in BOOLEAN,
               Place(rowSpan, colSpan, empty)
        PROVE  IInv'
    BY <2>5, PlaceStep
  <2>6. CASE UNCHANGED vars
    <3>1. UNCHANGED <<height, width, grid, pending, finished>> /\ expansion' \in Nat
      BY <2>6 DEF vars, IInv, TypeOK
    <3> QED
      BY <3>1, Frame
  <2> QED
    BY <2>1, <2>2, <2>3, <2>4, <2>5, <2>6 DEF Next
<1> QED
  BY <1>1, <1>2, PTL DEF Spec

(* Every finished grid holds every position exactly once: what a cell      *)
(* claims is covered by it, and what is covered is claimed by a cell.      *)
THEOREM GridsAreExact == Spec => []ExactlyOnce
<1>1. IInv => ExactlyOnce
  <2> SUFFICES ASSUME IInv, finished PROVE ExactlyOnce
    BY DEF ExactlyOnce
  <2> QED
    BY DEF IInv, ExactlyOnce, ClaimsAreHeld, HoldsAreClaimed, HeldFor, ClaimedBy
<1> QED
  BY <1>1, Invariance, PTL

(* The debug_assert of finish() never fires.                               *)
THEOREM PendingStaysAhead == Spec => []PendingIsAhead
<1>1. IInv => PendingIsAhead
  BY DEF IInv
<1> QED
  BY <1>1, Invariance, PTL

(* Type correctness.                                                       *)
THEOREM TypeCorrect == Spec => []TypeOK
<1>1. IInv => TypeOK
  BY DEF IInv
<1> QED
  BY <1>1, Invariance, PTL

-----------------------------------------------------------------------------
(* What is pending or covered is charged for.                              *)
Covering == DOMAIN pending \cup {p \in DOMAIN grid : grid[p].kind = "covered"}
Budget ==
  /\ IsFiniteSet(Covering)
  /\ Cardinality(Covering) <= expansion /\ Cardinality(Covering) <= MaxExpansion

(* A step that covers nothing new stays in the budget.                     *)
LEMMA NothingNew ==
  ASSUME Budget, expansion \in Nat, expansion' \in Nat, expansion' >= expansion,
         Covering' \subseteq Covering
  PROVE  Budget'
<1>1. /\ IsFiniteSet(Covering') /\ Cardinality(Covering') <= Cardinality(Covering)
  BY FS_Subset DEF Budget
<1>2. Cardinality(Covering) \in Nat /\ Cardinality(Covering') \in Nat
  BY <1>1, FS_CardinalityType DEF Budget
<1>3. Cardinality(Covering') <= expansion' /\ Cardinality(Covering') <= MaxExpansion
  BY <1>1, <1>2 DEF Budget
<1> QED
  BY <1>1, <1>3 DEF Budget, Covering

(* A smaller area has fewer positions.                                     *)
LEMMA Areas ==
  ASSUME NEW a \in Nat, NEW b \in Nat, NEW c \in Nat, NEW d \in Nat, a <= b, c <= d
  PROVE  a * c <= b * d /\ a * c \in Nat /\ b * d \in Nat
<1>1. a * c <= b * c
  OBVIOUS
<1>2. b * c <= b * d
  OBVIOUS
<1> QED
  BY <1>1, <1>2

(* What a placed cell claims is charged for in advance.                    *)
LEMMA ClaimIsCharged ==
  ASSUME NEW r \in Nat \ {0}, NEW c \in Nat \ {0}, NEW rows \in Nat \ {0},
         NEW cols \in Nat \ {0}
  PROVE  /\ IsFiniteSet(Area(r, rows, c, cols) \ {<<r, c>>})
         /\ Cardinality(Area(r, rows, c, cols) \ {<<r, c>>}) = rows * cols - 1
<1>1. /\ IsFiniteSet(r..(r + rows - 1)) /\ Cardinality(r..(r + rows - 1)) = rows
      /\ IsFiniteSet(c..(c + cols - 1)) /\ Cardinality(c..(c + cols - 1)) = cols
  <2>1. /\ r \in Int /\ r + rows - 1 \in Int /\ r <= r + rows - 1 /\ (r + rows - 1) - r + 1 = rows
        /\ c \in Int /\ c + cols - 1 \in Int /\ c <= c + cols - 1 /\ (c + cols - 1) - c + 1 = cols
    OBVIOUS
  <2>2. \A i, j \in Int : i <= j => IsFiniteSet(i..j) /\ Cardinality(i..j) = j - i + 1
    <3> SUFFICES ASSUME NEW i \in Int, NEW j \in Int, i <= j
                 PROVE  IsFiniteSet(i..j) /\ Cardinality(i..j) = j - i + 1
      OBVIOUS
    <3>1. /\ IsFiniteSet(i..j)
          /\ Cardinality(i..j) = IF i > j THEN 0 ELSE j - i + 1
      BY FS_Interval
    <3> QED
      BY <3>1
  <2> DEFINE last == r + rows - 1
             end == c + cols - 1
  <2>3. last \in Int /\ end \in Int /\ r <= last /\ c <= end
    BY <2>1
  <2> HIDE DEF last, end
  <2>4. /\ IsFiniteSet(r..last) /\ Cardinality(r..last) = last - r + 1
        /\ IsFiniteSet(c..end) /\ Cardinality(c..end) = end - c + 1
    BY <2>1, <2>2, <2>3
  <2>5. last - r + 1 = rows /\ end - c + 1 = cols
    BY <2>1 DEF last, end
  <2> QED
    BY <2>4, <2>5 DEF last, end
<1>2. /\ IsFiniteSet(Area(r, rows, c, cols))
      /\ Cardinality(Area(r, rows, c, cols)) = rows * cols
  BY <1>1, FS_Product DEF Area
<1>3. <<r, c>> \in Area(r, rows, c, cols)
  BY DEF Area
<1> QED
  BY <1>2, <1>3, FS_RemoveElement

(* Every step keeps what is covered within the budget.                     *)
LEMMA BudgetStep ==
  ASSUME IInv, IInv', Budget, [Next]_vars
  PROVE  Budget'
<1>1. TypeOK /\ expansion \in Nat /\ expansion' \in Nat
  BY DEF IInv, TypeOK
<1>2. ASSUME UNCHANGED <<grid, pending>>, expansion' >= expansion PROVE Budget'
  <2>1. Covering' = Covering
    BY <1>2 DEF Covering
  <2> QED
    BY <2>1, <1>1, <1>2, NothingNew
<1>3. CASE NextRow
  BY <1>1, <1>2, <1>3 DEF NextRow
<1>4. CASE UNCHANGED vars
  BY <1>1, <1>2, <1>4 DEF vars
<1>5. ASSUME NEW rowSpan \in Spans, NEW colSpan \in Spans, Refuse(rowSpan, colSpan) PROVE Budget'
  <2>1. AtLeastOne(rowSpan) \in Nat \ {0} /\ AtLeastOne(colSpan) \in Nat \ {0}
    BY DEF AtLeastOne
  <2>2. AtLeastOne(rowSpan) * AtLeastOne(colSpan) \in Nat \ {0}
    BY <2>1
  <2>3. expansion' >= expansion
    BY <2>2, <1>1, <1>5 DEF Refuse, Charge
  <2> QED
    BY <2>3, <1>2, <1>5 DEF Refuse
<1>6. CASE Marker
  <2>1. /\ Fill(Cursor, Filler) /\ expansion' = expansion
        /\ DOMAIN pending' \subseteq DOMAIN pending
    BY <1>6 DEF Marker
  <2>2. Filler \in Slots /\ Filler.kind = "origin"
    BY DEF Filler, Cell, Slots
  <2>3. Cursor \in Nat /\ Cursor >= Cursor
    BY <1>1 DEF TypeOK, Cursor
  <2>4. /\ \A p \in DOMAIN grid : grid'[p] = grid[p]
        /\ \A p \in DOMAIN grid' \ DOMAIN grid :
             grid'[p] = IF p \in DOMAIN pending THEN Covered(pending[p]) ELSE Filler
    BY <1>1, <2>1, <2>2, <2>3, Filling
  <2>5. Covering' \subseteq Covering
    BY <2>1, <2>2, <2>4 DEF Covering
  <2> QED
    BY <2>1, <2>5, <1>1, NothingNew
<1>7. ASSUME NEW keep \in BOOLEAN, Finish(keep) PROVE Budget'
  <2>1. DOMAIN pending' = {} /\ expansion' = expansion
    BY <1>7 DEF Finish
  <2>2. \A p \in DOMAIN grid' : grid'[p].kind = "covered" => Slot(p).kind = "covered"
    <3>1. PICK ends, n : grid' = [p \in RowsOf(n, ends) |->
                                  Clamped(Slot(p), n - p[1] + 1, ends[p[1]] - p[2] + 1)]
      BY <1>7 DEF Finish
    <3>2. \A slot \in Slots : \A i, j : Clamped(slot, i, j).kind = "covered" => slot.kind = "covered"
      BY DEF Clamped, Slots
    <3>3. \A p \in DOMAIN grid' : p \in Positions
      <4>1. height' \in Nat /\ width' \in [1..height' -> Nat] /\ DOMAIN grid' = RowsOf(height', width')
        BY DEF IInv, TypeOK, RowsOf
      <4> QED
        BY <4>1, InRows
    <3>4. \A p \in Positions : Slot(p) \in Slots
      BY SlotTypes, <1>1
    <3> QED
      BY <3>1, <3>2, <3>3, <3>4
  <2>3. \A p : Slot(p).kind = "covered" => p \in Covering
    BY DEF Slot, Filler, Cell, Covered, Covering
  <2>4. Covering' \subseteq Covering
    BY <2>1, <2>2, <2>3 DEF Covering
  <2> QED
    BY <2>1, <2>4, <1>1, NothingNew
<1>8. ASSUME NEW rowSpan \in Spans, NEW colSpan \in Spans, NEW empty \in BOOLEAN,
             Place(rowSpan, colSpan, empty)
      PROVE  Budget'
  <2> DEFINE wantedRows == AtLeastOne(rowSpan)
             wantedCols == AtLeastOne(colSpan)
  <2>1. wantedRows \in Nat \ {0} /\ wantedCols \in Nat \ {0}
    BY DEF AtLeastOne
  <2>2. Row \in Nat \ {0} /\ Cursor \in Nat \ {0}
    BY <1>1 DEF TypeOK, Row, Cursor
  <2>3. PICK col \in Cursor..(Cursor + Cardinality(DOMAIN pending)),
             cols \in 1..wantedCols, rows \in 1..wantedRows :
          /\ Fill(col, Cell(rows, cols, empty))
          /\ pending' = [p \in (DOMAIN pending \ ({Row} \X (Cursor..col)))
                                 \cup (Area(Row, rows, col, cols) \ {<<Row, col>>}) |->
                           IF p \in Area(Row, rows, col, cols) \ {<<Row, col>>}
                           THEN <<Row, col>> ELSE pending[p]]
    BY <1>8 DEF Place
  <2>4. /\ col \in Nat \ {0} /\ col >= Cursor /\ rows \in Nat \ {0} /\ cols \in Nat \ {0}
        /\ rows <= wantedRows /\ cols <= wantedCols
    BY <2>1, <2>2
  <2> DEFINE slot == Cell(rows, cols, empty)
             claimed == Area(Row, rows, col, cols) \ {<<Row, col>>}
  <2>5. IsFiniteSet(claimed) /\ Cardinality(claimed) = rows * cols - 1
    BY <2>2, <2>4, ClaimIsCharged
  <2>6. slot \in Slots /\ slot.kind = "origin"
    BY <2>4, SlotKinds
  <2>7. DOMAIN pending' \subseteq DOMAIN pending \cup claimed
    BY <2>3
  <2> HIDE DEF slot, claimed, wantedRows, wantedCols
  <2>8. /\ \A p \in DOMAIN grid : grid'[p] = grid[p]
        /\ \A p \in DOMAIN grid' \ DOMAIN grid :
             grid'[p] = IF p \in DOMAIN pending THEN Covered(pending[p]) ELSE slot
    BY <1>1, <2>3, <2>4, <2>6, Filling DEF slot
  <2>9. Covering' \subseteq Covering \cup claimed
    BY <2>6, <2>7, <2>8 DEF Covering
  <2>10. expansion' = expansion + wantedRows * wantedCols - 1 /\ expansion' <= MaxExpansion
    BY <1>8 DEF Place, Charge, wantedRows, wantedCols
  <2>11. /\ rows * cols <= wantedRows * wantedCols
         /\ rows * cols \in Nat /\ wantedRows * wantedCols \in Nat
    BY <2>1, <2>4, Areas
  <2>12. /\ IsFiniteSet(Covering \cup claimed)
         /\ Cardinality(Covering \cup claimed) <= Cardinality(Covering) + Cardinality(claimed)
    <3>1. IsFiniteSet(Covering) /\ IsFiniteSet(Covering \cap claimed)
      BY FS_Subset DEF Budget
    <3>2. /\ Cardinality(Covering) \in Nat /\ Cardinality(claimed) \in Nat
          /\ Cardinality(Covering \cap claimed) \in Nat
      BY <2>5, <3>1, FS_CardinalityType
    <3>3. /\ IsFiniteSet(Covering \cup claimed)
          /\ Cardinality(Covering \cup claimed)
               = Cardinality(Covering) + Cardinality(claimed) - Cardinality(Covering \cap claimed)
      BY <2>5, <3>1, FS_Union
    <3> QED
      BY <3>2, <3>3
  <2>13. /\ IsFiniteSet(Covering') /\ Cardinality(Covering') <= Cardinality(Covering \cup claimed)
    BY <2>9, <2>12, FS_Subset
  <2>14. /\ Cardinality(Covering) \in Nat /\ Cardinality(Covering') \in Nat
         /\ Cardinality(Covering \cup claimed) \in Nat /\ Cardinality(claimed) \in Nat
    BY <2>5, <2>12, <2>13, FS_CardinalityType DEF Budget
  <2>15. Cardinality(Covering) <= expansion
    BY DEF Budget
  <2>16. Cardinality(Covering') <= expansion'
    BY <2>5, <2>10, <2>11, <2>12, <2>13, <2>14, <2>15, <1>1
  <2>17. Cardinality(Covering') <= MaxExpansion
    BY <2>10, <2>14, <2>16, <1>1
  <2> QED
    BY <2>13, <2>16, <2>17 DEF Budget, Covering
<1> QED
  BY <1>3, <1>4, <1>5, <1>6, <1>7, <1>8 DEF Next

(* No sequence of cells covers more positions than the budget, whatever    *)
(* their spans: the area is charged before anything is expanded.           *)
THEOREM ExpansionStaysBounded == Spec => []ExpansionIsBounded
<1>1. Init => Budget
  <2> SUFFICES ASSUME Init PROVE Budget
    OBVIOUS
  <2>1. Covering = {}
    BY DEF Init, Covering
  <2> QED
    BY <2>1, FS_EmptySet DEF Init, Budget
<1>2. IInv /\ IInv' /\ Budget /\ [Next]_vars => Budget'
  BY BudgetStep
<1>3. Budget => ExpansionIsBounded
  BY DEF Budget, ExpansionIsBounded, Covering
<1> QED
  BY <1>1, <1>2, <1>3, Invariance, PTL DEF Spec

(* No step loses or moves a cell that renders to something: finish() drops *)
(* only rows in which every cell is blank.                                 *)
THEOREM ContentStays == Spec => ContentIsKept
<1> DEFINE Kept == \A p \in DOMAIN grid : HasContent(p) => HasContent(p)'
<1>1. ASSUME IInv, [Next]_vars PROVE Kept
  <2>1. ASSUME grid' = grid PROVE Kept
    BY <2>1 DEF HasContent, IsOrigin
  <2>2. ASSUME \A p \in DOMAIN grid : p \in DOMAIN grid' /\ grid'[p] = grid[p] PROVE Kept
    BY <2>2 DEF HasContent, IsOrigin
  <2>3. TypeOK
    BY <1>1 DEF IInv
  <2>4. CASE Marker
    <3>1. /\ Fill(Cursor, Filler) /\ Filler \in Slots /\ Cursor \in Nat /\ Cursor >= Cursor
      BY <2>3, <2>4 DEF Marker, Filler, Cell, Slots, TypeOK, Cursor
    <3> QED
      BY <2>2, <2>3, <3>1, Filling
  <2>5. ASSUME NEW rowSpan \in Spans, NEW colSpan \in Spans, NEW empty \in BOOLEAN,
               Place(rowSpan, colSpan, empty)
        PROVE  Kept
    BY <2>2, <2>5 DEF Place, Fill
  <2>6. ASSUME NEW keep \in BOOLEAN, Finish(keep) PROVE Kept
    <3>1. /\ height \in Nat /\ width \in [1..height -> Nat]
          /\ \A p : p \in DOMAIN grid <=>
               p \in Positions /\ p[1] \in 1..height /\ p[2] \in 1..width[p[1]]
      BY <2>3, InRows DEF TypeOK
    <3>2. PICK ends \in [1..height -> {0} \cup {width[r] : r \in 1..height} \cup {p[2] : p \in DOMAIN pending}],
               n \in 0..height :
            /\ \A r \in 1..height : Reach(r, ends[r])
            /\ \A r \in (n + 1)..height : Blank(r, ends[r], keep)
            /\ grid' = [p \in RowsOf(n, ends) |->
                          Clamped(Slot(p), n - p[1] + 1, ends[p[1]] - p[2] + 1)]
      BY <2>6 DEF Finish
    <3> SUFFICES ASSUME NEW p \in DOMAIN grid, HasContent(p) PROVE HasContent(p)'
      OBVIOUS
    <3>3. /\ p \in Positions /\ p = <<p[1], p[2]>> /\ p[1] \in 1..height /\ p[2] \in 1..width[p[1]]
          /\ Slot(p) = grid[p] /\ grid[p].kind = "origin" /\ ~grid[p].empty /\ grid[p] \in Slots
      BY <3>1, <2>3 DEF HasContent, IsOrigin, Slot, TypeOK, Positions
    <3>4. ends[p[1]] \in Nat /\ p[2] \in 1..ends[p[1]]
      <4>1. \A q \in DOMAIN pending : q[2] \in Nat
        BY <2>3 DEF TypeOK, Positions
      <4>2. ends[p[1]] \in {0} \cup {width[r] : r \in 1..height} \cup {q[2] : q \in DOMAIN pending}
        BY <3>2, <3>3
      <4>3. ends[p[1]] \in Nat
        BY <3>1, <4>1, <4>2
      <4>4. ends[p[1]] >= width[p[1]]
        BY <3>2, <3>3 DEF Reach
      <4> QED
        BY <3>1, <3>3, <4>3, <4>4
    <3>5. p[1] \in 1..n
      <4>1. SUFFICES ASSUME p[1] \in (n + 1)..height PROVE FALSE
        BY <3>1, <3>3
      <4>2. Blank(p[1], ends[p[1]], keep)
        BY <3>2, <4>1
      <4> QED
        BY <3>3, <3>4, <4>2 DEF Blank
    <3>6. p \in RowsOf(n, ends)
      BY <3>3, <3>4, <3>5 DEF RowsOf
    <3> QED
      BY <3>2, <3>3, <3>6 DEF HasContent, IsOrigin, Clamped, Slots
  <2>7. CASE NextRow
    BY <2>1, <2>7 DEF NextRow
  <2>8. ASSUME NEW rowSpan \in Spans, NEW colSpan \in Spans, Refuse(rowSpan, colSpan) PROVE Kept
    BY <2>1, <2>8 DEF Refuse
  <2>9. CASE UNCHANGED vars
    BY <2>1, <2>9 DEF vars
  <2> QED
    BY <1>1, <2>4, <2>5, <2>6, <2>7, <2>8, <2>9 DEF Next
<1>2. IInv /\ [Next]_vars => [Kept]_vars
  BY <1>1
<1> QED
  BY <1>2, Invariance, PTL DEF Spec, ContentIsKept

(* The row clamp of place() never cuts: what an earlier cell claims in a   *)
(* row below it also claims in this one, where the column clamp stopped    *)
(* before it.                                                              *)
THEOREM RowClampIsIdle ==
  ASSUME IInv, NEW col \in Nat, col >= Cursor, NEW wantedRows \in Nat, NEW wantedCols \in Nat,
         NEW rows \in 1..wantedRows, NEW cols \in Nat \ {0},
         FirstFree(col), ColumnsClamp(col, wantedCols, cols),
         RowsClamp(col, cols, wantedRows, rows)
  PROVE  rows = wantedRows
<1>1. TypeOK /\ Row \in Nat \ {0} /\ Cursor \in Nat \ {0} /\ height <= Row
  BY DEF IInv, TypeOK, Row, Cursor
<1>2. \A p : p \in DOMAIN grid <=> p \in Positions /\ p[1] \in 1..height /\ p[2] \in 1..width[p[1]]
  BY <1>1, InRows DEF TypeOK
<1> SUFFICES ASSUME NEW dc \in 0..(cols - 1), IsPending(Row + rows, col + dc) PROVE FALSE
  BY DEF RowsClamp
<1> DEFINE x == col + dc
<1>3. x \in Nat \ {0} /\ x >= Cursor
  BY <1>1
<1> DEFINE below == <<Row + rows, x>>
           here == <<Row, x>>
<1>4. /\ here \in Positions /\ here[1] = Row /\ here[2] = x
      /\ below[1] = Row + rows /\ below[2] = x /\ below \in DOMAIN pending
  BY <1>1, <1>3 DEF Positions, IsPending
<1>5. here \notin DOMAIN grid
  <2>1. SUFFICES ASSUME here \in DOMAIN grid PROVE FALSE
    OBVIOUS
  <2>2. Row \in 1..height /\ x \in 1..width[Row]
    BY <2>1, <1>2, <1>4
  <2>3. Row = height /\ Cursor = width[height] + 1 /\ width[height] \in Nat
    BY <2>2, <1>1 DEF TypeOK, Row, Cursor
  <2> QED
    BY <2>2, <2>3, <1>3
<1>6. here \notin DOMAIN pending
  <2>1. CASE dc = 0
    BY <2>1 DEF FirstFree, IsPending
  <2>2. CASE dc # 0
    <3>1. dc \in 1..(cols - 1)
      BY <2>2
    <3> QED
      BY <3>1 DEF ColumnsClamp, IsPending
  <2> QED
    BY <2>1, <2>2
<1>7. PICK o \in DOMAIN grid : IsOrigin(o) /\ below \in Claims(o)
  BY <1>4 DEF IInv, HoldsAreClaimed, ClaimedBy, IsOrigin
<1> HIDE DEF x, below, here
<1>8. /\ o \in Positions /\ o[1] \in Nat \ {0} /\ o[2] \in Nat \ {0} /\ o[1] <= Row
      /\ grid[o].rows \in Nat /\ grid[o].cols \in Nat
  <2>1. o \in Positions /\ o[1] \in 1..height
    BY <1>2
  <2>2. grid[o].rows \in Nat /\ grid[o].cols \in Nat
    BY <1>1, <1>7, SlotCases DEF IsOrigin, TypeOK
  <2> QED
    BY <2>1, <2>2, <1>1 DEF Positions, TypeOK
<1>9. /\ below[1] <= o[1] + grid[o].rows - 1 /\ below[2] >= o[2]
      /\ below[2] <= o[2] + grid[o].cols - 1
  BY <1>7, <1>8, ClaimShape DEF Claims
<1>10. Row <= o[1] + grid[o].rows - 1 /\ x >= o[2] /\ x <= o[2] + grid[o].cols - 1
  BY <1>1, <1>4, <1>8, <1>9
<1>11. here \in Area(o[1], grid[o].rows, o[2], grid[o].cols) /\ here # o
  <2>1. here # o
    BY <1>5
  <2>2. /\ here \in Positions /\ here[1] >= o[1] /\ here[1] <= o[1] + grid[o].rows - 1
        /\ here[2] >= o[2] /\ here[2] <= o[2] + grid[o].cols - 1
    BY <1>4, <1>8, <1>10
  <2>3. here \in Area(o[1], grid[o].rows, o[2], grid[o].cols)
    BY <2>2, <1>8, ClaimShape
  <2> QED
    BY <2>1, <2>3
<1>12. HeldFor(here, o)
  BY <1>7, <1>11 DEF Claims, IInv, ClaimsAreHeld
<1> QED
  BY <1>5, <1>6, <1>12 DEF HeldFor
=============================================================================
