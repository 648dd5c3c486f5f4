------------------------------ MODULE DocTables ------------------------------
(***************************************************************************)
(* internal/docpipe: the text of a PDF comes from pdftotext, or, when that *)
(* gives none, from the liteparse service, whose positioned fragments are  *)
(* put together to tables: fragments to lines, lines to runs of rows.  The *)
(* loops over lines and rows are steps, a line or a row each.              *)
(*                                                                         *)
(* A fragment is its number, place and size; the text of a cell is the set *)
(* of the fragments in it, a row the sequence of its cells.                *)
(***************************************************************************)
EXTENDS Integers, FiniteSets, Sequences, SequencesExt, Ranking

CONSTANT Documents   \* [fast, lit, pages], a page being [items, boxes]:
                     \* a set of fragments and the boxes liteparse found on it

Fragment == [no : Nat, x : Int, y : Int, w : Nat, font : Int]
BBox == [x : Int, y : Int, w : Nat, h : Nat]
ASSUME DocAssumption ==
    \A d \in Documents :
        /\ d.fast \in {"text", "blank", "error"} /\ d.lit \in {"ok", "error"}
        /\ d.pages \in Seq([items : SUBSET Fragment, boxes : Seq(BBox)])
        /\ \A p \in DOMAIN d.pages : IsFiniteSet(d.pages[p].items)

VARIABLES
    doc, force,
    dpc,       \* what Handle does next
    method,    \* the path that answered
    page, box, \* the part of the document being read
    rest,      \* its fragments that are in no line yet
    lines,     \* its lines, from top to bottom
    lineNo,    \* the line to be looked at next
    cur,       \* the rows collected for a table
    tableIdx,  \* the number of the next table of the page
    tables     \* a table has an address: its page and its number on it

reading == <<rest, lines, lineNo, cur, tableIdx>>
docVars == <<doc, force, dpc, method, page, box, reading, tables>>

-----------------------------------------------------------------------------
(* Heights that differ by half the median font size, 2pt at least, are still *)
(* the same line.                                                            *)

floor == 2
Sized(items) == {i \in items : i.font > 0}
yThreshold(items, d) ==
    \/ d <= floor
    \/ \E i \in Sized(items) :
          /\ Cardinality({j \in Sized(items) : j.font < i.font}) <= Cardinality(Sized(items)) \div 2
          /\ 2 * d <= i.font

above(a, b) == a.y < b.y \/ (a.y = b.y /\ a.x < b.x)
leftOf(a, b) == a.x < b.x \/ (a.x = b.x /\ a.y < b.y)
cell(i) == [text |-> {i}, x |-> i.x, y |-> i.y, w |-> i.w]
Cells(s) == [k \in DOMAIN s |-> cell(s[k])]
IsMulti(row) == Len(row) >= 2

-----------------------------------------------------------------------------
(* Handle.  The fast path answers when it has a text; its error matters only *)
(* when the service fails too.                                               *)

FastPath ==
    /\ dpc = "fast"
    /\ IF ~force /\ doc.fast = "text" THEN dpc' = "done" /\ method' = "fastpath"
       ELSE dpc' = "lit" /\ UNCHANGED method
    /\ UNCHANGED <<doc, force, page, box, reading, tables>>

Liteparse ==
    /\ dpc = "lit"
    /\ IF doc.lit = "error" THEN dpc' = "failed" /\ UNCHANGED method
       ELSE dpc' = "page" /\ method' = "liteparse"
    /\ UNCHANGED <<doc, force, page, box, reading, tables>>

-----------------------------------------------------------------------------
(* ReconstructTables: box by box where liteparse has found some, all lines   *)
(* of a page at once elsewhere.                                              *)

Page == doc.pages[page]
Boxed == Page.boxes # <<>>
itemsInBBox(items, b) == {i \in items : i.x >= b.x /\ i.x < b.x + b.w /\ i.y >= b.y /\ i.y < b.y + b.h}
Items == IF Boxed THEN itemsInBBox(Page.items, Page.boxes[box]) ELSE Page.items

StartPart ==
    /\ dpc = "page" /\ page <= Len(doc.pages) /\ Page.items # {}
    /\ dpc' = "rows" /\ rest' = Items /\ lines' = <<>> /\ lineNo' = 1 /\ cur' = <<>> /\ tableIdx' = 0
    /\ UNCHANGED <<doc, force, method, page, box, tables>>

NextPage == page' = page + 1 /\ box' = 1 /\ dpc' = "page"
NextPart == IF box < Len(Page.boxes) THEN page' = page /\ box' = box + 1 /\ dpc' = "page" ELSE NextPage

EmptyPage ==
    /\ dpc = "page" /\ page <= Len(doc.pages) /\ Page.items = {}
    /\ NextPage /\ UNCHANGED <<doc, force, method, reading, tables>>

LastPage ==
    /\ dpc = "page" /\ page > Len(doc.pages)
    /\ dpc' = "done" /\ UNCHANGED <<doc, force, method, page, box, reading, tables>>

\* bucketRows: the topmost fragment and what is not below it by more than the
\* threshold are the next line.
LineFrom(i) == {j \in rest : yThreshold(Items, j.y - i.y)}

\* Mutant: the cells stay in the order of their lines.
BucketRowUnsorted ==
    /\ dpc = "rows"
    /\ \E first \in rest :
          /\ \A i \in rest : ~above(i, first)
          /\ rest' = rest \ LineFrom(first)
          /\ \E s \in Ranked(LineFrom(first), above) : lines' = Append(lines, Cells(s))
    /\ UNCHANGED <<doc, force, dpc, method, page, box, lineNo, cur, tableIdx, tables>>

\* From left to right, in a line.
BucketRow ==
    /\ dpc = "rows"
    /\ \E first \in rest :
          /\ \A i \in rest : ~above(i, first)
          /\ rest' = rest \ LineFrom(first)
          /\ \E s \in Ranked(LineFrom(first), leftOf) : lines' = Append(lines, Cells(s))
    /\ UNCHANGED <<doc, force, dpc, method, page, box, lineNo, cur, tableIdx, tables>>

Looking == dpc = "rows" /\ rest = {} /\ lineNo <= Len(lines)
ThisRow == lines[lineNo]

\* mergeWrappedRows: a line of one fragment goes on in the first cell of the row
\* above whose band it is in.
Band(row, c) == {k \in DOMAIN row : c.x >= row[k].x /\ c.x < row[k].x + row[k].w}
Into(row, k, c) == [j \in DOMAIN row |-> IF j = k THEN [text |-> row[k].text \cup c.text,
                                                        x |-> row[k].x, y |-> row[k].y, w |-> row[k].w]
                                         ELSE row[j]]
Wraps == /\ Len(ThisRow) = 1 /\ cur # <<>> /\ IsMulti(cur[Len(cur)]) /\ Band(cur[Len(cur)], ThisRow[1]) # {}
MergeRow ==
    /\ Looking /\ Boxed
    /\ IF Wraps
       THEN \E k \in Band(cur[Len(cur)], ThisRow[1]) :
               /\ \A j \in Band(cur[Len(cur)], ThisRow[1]) : k <= j
               /\ cur' = [cur EXCEPT ![Len(cur)] = Into(cur[Len(cur)], k, ThisRow[1])]
       ELSE cur' = Append(cur, ThisRow)
    /\ lineNo' = lineNo + 1
    /\ UNCHANGED <<doc, force, dpc, method, page, box, rest, lines, tableIdx, tables>>

\* Without boxes a table is a run of rows of two cells or more; a run of one is
\* none.  rowsToTable has nothing to leave out of it.
flush ==
    IF Len(cur) < 2 THEN UNCHANGED <<tables, tableIdx>>
    ELSE /\ tables' = tables \cup {[page |-> page, n |-> tableIdx, rows |-> cur]}
         /\ tableIdx' = tableIdx + 1
TakeRow ==
    /\ Looking /\ ~Boxed
    /\ IF IsMulti(ThisRow) THEN cur' = Append(cur, ThisRow) /\ UNCHANGED <<tables, tableIdx>>
       ELSE flush /\ cur' = <<>>
    /\ lineNo' = lineNo + 1
    /\ UNCHANGED <<doc, force, dpc, method, page, box, rest, lines>>

EndOfPage ==
    /\ dpc = "rows" /\ rest = {} /\ lineNo > Len(lines) /\ ~Boxed
    /\ flush /\ NextPage
    /\ UNCHANGED <<doc, force, method, rest, lines, lineNo, cur>>

\* rowsToTable: what is left of a box without its lines of one cell.
Core == {k \in DOMAIN cur : IsMulti(cur[k])}
rowsToTable(o) == [page |-> page, n |-> box - 1, rows |-> [k \in DOMAIN o |-> cur[o[k]]]]
EndOfBox ==
    /\ dpc = "rows" /\ rest = {} /\ lineNo > Len(lines) /\ Boxed
    /\ \E o \in Ranked(Core, <) :
          tables' = IF Len(o) < 2 THEN tables ELSE tables \cup {rowsToTable(o)}
    /\ NextPart
    /\ UNCHANGED <<doc, force, method, reading>>

DocInit ==
    /\ doc \in Documents /\ force \in BOOLEAN /\ dpc = "fast" /\ method = "none"
    /\ page = 1 /\ box = 1 /\ rest = {} /\ lines = <<>> /\ lineNo = 1 /\ cur = <<>>
    /\ tableIdx = 0 /\ tables = {}
Reconstruct == StartPart \/ EmptyPage \/ LastPage \/ BucketRow \/ MergeRow \/ TakeRow \/ EndOfPage \/ EndOfBox
DocNext == FastPath \/ Liteparse \/ Reconstruct

-----------------------------------------------------------------------------
RowFragments(row) == UNION {row[k].text : k \in DOMAIN row}
Fragments(t) == UNION {RowFragments(t.rows[r]) : r \in DOMAIN t.rows}

(* A table is a grid: two rows at least, of two cells at least, each row     *)
(* below the one before, each cell to the right of the one before.           *)
IsGrid(t) ==
    /\ Len(t.rows) >= 2
    /\ \A r \in DOMAIN t.rows :
          /\ IsMulti(t.rows[r])
          /\ \A k \in 2..Len(t.rows[r]) : t.rows[r][k - 1].x <= t.rows[r][k].x
          /\ r > 1 => \A a \in ToSet(t.rows[r - 1]), b \in ToSet(t.rows[r]) : a.y < b.y

(* No two tables share an address, and no fragment is in two tables of a     *)
(* page unless their boxes overlap.                                          *)
Overlap(a, b) ==
    a.x < b.x + b.w /\ b.x < a.x + a.w /\ a.y < b.y + b.h /\ b.y < a.y + a.h
KeepApart(t, u) ==
    t.page = u.page =>
        /\ t.n # u.n
        /\ \/ Fragments(t) \cap Fragments(u) = {}
           \/ \E a, b \in DOMAIN doc.pages[t.page].boxes :
                 a # b /\ Overlap(doc.pages[t.page].boxes[a], doc.pages[t.page].boxes[b])
TablesAreGrids ==
    /\ \A t \in tables : IsGrid(t)
    /\ \A t, u \in tables : t # u => KeepApart(t, u)

(* On a page without boxes whose lines keep apart, the fragments in tables   *)
(* are those of the lines of two or more that have such a line next to them. *)
Line(items, i) == {j \in items : yThreshold(items, j.y - i.y) /\ yThreshold(items, i.y - j.y)}
Apart(items) == \A i, j \in items : j \in Line(items, i) => Line(items, i) = Line(items, j)
NextLine(items, i) ==
    LET below == {j \in items \ Line(items, i) : j.y > i.y}
    IN {j \in below : \A k \in below : Line(items, k) = Line(items, j) \/ k.y > j.y}
InTable(items, i) ==
    /\ Cardinality(Line(items, i)) >= 2
    /\ \E j \in items : /\ i \in NextLine(items, j) \/ j \in NextLine(items, i)
                        /\ Cardinality(Line(items, j)) >= 2
OnPage(p) == {t \in tables : t.page = p}
TablesAreRuns ==
    dpc = "done" /\ method = "liteparse" =>
        \A p \in DOMAIN doc.pages :
            LET items == doc.pages[p].items
            IN doc.pages[p].boxes = <<>> /\ Apart(items) =>
                  UNION {Fragments(t) : t \in OnPage(p)} = {i \in items : InTable(items, i)}

(* The tables of a document are grids, and no cell of one is left out. *)
TablesAreWhole == TablesAreGrids /\ TablesAreRuns
=============================================================================
