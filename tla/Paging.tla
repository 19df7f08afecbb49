------------------------------- MODULE Paging -------------------------------
(***************************************************************************)
(* hygiea-db, page.rs: which rows a page is made of.  Page numbers and     *)
(* sizes are u32, the offset an i64, the number of rows a u64: a page that *)
(* is above MaxPage and an offset above MaxOffset do not fit.              *)
(***************************************************************************)
EXTENDS Integers, Sequences, FiniteSets

CONSTANTS MaxPage, MaxOffset

\* A request, or nothing when it is refused (NotPositive, PageOutOfRange) or nobody can write it.
PageRequest(page, size) == {[page |-> p, size |-> size] : p \in {q \in {page} : q <= MaxPage /\ size > 0 /\ q * size <= MaxOffset}}

Limit(request) == request.size
Offset(request) == request.page * Limit(request)
DivCeil(n, m) == (n + (m - 1)) \div m

Page(items, request, total) ==
    [items |-> items, page |-> request.page, size |-> request.size, total |-> total,
     pages |-> DivCeil(total, request.size)]

\* The rows that LIMIT and OFFSET take of a table.
Rows(total, request) == {n \in 1 .. total : Offset(request) < n /\ n <= Offset(request) + Limit(request)}

\* The pages from 0 to total_pages - 1 have all rows, none of them is empty, and no row is on two
\* of them; those after them are empty.  But page numbers end at MaxPage: of more rows than the
\* pages up to it hold, those behind them are counted and are on no page.
PagesPartition(total, size) ==
    LET pages == Page(<<>>, [page |-> 0, size |-> size], total).pages
        On(p) == UNION {Rows(total, r) : r \in PageRequest(p, size)}
        asked == {p \in 0 .. pages - 1 : p <= MaxPage}
    IN  size > 0 /\ total <= MaxOffset =>
        /\ UNION {On(p) : p \in asked} = {n \in 1 .. total : n <= (MaxPage + 1) * size}
        /\ \A p \in asked : On(p) # {} /\ \A q \in 0 .. p - 1 : On(q) \cap On(p) = {}
        /\ On(pages) = {} /\ (pages = 0 <=> total = 0)
=============================================================================
