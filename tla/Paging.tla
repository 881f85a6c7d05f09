------------------------------- MODULE Paging -------------------------------
(***************************************************************************)
(* dao/PageSpliter.java with PageSplitDto.java and the paged queries of    *)
(* BaseHibernateDao.java: one query counts the rows, a second one reads    *)
(* the rows of the current page, and splitPage computes the page numbers   *)
(* the user can go to next.  Rows come and go at any time; the dto may be  *)
(* kept from one query to the next.                                        *)
(***************************************************************************)
EXTENDS Integers

CONSTANTS
  MaxRows,    \* bound: the rows of the table
  Sizes       \* bound: the page sizes a caller chooses from, 0 for no pages

ASSUME PagingAssumption == MaxRows \in Nat /\ Sizes \subseteq Nat

VARIABLES
  records,    \* the number of rows in the table
  dto,        \* the PageSplitDto
  at,         \* "idle", "counted" between the two queries, or "failed"
  shown,      \* the rows, from 0, that the second query returned
  moved       \* history: the table has changed since the rows were counted

pagingVars == <<records, dto, at, shown, moved>>

-----------------------------------------------------------------------------
(* PageSpliter *)

spNo == 4
Unbounded(low, n) == n
AtLeast(low, n) == IF n < low THEN low ELSE n
AtMost(high, n) == IF n > high THEN high ELSE n

getOffSet(currentPageNo, pageSize) ==
  IF currentPageNo < 2 \/ pageSize < 1 THEN 0 ELSE (currentPageNo - 1) * pageSize

FullPages(recNumber, pageSize) ==
  IF recNumber < 1 \/ pageSize < 1 THEN 1 ELSE recNumber \div pageSize
countPages(recNumber, pageSize) ==
  IF recNumber < 1 \/ pageSize < 1 THEN 1 ELSE (recNumber + pageSize - 1) \div pageSize

prePageNumbers(start, end) == AtLeast(1, start)..(end - 1)
posPageNumbers(start, end) == (start + 1)..end

\* Ten pages in all: what one end has no room for, the other end shows.
StartPage(cur, count) == cur - spNo - AtLeast(0, spNo + 1 - (count - cur))
NoExtension(cur, count) == AtMost(count, cur + spNo + 1)
EndPage(cur, count) == AtMost(count, cur + spNo + 1 + AtLeast(0, spNo - cur + 1))

\* The page number lists are sets of numbers, in ascending order in the code.
splitPage(d) ==
  LET cur == d.currPageNo
      count == countPages(d.countRecNumber, d.pageSize)
  IN  [d EXCEPT
        !.countPageNumber = count,
        !.nextPageNo = AtMost(count, cur + 1),
        !.appPos = IF cur + spNo < count THEN "YES" ELSE @,
        !.prePageNo = AtLeast(1, cur - 1),
        !.appPre = IF 1 + spNo < cur THEN "YES" ELSE @,
        !.prePageNoList = prePageNumbers(StartPage(cur, count), cur),
        !.posPageNoList = posPageNumbers(cur, EndPage(cur, count))]

-----------------------------------------------------------------------------
(* BaseHibernateDao and its caller *)

NewDto == [countRecNumber |-> 0, countPageNumber |-> 0, pageSize |-> 10, currPageNo |-> 1,
           prePageNo |-> 0, nextPageNo |-> 0, prePageNoList |-> {}, posPageNoList |-> {},
           appPre |-> "null", appPos |-> "null"]

\* A new dto, as a query has to start with.
Open ==
  /\ at # "counted"
  /\ \E size \in Sizes : dto' = [NewDto EXCEPT !.pageSize = size]
  /\ at' = "idle"
  /\ shown' = {}
  /\ UNCHANGED <<records, moved>>

Links(d) == d.prePageNoList \cup d.posPageNoList \cup {d.prePageNo, d.nextPageNo}

\* Without a size or a page number all rows are read, and splitPage is not called.
Paged(d) == d.pageSize > 0 /\ d.currPageNo > 0

Answered == at = "idle" /\ Paged(dto) /\ dto.countPageNumber > 0

\* What a caller asks for: no page, the first one, the one in the dto (again), or
\* one the last query offered.
Asked == {0, 1, dto.currPageNo} \cup (IF Answered THEN Links(dto) ELSE {})

\* findBySqlWithPagging and findByHqlWithPagging: the number of rows, ...
Count ==
  /\ at # "counted"
  /\ \E p \in Asked : dto' = [dto EXCEPT !.currPageNo = p, !.countRecNumber = records]
  /\ at' = "counted"
  /\ moved' = FALSE
  /\ shown' = {}
  /\ UNCHANGED records

\* ... then the rows of the page, setFirstResult and setMaxResults.
Find ==
  /\ at = "counted"
  /\ IF Paged(dto)
     THEN LET first == getOffSet(dto.currPageNo, dto.pageSize)
          IN  /\ shown' = first..AtMost(records - 1, first + dto.pageSize - 1)
              /\ dto' = splitPage(dto)
     ELSE shown' = 0..(records - 1) /\ dto' = dto
  /\ at' = "idle"
  /\ UNCHANGED <<records, moved>>

\* Either query may fail, the second one after splitPage.
CountFails ==
  /\ at # "counted"
  /\ \E p \in Asked : dto' = [dto EXCEPT !.currPageNo = p]
  /\ at' = "failed"
  /\ shown' = {}
  /\ UNCHANGED <<records, moved>>

FindFails ==
  /\ at = "counted"
  /\ dto' = IF Paged(dto) THEN splitPage(dto) ELSE dto
  /\ at' = "failed"
  /\ UNCHANGED <<records, shown, moved>>

\* Another transaction inserts or deletes a row; several may, one by one.
RowsChange ==
  /\ records' \in {records - 1, records + 1} \cap 0..MaxRows
  /\ moved' = TRUE
  /\ UNCHANGED <<dto, at, shown>>

pagingInit ==
  /\ records \in 0..MaxRows
  /\ dto = NewDto /\ at = "idle" /\ shown = {} /\ moved = FALSE

pagingNext == Open \/ Count \/ Find \/ CountFails \/ FindFails \/ RowsChange
pagingSpec == pagingInit /\ [][pagingNext]_pagingVars

-----------------------------------------------------------------------------
(* Properties *)

PageNumbers == 0..(MaxRows + 1)

\* Types; the pages an answer offers to go to are at least 1.
PagingTypeOK ==
  /\ records \in 0..MaxRows
  /\ at \in {"idle", "counted", "failed"}
  /\ moved \in BOOLEAN
  /\ shown \subseteq 0..(MaxRows - 1)
  /\ dto \in [countRecNumber : 0..MaxRows, countPageNumber : PageNumbers,
              pageSize : Sizes \cup {10}, currPageNo : PageNumbers,
              prePageNo : PageNumbers, nextPageNo : PageNumbers,
              prePageNoList : SUBSET (PageNumbers \ {0}), posPageNoList : SUBSET (PageNumbers \ {0}),
              appPre : {"null", "YES"}, appPos : {"null", "YES"}]
  /\ Answered => 0 \notin Links(dto)

\* The page numbers splitPage lists before and after the current page are one
\* run of pages that exist, ten of them or all there are, at both ends of the
\* table as well as in the middle.  (Rows may have gone so that the current
\* page is beyond the last one; then the list names pages that are gone.)
WindowComplete ==
  Answered /\ dto.currPageNo <= dto.countPageNumber =>
    \E first \in 1..dto.countPageNumber :
      /\ dto.prePageNoList \cup {dto.currPageNo} \cup dto.posPageNoList
           = first..AtMost(dto.countPageNumber, first + 9)
      /\ first > 1 => first + 9 <= dto.countPageNumber

\* The offset of the second query and the number of pages fit together: the
\* page shows the rows that dividing the table gives it, no page in range is
\* empty, and every row is on a page.
PagesPartition ==
  Answered /\ ~moved =>
    /\ shown = {i \in 0..(records - 1) : i \div dto.pageSize = dto.currPageNo - 1}
    /\ dto.currPageNo <= dto.countPageNumber /\ records > 0 => shown # {}
    /\ \A i \in 0..(records - 1) : i \div dto.pageSize < dto.countPageNumber

\* The comments in splitPage, "are the surplus pages after it left out" and the
\* same before it: appPos (and appPre) says YES only if pages are left out.
FlagsTellOmitted ==
  Answered /\ dto.currPageNo <= dto.countPageNumber =>
    /\ dto.appPos = "YES" => dto.countPageNumber \notin {dto.currPageNo} \cup dto.posPageNoList
    /\ dto.appPre = "YES" => 1 \notin {dto.currPageNo} \cup dto.prePageNoList

=============================================================================
