---------------------------- MODULE PagingProofs ----------------------------
(* What holds of Paging for tables and page sizes without a bound. *)
EXTENDS Paging, TLAPS

\* There is always a first page, and one page at most per row.
LEMMA PageCount ==
  ASSUME NEW rec \in Nat, NEW size \in Nat \ {0}
  PROVE  countPages(rec, size) \in Nat \ {0}
<1>1. CASE rec < 1
  BY <1>1 DEF countPages
<1>2. CASE rec >= 1
  <2>1. rec + size - 1 >= size /\ rec + size - 1 \in Nat
    BY <1>2
  <2>2. ASSUME NEW a \in Nat, NEW b \in Nat \ {0}, a >= b
        PROVE  a \div b \in Nat \ {0}
    <3>1. a = b * (a \div b) + (a % b) /\ (a % b) \in 0..(b - 1) /\ a \div b \in Int
      BY <2>2
    <3>2. CASE a \div b <= 0
      <4>1. b * (a \div b) <= 0
        BY <3>1, <3>2, Z3
      <4> QED
        BY <2>2, <3>1, <4>1
    <3> QED
      BY <3>1, <3>2
  <2> QED
    BY <1>2, <2>1, <2>2 DEF countPages
<1> QED
  BY <1>1, <1>2

\* What the page number lists hold, whatever page is the current one.
LEMMA Window ==
  ASSUME NEW cur \in Nat \ {0}, NEW count \in Nat \ {0}, cur <= count
  PROVE  \E first \in 1..count :
           /\ prePageNumbers(StartPage(cur, count), cur) \cup {cur}
                \cup posPageNumbers(cur, EndPage(cur, count))
              = first..AtMost(count, first + 9)
           /\ first > 1 => first + 9 <= count
<1> DEFINE first == AtLeast(1, StartPage(cur, count))
           last == EndPage(cur, count)
<1> USE DEF AtLeast, AtMost, StartPage, EndPage, spNo
<1>1. first \in 1..count /\ first <= cur /\ last \in Int /\ cur <= last
  OBVIOUS
<1>2. last = AtMost(count, first + 9)
  OBVIOUS
<1>3. first > 1 => first + 9 <= count
  OBVIOUS
<1> HIDE DEF first, last
<1>4. (first..(cur - 1)) \cup {cur} \cup ((cur + 1)..last) = first..last
  BY <1>1
<1> QED
  BY <1>1, <1>2, <1>3, <1>4 DEF prePageNumbers, posPageNumbers, first, last

\* Facts of multiplication and division.
LEMMA Product ==
  ASSUME NEW a \in Int, NEW b \in Int, NEW s \in Nat \ {0}, a <= b
  PROVE  a * s \in Int /\ b * s \in Int /\ a * s <= b * s
<1>1. (b - a) * s >= 0
  BY Z3
<1>2. (b - a) * s = b * s - a * s
  BY Z3
<1> QED
  BY <1>1, <1>2, Z3

LEMMA Division ==
  ASSUME NEW i \in Nat, NEW s \in Nat \ {0}
  PROVE  i \div s \in Nat /\ (i \div s) * s <= i /\ i < (i \div s) * s + s
<1>1. i = s * (i \div s) + (i % s) /\ (i % s) \in 0..(s - 1) /\ i \div s \in Int
  OBVIOUS
<1>2. s * (i \div s) = (i \div s) * s
  BY <1>1, Z3
<1>3. i \div s >= 0
  <2>1. CASE i \div s <= -1
    <3>1. (i \div s) * s <= (-1) * s
      BY <1>1, <2>1, Product
    <3> QED
      BY <1>1, <1>2, <3>1
  <2> QED
    BY <1>1, <2>1
<1> QED
  BY <1>1, <1>2, <1>3

\* The rows of a page are those that dividing their numbers by its size gives.
LEMMA Quotient ==
  ASSUME NEW i \in Nat, NEW s \in Nat \ {0}, NEW q \in Nat
  PROVE  i \div s = q <=> q * s <= i /\ i < q * s + s
<1> DEFINE d == i \div s
<1>1. d \in Nat /\ d * s \in Int /\ d * s <= i /\ i < d * s + s /\ q * s \in Int
  BY Division, Product
<1> HIDE DEF d
<1>2. d < q => i < q * s
  <2> SUFFICES ASSUME d < q PROVE i < q * s
    OBVIOUS
  <2>1. (d + 1) * s <= q * s /\ (d + 1) * s \in Int
    BY <1>1, Product
  <2>2. (d + 1) * s = d * s + s
    BY <1>1, Z3
  <2> QED
    BY <1>1, <2>1, <2>2
<1>3. q < d => q * s + s <= i
  <2> SUFFICES ASSUME q < d PROVE q * s + s <= i
    OBVIOUS
  <2>1. (q + 1) * s <= d * s /\ (q + 1) * s \in Int
    BY <1>1, Product
  <2>2. (q + 1) * s = q * s + s
    BY <1>1, Z3
  <2> QED
    BY <1>1, <2>1, <2>2
<1>4. d = q <=> q * s <= i /\ i < q * s + s
  BY <1>1, <1>2, <1>3
<1> QED
  BY <1>4 DEF d

\* No row is beyond the last page, and the last page has a row.
LEMMA LastPage ==
  ASSUME NEW rec \in Nat \ {0}, NEW s \in Nat \ {0}
  PROVE  /\ \A i \in 0..(rec - 1) : i \div s < countPages(rec, s)
         /\ \A p \in 1..countPages(rec, s) : (p - 1) * s <= rec - 1
<1> DEFINE n == rec + s - 1
           c == n \div s
<1>1. n \in Nat /\ countPages(rec, s) = c
  BY DEF countPages
<1> HIDE DEF n
<1>2. c \in Nat /\ c * s \in Int /\ c * s <= n /\ n < c * s + s
  BY <1>1, Division, Product
<1> HIDE DEF c
<1>3. ASSUME NEW i \in 0..(rec - 1) PROVE i \div s < c
  <2>1. i \div s \in Nat /\ (i \div s) * s <= i
    BY Division
  <2>2. CASE c <= i \div s
    <3>1. c * s <= (i \div s) * s /\ (i \div s) * s \in Int
      BY <1>2, <2>1, <2>2, Product
    <3> QED
      BY <1>2, <2>1, <3>1 DEF n
  <2> QED
    BY <1>2, <2>1, <2>2
<1>4. ASSUME NEW p \in 1..c PROVE (p - 1) * s <= rec - 1
  <2>1. p * s <= c * s /\ p * s \in Int
    BY <1>2, Product
  <2>2. (p - 1) * s = p * s - s
    BY <1>2, Z3
  <2> QED
    BY <1>2, <2>1, <2>2 DEF n
<1> QED
  BY <1>1, <1>3, <1>4

-----------------------------------------------------------------------------

DtoType ==
  [countRecNumber : Nat, countPageNumber : Nat, pageSize : Nat,
   currPageNo : Nat, prePageNo : Nat, nextPageNo : Nat,
   prePageNoList : SUBSET (Nat \ {0}), posPageNoList : SUBSET (Nat \ {0}),
   appPre : {"null", "YES"}, appPos : {"null", "YES"}]

\* An answered query has left in the dto what splitPage computed for the page
\* that is still the current one.
IInv ==
  /\ records \in Nat
  /\ dto \in DtoType
  /\ Answered =>
       /\ dto.prePageNo \in Nat \ {0} /\ dto.nextPageNo \in Nat \ {0}
       /\ dto.prePageNoList =
            prePageNumbers(StartPage(dto.currPageNo, dto.countPageNumber), dto.currPageNo)
       /\ dto.posPageNoList =
            posPageNumbers(dto.currPageNo, EndPage(dto.currPageNo, dto.countPageNumber))

LEMMA InitIInv == pagingInit => IInv
BY PagingAssumption DEF pagingInit, IInv, NewDto, DtoType, Answered

\* What splitPage makes of a dto.
LEMMA SplitDto ==
  ASSUME NEW d \in DtoType, Paged(d)
  PROVE  LET cur == d.currPageNo
             count == countPages(d.countRecNumber, d.pageSize)
         IN  /\ splitPage(d) \in DtoType
             /\ splitPage(d).prePageNo \in Nat \ {0} /\ splitPage(d).nextPageNo \in Nat \ {0}
             /\ splitPage(d).prePageNoList = prePageNumbers(StartPage(cur, count), cur)
             /\ splitPage(d).posPageNoList = posPageNumbers(cur, EndPage(cur, count))
             /\ splitPage(d).currPageNo = cur /\ splitPage(d).countPageNumber = count
             /\ splitPage(d).pageSize = d.pageSize
<1> DEFINE cur == d.currPageNo
           count == countPages(d.countRecNumber, d.pageSize)
           pre == prePageNumbers(StartPage(cur, count), cur)
           pos == posPageNumbers(cur, EndPage(cur, count))
           next == AtMost(count, cur + 1)
           prev == AtLeast(1, cur - 1)
           appPos == IF cur + spNo < count THEN "YES" ELSE d.appPos
           appPre == IF 1 + spNo < cur THEN "YES" ELSE d.appPre
<1>1. cur \in Nat \ {0} /\ count \in Nat \ {0}
  BY PageCount DEF DtoType, Paged
<1>2. appPos \in {"null", "YES"} /\ appPre \in {"null", "YES"}
  BY DEF DtoType
<1> HIDE DEF count
<1>3. pre \in SUBSET (Nat \ {0}) /\ pos \in SUBSET (Nat \ {0})
  BY <1>1 DEF prePageNumbers, posPageNumbers, StartPage, EndPage, AtLeast, AtMost, spNo
<1>4. next \in Nat \ {0} /\ prev \in Nat \ {0}
  BY <1>1 DEF AtLeast, AtMost
<1>5. splitPage(d) = [d EXCEPT !.countPageNumber = count, !.nextPageNo = next, !.appPos = appPos,
                               !.prePageNo = prev, !.appPre = appPre,
                               !.prePageNoList = pre, !.posPageNoList = pos]
  BY DEF splitPage, DtoType, count
<1>6. cur = d.currPageNo
  OBVIOUS
<1> HIDE DEF cur, pre, pos, next, prev, appPos, appPre
<1>7. splitPage(d) \in DtoType
  <2>1. d.countRecNumber \in Nat /\ d.pageSize \in Nat /\ d.currPageNo \in Nat
    BY DEF DtoType
  <2>2. splitPage(d) =
          [countRecNumber |-> d.countRecNumber, countPageNumber |-> count,
           pageSize |-> d.pageSize, currPageNo |-> d.currPageNo,
           prePageNo |-> prev, nextPageNo |-> next,
           prePageNoList |-> pre, posPageNoList |-> pos,
           appPre |-> appPre, appPos |-> appPos]
    BY <1>5 DEF DtoType
  <2> QED
    BY <1>1, <1>2, <1>3, <1>4, <2>1, <2>2 DEF DtoType
<1>8. /\ splitPage(d).prePageNo = prev /\ splitPage(d).nextPageNo = next
      /\ splitPage(d).prePageNoList = pre /\ splitPage(d).posPageNoList = pos
      /\ splitPage(d).currPageNo = cur /\ splitPage(d).countPageNumber = count
      /\ splitPage(d).pageSize = d.pageSize
  BY <1>5, <1>6 DEF DtoType
<1> QED
  BY <1>4, <1>7, <1>8 DEF cur, count, pre, pos

LEMMA FindIInv == IInv /\ Find => IInv'
<1> SUFFICES ASSUME IInv, Find PROVE IInv'
  OBVIOUS
<1>1. dto \in DtoType /\ records' \in Nat
  BY DEF Find, IInv
<1>2. CASE Paged(dto)
  <2>1. dto' = splitPage(dto)
    BY <1>2 DEF Find
  <2> QED
    BY <1>1, <1>2, <2>1, SplitDto DEF IInv
<1>3. CASE ~Paged(dto)
  <2>1. dto' = dto
    BY <1>3 DEF Find
  <2>2. ~Answered'
    BY <1>3, <2>1 DEF Answered, Paged
  <2> QED
    BY <1>1, <2>1, <2>2 DEF IInv
<1> QED
  BY <1>2, <1>3

LEMMA FindFailsIInv == IInv /\ FindFails => IInv'
<1> SUFFICES ASSUME IInv, FindFails PROVE IInv'
  OBVIOUS
<1>1. dto \in DtoType /\ records' \in Nat /\ ~Answered'
  BY DEF FindFails, IInv, Answered
<1>2. dto' \in DtoType
  BY <1>1, SplitDto DEF FindFails
<1> QED
  BY <1>1, <1>2 DEF IInv

\* A new dto differs from NewDto in its page size, and a query in the page asked
\* for and the number of rows.
LEMMA SizedDto ==
  ASSUME NEW size
  PROVE  [NewDto EXCEPT !.pageSize = size] =
           [countRecNumber |-> 0, countPageNumber |-> 0, pageSize |-> size,
            currPageNo |-> 1, prePageNo |-> 0, nextPageNo |-> 0,
            prePageNoList |-> {}, posPageNoList |-> {}, appPre |-> "null", appPos |-> "null"]
BY DEF NewDto

LEMMA AskedDto ==
  ASSUME NEW d \in DtoType, NEW p \in Nat, NEW n \in Nat
  PROVE  /\ [d EXCEPT !.currPageNo = p, !.countRecNumber = n] \in DtoType
         /\ [d EXCEPT !.currPageNo = p] \in DtoType
BY DEF DtoType

LEMMA AskedPages == IInv => Asked \subseteq Nat
<1> SUFFICES ASSUME IInv PROVE Asked \subseteq Nat
  OBVIOUS
<1>1. dto.currPageNo \in Nat /\ Links(dto) \subseteq Nat
  BY DEF IInv, DtoType, Links
<1> QED
  BY <1>1 DEF Asked

LEMMA CountIInv == IInv /\ (Count \/ CountFails) => IInv'
<1> SUFFICES ASSUME IInv, Count \/ CountFails PROVE IInv'
  OBVIOUS
<1>1. PICK p \in Asked : \/ dto' = [dto EXCEPT !.currPageNo = p, !.countRecNumber = records]
                         \/ dto' = [dto EXCEPT !.currPageNo = p]
  BY DEF Count, CountFails
<1>2. dto \in DtoType /\ records \in Nat /\ p \in Nat
  BY AskedPages DEF IInv
<1>3. dto' \in DtoType
  BY <1>1, <1>2, AskedDto
<1>4. records' \in Nat /\ ~Answered'
  BY <1>2 DEF Count, CountFails, Answered
<1> QED
  BY <1>3, <1>4 DEF IInv

LEMMA OpenIInv == IInv /\ Open => IInv'
<1> SUFFICES ASSUME IInv, Open PROVE IInv'
  OBVIOUS
<1>1. PICK size \in Sizes : dto' = [NewDto EXCEPT !.pageSize = size]
  BY DEF Open
<1>2. size \in Nat
  BY PagingAssumption
<1>3. dto' \in DtoType /\ dto'.countPageNumber = 0
  <2>1. dto' = [countRecNumber |-> 0, countPageNumber |-> 0, pageSize |-> size,
                currPageNo |-> 1, prePageNo |-> 0, nextPageNo |-> 0,
                prePageNoList |-> {}, posPageNoList |-> {}, appPre |-> "null", appPos |-> "null"]
    BY <1>1, SizedDto
  <2>2. dto'.countPageNumber = 0
    BY <2>1
  <2>3. dto' \in DtoType
    BY <1>2, <2>1 DEF DtoType
  <2> QED
    BY <2>2, <2>3
<1>4. records' \in Nat /\ ~Answered'
  BY <1>3 DEF Open, IInv, Answered
<1> QED
  BY <1>3, <1>4 DEF IInv

LEMMA NextIInv == IInv /\ [pagingNext]_pagingVars => IInv'
<1> SUFFICES ASSUME IInv, [pagingNext]_pagingVars PROVE IInv'
  OBVIOUS
<1>1. CASE Open
  BY <1>1, OpenIInv
<1>2. CASE Count \/ CountFails
  BY <1>2, CountIInv
<1>3. CASE Find
  BY <1>3, FindIInv
<1>6. CASE FindFails
  BY <1>6, FindFailsIInv
<1>4. CASE RowsChange
  BY <1>4, PagingAssumption DEF RowsChange, IInv, Answered
<1>5. CASE UNCHANGED pagingVars
  BY <1>5 DEF pagingVars, IInv, Answered
<1> QED
  BY <1>1, <1>2, <1>3, <1>4, <1>5, <1>6 DEF pagingNext

\* splitPage lists ten pages, or all there are, in one run around the current
\* page, for any number of rows and any page size.
THEOREM WindowIsComplete == pagingSpec => []WindowComplete
<1>1. IInv => WindowComplete
  <2> SUFFICES ASSUME IInv, Answered, dto.currPageNo <= dto.countPageNumber
               PROVE  WindowComplete
    BY DEF WindowComplete
  <2>1. dto.currPageNo \in Nat \ {0} /\ dto.countPageNumber \in Nat \ {0}
    BY DEF IInv, DtoType, Answered, Paged
  <2> QED
    BY <2>1, Window DEF IInv, WindowComplete
<1> QED
  BY <1>1, InitIInv, NextIInv, PTL DEF pagingSpec

-----------------------------------------------------------------------------

\* As long as the table is as it was counted, the dto has its number of rows,
\* and what is shown is the window the second query asked for.
Shown(first, s) == first..AtMost(records - 1, first + s - 1)
PInv ==
  /\ IInv
  /\ at = "counted" /\ ~moved => dto.countRecNumber = records
  /\ Answered /\ ~moved =>
       /\ dto.countPageNumber = countPages(records, dto.pageSize)
       /\ shown = Shown(getOffSet(dto.currPageNo, dto.pageSize), dto.pageSize)

LEMMA InitPInv == pagingInit => PInv
BY InitIInv DEF PInv, pagingInit, Answered, NewDto

LEMMA NextPInv == PInv /\ [pagingNext]_pagingVars => PInv'
<1> SUFFICES ASSUME PInv, [pagingNext]_pagingVars PROVE PInv'
  OBVIOUS
<1>0. IInv /\ IInv'
  BY NextIInv DEF PInv
<1>1. CASE Open
  BY <1>0, <1>1 DEF Open, PInv, NewDto, Answered
<1>2. CASE Count
  BY <1>0, <1>2 DEF Count, PInv, Answered, IInv, DtoType
<1>3. CASE Find
  <2>1. CASE Paged(dto)
    <3>1. /\ dto'.countPageNumber = countPages(dto.countRecNumber, dto.pageSize)
          /\ dto'.pageSize = dto.pageSize /\ dto'.currPageNo = dto.currPageNo
      BY <1>0, <1>3, <2>1, SplitDto DEF Find, IInv
    <3> QED
      BY <1>0, <1>3, <2>1, <3>1 DEF Find, PInv, Answered, Shown
  <2>2. CASE ~Paged(dto)
    BY <1>0, <1>3, <2>2 DEF Find, PInv, Answered, Paged
  <2> QED
    BY <2>1, <2>2
<1>4. CASE RowsChange
  BY <1>0, <1>4 DEF RowsChange, PInv
<1>5. CASE UNCHANGED pagingVars
  BY <1>0, <1>5 DEF pagingVars, PInv, Answered, Shown
<1>6. CASE CountFails \/ FindFails
  BY <1>0, <1>6 DEF CountFails, FindFails, PInv, Answered
<1> QED
  BY <1>1, <1>2, <1>3, <1>4, <1>5, <1>6 DEF pagingNext

\* The two queries fit together, for any number of rows and any page size: the
\* pages splitPage counts divide the rows among them.
THEOREM PagesFit == pagingSpec => []PagesPartition
<1>1. PInv => PagesPartition
  <2> SUFFICES ASSUME PInv, Answered, ~moved
               PROVE  /\ shown = {i \in 0..(records - 1) : i \div dto.pageSize = dto.currPageNo - 1}
                      /\ dto.currPageNo <= dto.countPageNumber /\ records > 0 => shown # {}
                      /\ \A i \in 0..(records - 1) : i \div dto.pageSize < dto.countPageNumber
    BY DEF PagesPartition
  <2> DEFINE s == dto.pageSize
             q == dto.currPageNo - 1
  <2>1. s \in Nat \ {0} /\ q \in Nat /\ records \in Nat /\ q * s \in Nat
    <3>1. s \in Nat \ {0} /\ q \in Nat /\ records \in Nat
      BY DEF PInv, IInv, DtoType, Answered, Paged
    <3>2. 0 * s <= q * s /\ q * s \in Int
      BY <3>1, Product
    <3>3. 0 * s = 0
      BY <3>1
    <3> QED
      BY <3>1, <3>2, <3>3
  <2>2. getOffSet(dto.currPageNo, s) = q * s
    <3>1. dto.currPageNo \in Nat \ {0}
      BY DEF PInv, IInv, DtoType, Answered, Paged
    <3>2. CASE dto.currPageNo = 1
      BY <2>1, <3>2 DEF getOffSet
    <3>3. CASE dto.currPageNo > 1
      BY <2>1, <3>1, <3>3 DEF getOffSet
    <3> QED
      BY <3>1, <3>2, <3>3
  <2>3. shown = (q * s)..AtMost(records - 1, q * s + s - 1)
    BY <2>2 DEF PInv, Shown
  <2>4. dto.countPageNumber = countPages(records, s)
    BY DEF PInv
  <2> HIDE DEF s, q
  <2>5. shown = {i \in 0..(records - 1) : i \div s = q}
    <3> DEFINE m == q * s
               page(i) == i \div s = q
    <3>1. ASSUME NEW i \in 0..(records - 1) PROVE page(i) <=> m <= i /\ i < m + s
      BY <2>1, Quotient
    <3>2. m \in Nat /\ shown = m..AtMost(records - 1, m + s - 1)
      BY <2>1, <2>3
    <3> HIDE DEF m, page
    <3>3. shown = {i \in 0..(records - 1) : m <= i /\ i < m + s}
      BY <2>1, <3>2 DEF AtMost
    <3>4. shown = {i \in 0..(records - 1) : page(i)}
      BY <3>1, <3>3, Zenon
    <3> QED
      BY <3>4 DEF page
  <2>6. dto.currPageNo <= dto.countPageNumber /\ records > 0 => shown # {}
    <3> SUFFICES ASSUME dto.currPageNo <= dto.countPageNumber, records > 0
                 PROVE  q * s \in shown
      OBVIOUS
    <3>1. dto.currPageNo \in 1..countPages(records, s) /\ q = dto.currPageNo - 1
      BY <2>1, <2>4, PageCount DEF q, PInv, IInv, DtoType
    <3>2. \A p \in 1..countPages(records, s) : (p - 1) * s <= records - 1
      BY <2>1, LastPage
    <3>3. q * s <= records - 1
      BY <3>1, <3>2, Zenon
    <3> QED
      BY <2>1, <2>3, <3>3 DEF AtMost
  <2>7. \A i \in 0..(records - 1) : i \div s < dto.countPageNumber
    <3>1. CASE records = 0
      BY <3>1
    <3>2. CASE records > 0
      <4>1. \A i \in 0..(records - 1) : i \div s < countPages(records, s)
        <5>1. records \in Nat \ {0} /\ s \in Nat \ {0}
          BY <2>1, <3>2
        <5> QED
          BY <5>1, LastPage, Zenon
      <4> QED
        BY <2>4, <4>1, Zenon
    <3>3. records = 0 \/ records > 0
      BY <2>1
    <3> QED
      BY <3>1, <3>2, <3>3, Zenon
  <2>8. shown = {i \in 0..(records - 1) : i \div dto.pageSize = dto.currPageNo - 1}
    BY <2>5 DEF s, q
  <2>9. \A i \in 0..(records - 1) : i \div dto.pageSize < dto.countPageNumber
    BY <2>7 DEF s
  <2> QED
    BY <2>6, <2>8, <2>9, Zenon
<1> QED
  BY <1>1, InitPInv, NextPInv, PTL DEF pagingSpec

-----------------------------------------------------------------------------
\* The types, with what bounds them: there are never more pages than rows, but
\* for the first one.

LEMMA PageBound ==
  ASSUME NEW rec \in 0..MaxRows, NEW s \in Nat \ {0}
  PROVE  countPages(rec, s) \in 1..(MaxRows + 1)
<1>0. MaxRows \in Nat /\ rec \in Nat /\ countPages(rec, s) \in Nat \ {0}
  BY PagingAssumption, PageCount
<1>1. CASE rec < 1
  BY <1>0, <1>1 DEF countPages
<1>2. CASE rec >= 1
  <2> DEFINE n == rec + s - 1
             c == n \div s
  <2>1. n \in Nat /\ countPages(rec, s) = c
    BY <1>0, <1>2 DEF countPages
  <2> HIDE DEF n
  <2>2. c \in Nat /\ c * s \in Int /\ c * s <= n
    BY <2>1, Division, Product
  <2> HIDE DEF c
  <2>3. c <= rec
    <3> SUFFICES ASSUME c > rec PROVE FALSE
      BY <1>0, <2>2
    <3>1. (rec + 1) * s <= c * s /\ (rec + 1) * s \in Int
      BY <1>0, <2>2, Product
    <3>2. 1 * rec <= s * rec /\ s * rec \in Int
      BY <1>0, <1>2, Product
    <3>3. (rec + 1) * s = s * rec + s /\ 1 * rec = rec
      BY <1>0, Z3
    <3> QED
      BY <1>0, <2>2, <3>1, <3>2, <3>3 DEF n
  <2> QED
    BY <1>0, <2>1, <2>3
<1> QED
  BY <1>0, <1>1, <1>2

\* The page numbers splitPage computes are those of pages within the bound.
LEMMA LinkBound ==
  ASSUME NEW cur \in PageNumbers \ {0}, NEW count \in PageNumbers \ {0}
  PROVE  /\ AtMost(count, cur + 1) \in PageNumbers \ {0} /\ AtLeast(1, cur - 1) \in PageNumbers \ {0}
         /\ prePageNumbers(StartPage(cur, count), cur) \subseteq PageNumbers \ {0}
         /\ posPageNumbers(cur, EndPage(cur, count)) \subseteq PageNumbers \ {0}
<1>1. MaxRows \in Nat /\ cur \in 1..(MaxRows + 1) /\ count \in 1..(MaxRows + 1)
  BY PagingAssumption DEF PageNumbers
<1>2. StartPage(cur, count) \in Int /\ EndPage(cur, count) \in Int /\ EndPage(cur, count) <= count
  BY <1>1 DEF StartPage, EndPage, AtLeast, AtMost, spNo
<1> QED
  BY <1>1, <1>2 DEF PageNumbers, AtLeast, AtMost, prePageNumbers, posPageNumbers

BoundedDto ==
  [countRecNumber : 0..MaxRows, countPageNumber : PageNumbers,
   pageSize : Sizes \cup {10}, currPageNo : PageNumbers,
   prePageNo : PageNumbers, nextPageNo : PageNumbers,
   prePageNoList : SUBSET (PageNumbers \ {0}), posPageNoList : SUBSET (PageNumbers \ {0}),
   appPre : {"null", "YES"}, appPos : {"null", "YES"}]

\* splitPage keeps the dto within its bounds and links to no page 0.
LEMMA SplitTypes ==
  ASSUME NEW d \in BoundedDto, Paged(d)
  PROVE  /\ splitPage(d) \in BoundedDto
         /\ 0 \notin Links(splitPage(d))
<1> DEFINE cur == d.currPageNo
           size == d.pageSize
           count == countPages(d.countRecNumber, size)
           pre == prePageNumbers(StartPage(cur, count), cur)
           pos == posPageNumbers(cur, EndPage(cur, count))
           next == AtMost(count, cur + 1)
           prev == AtLeast(1, cur - 1)
           appPos == IF cur + spNo < count THEN "YES" ELSE d.appPos
           appPre == IF 1 + spNo < cur THEN "YES" ELSE d.appPre
<1>1. cur \in PageNumbers \ {0} /\ size \in Nat \ {0} /\ d.countRecNumber \in 0..MaxRows
  <2>1. cur \in PageNumbers /\ size \in Sizes \cup {10} /\ d.countRecNumber \in 0..MaxRows
    BY DEF BoundedDto
  <2>2. Sizes \cup {10} \subseteq Nat
    BY PagingAssumption
  <2>3. size \in Nat /\ size > 0 /\ cur > 0
    BY <2>1, <2>2 DEF Paged
  <2> QED
    BY <2>1, <2>3
<1>2. count \in PageNumbers \ {0}
  <2>1. count \in 1..(MaxRows + 1)
    BY <1>1, PageBound
  <2> QED
    BY <2>1, PagingAssumption DEF PageNumbers
<1>3. /\ next \in PageNumbers \ {0} /\ prev \in PageNumbers \ {0}
      /\ pre \subseteq PageNumbers \ {0} /\ pos \subseteq PageNumbers \ {0}
  BY <1>1, <1>2, LinkBound
<1>4. appPos \in {"null", "YES"} /\ appPre \in {"null", "YES"}
  BY DEF BoundedDto
<1>5. splitPage(d) = [d EXCEPT !.countPageNumber = count, !.nextPageNo = next, !.appPos = appPos,
                               !.prePageNo = prev, !.appPre = appPre,
                               !.prePageNoList = pre, !.posPageNoList = pos]
  BY DEF splitPage, BoundedDto
<1> HIDE DEF cur, size, count, pre, pos, next, prev, appPos, appPre
<1>6. splitPage(d) \in BoundedDto
  <2>1. /\ d.countRecNumber \in 0..MaxRows /\ d.pageSize \in Sizes \cup {10}
        /\ d.currPageNo \in PageNumbers
    BY DEF BoundedDto
  <2>2. splitPage(d) =
          [countRecNumber |-> d.countRecNumber, countPageNumber |-> count,
           pageSize |-> d.pageSize, currPageNo |-> d.currPageNo,
           prePageNo |-> prev, nextPageNo |-> next,
           prePageNoList |-> pre, posPageNoList |-> pos,
           appPre |-> appPre, appPos |-> appPos]
    BY <1>5 DEF BoundedDto
  <2> QED
    BY <1>2, <1>3, <1>4, <2>1, <2>2 DEF BoundedDto
<1>7. /\ splitPage(d).prePageNo = prev /\ splitPage(d).nextPageNo = next
      /\ splitPage(d).prePageNoList = pre /\ splitPage(d).posPageNoList = pos
  BY <1>5 DEF BoundedDto
<1> QED
  BY <1>3, <1>6, <1>7 DEF Links

LEMMA FindTypes == PagingTypeOK /\ (Find \/ FindFails) => PagingTypeOK'
<1> SUFFICES ASSUME PagingTypeOK, Find \/ FindFails PROVE PagingTypeOK'
  OBVIOUS
<1> DEFINE first == getOffSet(dto.currPageNo, dto.pageSize)
<1>1. /\ dto \in BoundedDto /\ records \in 0..MaxRows /\ MaxRows \in Nat
      /\ shown \subseteq 0..(MaxRows - 1) /\ moved \in BOOLEAN
  BY PagingAssumption DEF PagingTypeOK, BoundedDto
<1>2. dto' \in BoundedDto
  <2>1. dto' = IF Paged(dto) THEN splitPage(dto) ELSE dto
    BY DEF Find, FindFails
  <2> QED
    BY <1>1, <2>1, SplitTypes
<1>3. Answered' => 0 \notin Links(dto')
  <2>1. CASE Find /\ Paged(dto)
    <3>1. dto' = splitPage(dto)
      BY <2>1 DEF Find
    <3> QED
      BY <1>1, <2>1, <3>1, SplitTypes
  <2>2. CASE Find /\ ~Paged(dto)
    BY <2>2 DEF Find, Answered
  <2>3. CASE FindFails
    BY <2>3 DEF FindFails, Answered
  <2> QED
    BY <2>1, <2>2, <2>3
<1>4. shown' \subseteq 0..(MaxRows - 1)
  <2>1. CASE Find /\ Paged(dto)
    <3>1. dto.currPageNo \in Nat /\ dto.pageSize \in Nat
      <4>1. dto.currPageNo \in PageNumbers /\ dto.pageSize \in Sizes \cup {10}
        BY <1>1 DEF BoundedDto
      <4>2. PageNumbers \subseteq Nat /\ Sizes \cup {10} \subseteq Nat
        BY PagingAssumption DEF PageNumbers
      <4> QED
        BY <4>1, <4>2
    <3>2. first \in Nat
      <4>1. ASSUME NEW cur \in Nat, NEW size \in Nat \ {0}, cur > 1
            PROVE  (cur - 1) * size \in Nat
        <5>1. 0 * size <= (cur - 1) * size /\ (cur - 1) * size \in Int /\ 0 * size = 0
          BY <4>1, Product
        <5> QED
          BY <5>1
      <4> QED
        BY <3>1, <4>1 DEF getOffSet
    <3>3. shown' = first..AtMost(records - 1, first + dto.pageSize - 1)
      BY <2>1 DEF Find
    <3> HIDE DEF first
    <3> QED
      BY <1>1, <3>1, <3>2, <3>3 DEF AtMost
  <2>2. CASE Find /\ ~Paged(dto)
    <3>1. shown' = 0..(records - 1)
      BY <2>2 DEF Find
    <3> QED
      BY <1>1, <3>1
  <2>3. CASE FindFails
    BY <1>1, <2>3 DEF FindFails
  <2> QED
    BY <2>1, <2>2, <2>3
<1>5. at' \in {"idle", "failed"} /\ records' = records /\ moved' = moved
  BY DEF Find, FindFails
<1> QED
  BY <1>1, <1>2, <1>3, <1>4, <1>5 DEF PagingTypeOK, BoundedDto

LEMMA OpenTypes == PagingTypeOK /\ Open => PagingTypeOK'
<1> SUFFICES ASSUME PagingTypeOK, Open PROVE PagingTypeOK'
  OBVIOUS
<1>1. PICK size \in Sizes : dto' = [NewDto EXCEPT !.pageSize = size]
  BY DEF Open
<1>2. 0 \in PageNumbers /\ 1 \in PageNumbers /\ 0 \in 0..MaxRows
  BY PagingAssumption DEF PageNumbers
<1>3. dto' \in BoundedDto /\ dto'.countPageNumber = 0
  BY <1>1, <1>2, SizedDto DEF BoundedDto
<1>4. ~Answered'
  BY <1>3 DEF Answered
<1>5. records' = records /\ at' = "idle" /\ moved' = moved /\ shown' = {}
  BY DEF Open
<1> QED
  BY <1>3, <1>4, <1>5 DEF PagingTypeOK, BoundedDto

LEMMA CountTypes == PagingTypeOK /\ (Count \/ CountFails) => PagingTypeOK'
<1> SUFFICES ASSUME PagingTypeOK, Count \/ CountFails PROVE PagingTypeOK'
  OBVIOUS
<1>1. PICK p \in Asked :
        \/ dto' = [dto EXCEPT !.currPageNo = p, !.countRecNumber = records]
        \/ dto' = [dto EXCEPT !.currPageNo = p]
  BY DEF Count, CountFails
<1>2. dto \in BoundedDto /\ records \in 0..MaxRows /\ moved \in BOOLEAN
  BY DEF PagingTypeOK, BoundedDto
<1>3. 0 \in PageNumbers /\ 1 \in PageNumbers
  BY PagingAssumption DEF PageNumbers
<1>4. dto.currPageNo \in PageNumbers /\ Links(dto) \subseteq PageNumbers
  BY <1>2 DEF BoundedDto, Links
<1>5. p \in PageNumbers
  BY <1>1, <1>3, <1>4 DEF Asked
<1>6. dto' \in BoundedDto
  BY <1>1, <1>2, <1>5 DEF BoundedDto
<1>7. records' = records /\ at' \in {"counted", "failed"} /\ moved' \in BOOLEAN /\ shown' = {}
  BY <1>2 DEF Count, CountFails
<1>8. ~Answered'
  BY <1>7 DEF Answered
<1> QED
  BY <1>2, <1>6, <1>7, <1>8 DEF PagingTypeOK, BoundedDto

LEMMA InitTypes == pagingInit => PagingTypeOK
<1> SUFFICES ASSUME pagingInit PROVE PagingTypeOK
  OBVIOUS
<1>1. 0 \in PageNumbers /\ 1 \in PageNumbers /\ 0 \in 0..MaxRows
  BY PagingAssumption DEF PageNumbers
<1>2. NewDto \in BoundedDto
  BY <1>1 DEF NewDto, BoundedDto
<1>3. ~Answered
  BY DEF pagingInit, NewDto, Answered
<1>4. records \in 0..MaxRows /\ dto = NewDto /\ at = "idle" /\ shown = {} /\ moved = FALSE
  BY DEF pagingInit
<1> QED
  BY <1>2, <1>3, <1>4 DEF PagingTypeOK, BoundedDto

\* No page number is above the greatest number of rows plus one, and none an
\* answer links to is 0, whatever page is asked for, with pages or without, while
\* rows come and go and queries fail in between.
THEOREM PagingTypeCorrect == pagingSpec => []PagingTypeOK
<1>1. PagingTypeOK /\ [pagingNext]_pagingVars => PagingTypeOK'
  <2> SUFFICES ASSUME PagingTypeOK, [pagingNext]_pagingVars PROVE PagingTypeOK'
    OBVIOUS
  <2>1. CASE Open
    BY <2>1, OpenTypes
  <2>2. CASE Count \/ CountFails
    BY <2>2, CountTypes
  <2>3. CASE Find \/ FindFails
    BY <2>3, FindTypes
  <2>4. CASE RowsChange
    BY <2>4 DEF RowsChange, PagingTypeOK, Answered
  <2>5. CASE UNCHANGED pagingVars
    BY <2>5 DEF pagingVars, PagingTypeOK, Answered
  <2> QED
    BY <2>1, <2>2, <2>3, <2>4, <2>5 DEF pagingNext
<1> QED
  BY InitTypes, <1>1, PTL DEF pagingSpec

=============================================================================
