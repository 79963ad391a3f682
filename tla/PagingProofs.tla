----------------------------- MODULE PagingProofs ------------------------------
(***************************************************************************)
(* Theorems about Paging for any table, any size of page and any number of *)
(* writes.                                                                 *)
(***************************************************************************)
EXTENDS Paging, FiniteSetTheorems, WellFoundedInduction, TLAPS

USE DEF table, reader, history, ReadPage, ReadLogins, ReadPredictions, ReadUsers,
        Collect

-----------------------------------------------------------------------------
(* Type correctness *)

LEMMA RowsFinite ==
    ASSUME NEW S \in SUBSET Rows
    PROVE  IsFiniteSet(S) /\ Cardinality(S) \in Nat
BY PagingRows, FS_Subset, FS_CardinalityType

LEMMA PageFinite ==
    ASSUME TypeOK
    PROVE  Cardinality(Page) \in Nat /\ Cardinality(visible) \in Nat
BY RowsFinite DEF TypeOK, Page

LEMMA TypeInit == Init => TypeOK
<1>1. 0 \in 0 .. 0 /\ 0 = 0 * PageSize
  BY PagingSizes
<1> QED
  BY <1>1 DEF Init, TypeOK, PC

LEMMA TypeTurn ==
    ASSUME TypeOK, NEW size \in Int, Turn(size)
    PROVE  /\ pc' \in PC
           /\ offset' \in Nat
           /\ \E n \in 0 .. offset' : offset' = n * PageSize
<1>1. offset \in Nat
  BY PagingSizes DEF TypeOK
<1>2. PICK n \in 0 .. offset : offset = n * PageSize
  BY DEF TypeOK
<1>3. (n + 1) * PageSize = n * PageSize + PageSize
  BY <1>2, PagingSizes
<1>4. offset + PageSize \in Nat /\ n + 1 \in 0 .. offset + PageSize
  BY <1>1, <1>2, PagingSizes
<1> QED
  BY <1>1, <1>2, <1>3, <1>4 DEF Turn, Advance, PC, TypeOK

LEMMA TypeStep == TypeOK /\ [Next]_vars => TypeOK'
<1> SUFFICES ASSUME TypeOK, [Next]_vars PROVE TypeOK'
  OBVIOUS
<1>1. ASSUME NEW r \in Rows, Write(r) PROVE TypeOK'
  BY <1>1 DEF TypeOK, Write, BeginWrite, CommitWrite, AbortWrite
<1>2. CASE BeginList
  BY <1>2 DEF TypeOK, BeginList, PC
<1>3. CASE ReadPage
  <2>1. Cardinality(Page) \in Nat
    BY PageFinite
  <2>2. offset + Cardinality(Page) \in Nat
    BY <2>1, PagingSizes DEF TypeOK
  <2>3. /\ pc' \in PC
        /\ \E n \in 0 .. offset' : offset' = n * PageSize
    BY <1>3, <2>1, TypeTurn DEF ReadPage, TypeOK, PC
  <2>4. reached' \in Nat /\ times' \in [Rows -> Nat]
    BY <1>3, <2>2 DEF ReadPage, TypeOK
  <2> QED
    BY <1>3, <2>3, <2>4 DEF ReadPage, TypeOK
<1>4. CASE ReadCount
  <2>1. reached - offset \in Int
    BY PagingSizes DEF TypeOK
  <2>2. total' \in Nat
    BY <1>4, PageFinite DEF ReadCount, CountUsers
  <2> QED
    BY <1>4, <2>1, <2>2, TypeTurn DEF ReadCount, TypeOK
<1>5. CASE ReadFails
  BY <1>5 DEF TypeOK, ReadFails, PC
<1>6. CASE UNCHANGED vars
  BY <1>6 DEF TypeOK, vars
<1> QED
  BY <1>1, <1>2, <1>3, <1>4, <1>5, <1>6 DEF Next, Quiet

\* The variables keep their types, and OFFSET stays on the border of a page.
THEOREM TypeCorrect == Spec => []TypeOK
BY TypeInit, TypeStep, PTL DEF Spec

-----------------------------------------------------------------------------
(* Ranks and pages *)

\* A non-empty set of naturals has a least element.
LEMMA Least ==
    ASSUME NEW T, T \subseteq Nat, T # {}
    PROVE  \E n \in T : \A m \in T : n <= m
<1>1. PICK R : R = OpToRel(<, Nat)
  OBVIOUS
<1>2. IsWellFoundedOn(R, Nat)
  BY <1>1, NatLessThanWellFounded, Zenon
<1>3. \A a, b \in Nat : a < b => <<a, b>> \in R
  BY <1>1 DEF OpToRel
<1>4. PICK x \in T : \A y \in T : ~ (<<y, x>> \in R)
  BY <1>2, WFMin
<1>5. \A y \in T : ~(y < x)
  BY <1>3, <1>4
<1> QED
  BY <1>5

LEMMA OneMore ==
    ASSUME NEW S, NEW x, IsFiniteSet(S)
    PROVE  /\ IsFiniteSet(S \cup {x})
           /\ Cardinality(S \cup {x}) \in Nat
           /\ Cardinality(S \cup {x}) <= Cardinality(S) + 1
<1>1. /\ IsFiniteSet(S \cup {x})
      /\ Cardinality(S \cup {x}) =
            IF x \in S THEN Cardinality(S) ELSE Cardinality(S) + 1
  BY FS_AddElement
<1>2. Cardinality(S) \in Nat /\ Cardinality(S \cup {x}) \in Nat
  BY <1>1, FS_CardinalityType
<1> QED
  BY <1>1, <1>2

LEMMA UnionSize ==
    ASSUME NEW S, NEW T, IsFiniteSet(S), IsFiniteSet(T)
    PROVE  /\ IsFiniteSet(S \cup T)
           /\ Cardinality(S \cup T) \in Nat
           /\ Cardinality(S \cup T) <= Cardinality(S) + Cardinality(T)
<1>1. /\ IsFiniteSet(S \cup T)
      /\ Cardinality(S \cup T) =
            Cardinality(S) + Cardinality(T) - Cardinality(S \cap T)
  BY FS_Union
<1>2. IsFiniteSet(S \cap T)
  BY FS_Intersection
<1>3. /\ Cardinality(S) \in Nat /\ Cardinality(T) \in Nat
      /\ Cardinality(S \cap T) \in Nat /\ Cardinality(S \cup T) \in Nat
  BY <1>1, <1>2, FS_CardinalityType
<1> QED
  BY <1>1, <1>3

\* No two transactions begin at the same time, and a prediction is updated
\* after it was inserted.
Stamped ==
    /\ \A r \in Rows : begun[r] <= clock /\ stamp[r] <= clock
    /\ \A r \in Rows : begun[r] # 0 => stamp[r] < begun[r]
    /\ \A r \in visible : stamp[r] # 0
    /\ \A r \in visible, s \in visible : stamp[r] = stamp[s] => r = s
    /\ \A r, s \in Rows : begun[r] # 0 /\ begun[r] = begun[s] => r = s
    /\ \A r \in Rows, s \in Rows : begun[r] # 0 => begun[r] # stamp[s]

LEMMA StampedStep == TypeOK /\ Stamped /\ [Next]_vars => Stamped'
<1> SUFFICES ASSUME TypeOK, Stamped, [Next]_vars PROVE Stamped'
  OBVIOUS
<1> USE DEF TypeOK, Stamped
<1>1. ASSUME NEW r \in Rows, BeginWrite(r) PROVE Stamped'
  BY <1>1 DEF BeginWrite
<1>2. ASSUME NEW r \in Rows, CommitWrite(r) PROVE Stamped'
  BY <1>2 DEF CommitWrite
<1>3. ASSUME NEW r \in Rows, AbortWrite(r) PROVE Stamped'
  BY <1>3 DEF AbortWrite
<1>4. CASE BeginList \/ ReadPage \/ ReadCount \/ ReadFails \/ UNCHANGED vars
  BY <1>4 DEF BeginList, ReadPage, ReadCount, ReadFails, vars
<1> QED
  BY <1>1, <1>2, <1>3, <1>4 DEF Next, Write, Quiet

LEMMA StampedInit == Init => Stamped
BY DEF Init, Stamped

LEMMA RankType == ASSUME TypeOK, NEW r PROVE Rank(r) \in Nat
BY RowsFinite DEF TypeOK, Rank, Ahead

\* A row ahead of another has the smaller rank.
LEMMA RankOrder ==
    ASSUME TypeOK, NEW r \in visible, NEW s \in Ahead(r)
    PROVE  Rank(s) < Rank(r)
<1>1. Ahead(s) \subseteq Ahead(r) \ {s}
  BY DEF Ahead, TypeOK
<1>2. IsFiniteSet(Ahead(r)) /\ Cardinality(Ahead(r)) \in Nat
  BY RowsFinite DEF Ahead, TypeOK
<1>3. /\ IsFiniteSet(Ahead(r) \ {s})
      /\ Cardinality(Ahead(r) \ {s}) = Cardinality(Ahead(r)) - 1
  BY <1>2, FS_RemoveElement
<1>4. Cardinality(Ahead(s)) <= Cardinality(Ahead(r) \ {s})
  BY <1>1, <1>3, FS_Subset
<1>5. Cardinality(Ahead(s)) \in Nat
  BY <1>1, RowsFinite DEF Ahead, TypeOK
<1> QED
  BY <1>2, <1>3, <1>4, <1>5 DEF Rank

\* A set of rows has one that comes first and one that comes last.
LEMMA FirstAndLast ==
    ASSUME TypeOK, NEW S, S \subseteq visible, S # {}, NEW bound \in Nat,
           \A r \in S : Rank(r) <= bound
    PROVE  /\ \E f \in S : \A r \in S : Rank(f) <= Rank(r)
           /\ \E l \in S : \A r \in S : Rank(r) <= Rank(l)
<1>1. \E f \in S : \A r \in S : Rank(f) <= Rank(r)
  <2> DEFINE T == {Rank(r) : r \in S}
  <2>1. T \subseteq Nat /\ T # {}
    BY RankType
  <2>2. PICK n \in T : \A m \in T : n <= m
    BY <2>1, Least
  <2> QED
    BY <2>2
<1>2. \E l \in S : \A r \in S : Rank(r) <= Rank(l)
  <2> DEFINE T == {bound - Rank(r) : r \in S}
  <2>1. T \subseteq Nat /\ T # {}
    BY RankType
  <2>2. PICK n \in T : \A m \in T : n <= m
    BY <2>1, Least
  <2>3. PICK l \in S : n = bound - Rank(l)
    BY <2>2
  <2>4. \A r \in S : bound - Rank(l) <= bound - Rank(r)
    BY <2>2, <2>3
  <2> QED
    BY <2>4, RankType
<1> QED
  BY <1>1, <1>2

\* The rows of the pages before OFFSET are no more than OFFSET.
LEMMA PassedPages ==
    ASSUME TypeOK, Stamped, NEW n \in Nat
    PROVE  Cardinality({r \in visible : Rank(r) < n}) <= n
<1> DEFINE L == {r \in visible : Rank(r) < n}
<1>1. CASE L = {}
  BY <1>1, FS_EmptySet
<1>2. CASE L # {}
  <2>1. \A r \in L : Rank(r) <= n
    BY RankType
  <2>2. PICK l \in L : \A r \in L : Rank(r) <= Rank(l)
    BY <1>2, <2>1, FirstAndLast
  <2>3. L \subseteq Ahead(l) \cup {l}
    <3> SUFFICES ASSUME NEW r \in L, r # l PROVE r \in Ahead(l)
      OBVIOUS
    <3>1. stamp[r] \in Nat /\ stamp[l] \in Nat /\ stamp[r] # stamp[l]
      BY DEF TypeOK, Stamped
    <3>2. CASE stamp[l] > stamp[r]
      <4>1. l \in Ahead(r)
        BY <3>2 DEF Ahead
      <4>2. Rank(l) < Rank(r) /\ Rank(r) <= Rank(l)
        BY <2>2, <4>1, RankOrder
      <4> QED
        BY <4>2, RankType
    <3> QED
      BY <3>1, <3>2 DEF Ahead
  <2>4. IsFiniteSet(Ahead(l)) /\ Cardinality(Ahead(l)) \in Nat
    BY RowsFinite DEF Ahead, TypeOK
  <2>5. /\ IsFiniteSet(Ahead(l) \cup {l})
        /\ Cardinality(Ahead(l) \cup {l}) <= Cardinality(Ahead(l)) + 1
        /\ Cardinality(Ahead(l) \cup {l}) \in Nat
    BY <2>4, OneMore
  <2>6. Cardinality(L) <= Cardinality(Ahead(l) \cup {l})
    BY <2>3, <2>5, FS_Subset
  <2>7. Cardinality(L) \in Nat /\ Cardinality(Ahead(l)) < n
    BY RowsFinite DEF TypeOK, Rank
  <2> QED
    BY <2>4, <2>5, <2>6, <2>7
<1> QED
  BY <1>1, <1>2

\* If any row lies behind a page, the page is full.
LEMMA FullPage ==
    ASSUME TypeOK, Stamped, NEW r \in visible, Rank(r) >= offset + PageSize
    PROVE  Cardinality(Page) >= PageSize
<1> DEFINE B == {s \in visible : Rank(s) >= offset + PageSize /\ Rank(s) <= Rank(r)}
           L == {s \in visible : Rank(s) < offset}
<1>1. offset \in Nat /\ PageSize \in Nat
  BY PagingSizes DEF TypeOK
<1>2. r \in B /\ (\A s \in B : Rank(s) <= Rank(r)) /\ Rank(r) \in Nat
  BY RankType
<1>3. PICK f \in B : \A s \in B : Rank(f) <= Rank(s)
  BY <1>2, FirstAndLast
<1>4. Ahead(f) \subseteq L \cup Page
  <2> SUFFICES ASSUME NEW s \in Ahead(f) PROVE s \in L \cup Page
    OBVIOUS
  <2>1. s \in visible /\ Rank(s) < Rank(f) /\ Rank(s) \in Nat /\ Rank(f) \in Nat
    BY RankOrder, RankType DEF Ahead
  <2>2. s \notin B
    BY <1>3, <2>1
  <2>3. Rank(s) < offset + PageSize
    BY <1>1, <1>2, <1>3, <2>1, <2>2
  <2> QED
    BY <1>1, <2>1, <2>3 DEF Page
<1>5. /\ IsFiniteSet(L) /\ Cardinality(L) \in Nat
      /\ IsFiniteSet(Page) /\ Cardinality(Page) \in Nat
      /\ Cardinality(Ahead(f)) \in Nat
      /\ Cardinality(L \cap Page) \in Nat
  <2>1. /\ L \in SUBSET Rows /\ Page \in SUBSET Rows /\ Ahead(f) \in SUBSET Rows
        /\ L \cap Page \in SUBSET Rows
    BY DEF TypeOK, Page, Ahead
  <2> HIDE DEF L
  <2> QED
    BY <2>1, RowsFinite
<1>6. Cardinality(L) <= offset
  BY <1>1, PassedPages
<1>7. Cardinality(Ahead(f)) >= offset + PageSize
  BY <1>3 DEF Rank
<1> HIDE DEF L, B
<1>8. /\ IsFiniteSet(L \cup Page)
      /\ Cardinality(L \cup Page) \in Nat
      /\ Cardinality(L \cup Page) <= Cardinality(L) + Cardinality(Page)
  BY <1>5, UnionSize
<1>9. Cardinality(Ahead(f)) <= Cardinality(L \cup Page)
  BY <1>4, <1>8, FS_Subset
<1> QED
  BY <1>1, <1>5, <1>6, <1>7, <1>8, <1>9

\* A page lies within the table.
LEMMA PageWithinTable ==
    ASSUME TypeOK, offset <= Cardinality(visible)
    PROVE  offset + Cardinality(Page) <= Cardinality(visible)
<1>1. offset \in Nat /\ PageSize \in Nat
  BY PagingSizes DEF TypeOK
<1>2. CASE Page = {}
  BY <1>1, <1>2, FS_EmptySet
<1>3. CASE Page # {}
  <2>1. Page \subseteq visible /\ \A r \in Page : Rank(r) <= offset + PageSize
    BY <1>1, RankType DEF Page
  <2>2. PICK f \in Page : \A r \in Page : Rank(f) <= Rank(r)
    BY <1>1, <1>3, <2>1, FirstAndLast
  <2>3. Ahead(f) \cap Page = {}
    <3> SUFFICES ASSUME NEW s \in Ahead(f), s \in Page PROVE FALSE
      OBVIOUS
    <3>1. Rank(s) < Rank(f) /\ Rank(f) <= Rank(s)
      BY <2>1, <2>2, RankOrder
    <3> QED
      BY <3>1, RankType
  <2>4. /\ IsFiniteSet(Ahead(f)) /\ Cardinality(Ahead(f)) \in Nat
        /\ IsFiniteSet(Page) /\ Cardinality(Page) \in Nat
        /\ IsFiniteSet(visible) /\ Cardinality(visible) \in Nat
    BY <2>1, RowsFinite DEF TypeOK, Ahead
  <2>5. Cardinality(Ahead(f) \cup Page) = Cardinality(Ahead(f)) + Cardinality(Page)
    BY <2>3, <2>4, FS_Union, FS_EmptySet
  <2>6. Cardinality(Ahead(f) \cup Page) <= Cardinality(visible)
    BY <2>1, <2>4, FS_Subset DEF Ahead
  <2>7. Cardinality(Ahead(f)) >= offset
    BY <1>1 DEF Page, Rank
  <2> QED
    BY <1>1, <2>4, <2>5, <2>6, <2>7
<1> QED
  BY <1>2, <1>3

\* The rank of a row changes only when a row is written: no row that is not
\* written itself comes earlier, and a row that is written comes no later.
LEMMA RankKept ==
    ASSUME UNCHANGED <<visible, stamp>>, NEW r
    PROVE  Rank(r)' = Rank(r)
BY DEF Rank, Ahead

LEMMA RankOfOthers ==
    ASSUME TypeOK, TypeOK', Stamped, NEW w \in Rows, CommitWrite(w),
           NEW r \in visible, r # w
    PROVE  Rank(r) <= Rank(r)'
<1>1. Ahead(r) \subseteq Ahead(r)'
  BY DEF Ahead, CommitWrite, TypeOK, Stamped
<1>2. Ahead(r) \in SUBSET Rows /\ Ahead(r)' \in SUBSET Rows
  BY DEF Ahead, TypeOK
<1>3. IsFiniteSet(Ahead(r)')
  BY <1>2, RowsFinite
<1> QED
  BY <1>1, <1>3, FS_Subset DEF Rank

LEMMA RankOfWritten ==
    ASSUME TypeOK, Stamped, NEW r \in visible, CommitWrite(r)
    PROVE  Rank(r)' <= Rank(r)
<1>1. Ahead(r)' \subseteq Ahead(r)
  BY DEF Ahead, CommitWrite, TypeOK, Stamped
<1>2. Ahead(r) \in SUBSET Rows
  BY DEF Ahead, TypeOK
<1>3. IsFiniteSet(Ahead(r))
  BY <1>2, RowsFinite
<1> QED
  BY <1>1, <1>3, FS_Subset DEF Rank

-----------------------------------------------------------------------------
(* Nothing is missed *)

\* What the reader holds before it begins.
Fresh == pc = "idle" => /\ offset = 0 /\ reached = 0 /\ total = 0
                        /\ times = [r \in Rows |-> 0]
                        /\ atStart = {} /\ moved = {}

\* A row to be found lies behind the pages that were read, and there is a page
\* to come.
Awaited(r) == /\ pc # "done"
              /\ pc = "page" => Rank(r) >= offset
              /\ pc = "count" => /\ Rank(r) >= offset + PageSize
                                 /\ reached >= offset + PageSize

MissInv == /\ atStart \subseteq visible
           /\ \A r \in atStart \ moved : times[r] = 0 => Awaited(r)

LEMMA FreshStep == Fresh /\ [Next]_vars => Fresh'
<1> SUFFICES ASSUME Fresh, [Next]_vars PROVE Fresh'
  OBVIOUS
<1> QED
  BY DEF Fresh, Next, Write, BeginWrite, CommitWrite, AbortWrite, BeginList,
         ReadPage, ReadCount, ReadFails, Turn, Quiet, vars

LEMMA MissStep ==
    ASSUME TypeOK, TypeOK', Stamped, Fresh, MissInv, [Next]_vars
    PROVE  MissInv'
<1>1. offset \in Nat /\ PageSize \in Nat /\ reached \in Nat
  BY PagingSizes DEF TypeOK
<1>2. ASSUME NEW w \in Rows, CommitWrite(w) PROVE MissInv'
  <2>1. atStart' \subseteq visible'
    BY <1>2 DEF CommitWrite, MissInv
  <2>2. ASSUME NEW r \in atStart' \ moved', times'[r] = 0 PROVE Awaited(r)'
    <3>1. pc # "idle"
      BY <1>2, <2>2 DEF Fresh, CommitWrite
    <3>2. r \in visible /\ r # w /\ Awaited(r)
      BY <1>2, <2>2, <3>1 DEF CommitWrite, MissInv
    <3>3. Rank(r) <= Rank(r)' /\ Rank(r) \in Nat /\ Rank(r)' \in Nat
      <4>1. Rank(r) <= Rank(r)'
        BY <1>2, <3>2, RankOfOthers
      <4>2. Rank(r) \in Nat
        BY RankType
      <4>3. Ahead(r)' \in SUBSET Rows
        BY DEF Ahead, TypeOK
      <4>4. Rank(r)' \in Nat
        BY <4>3, RowsFinite DEF Rank
      <4> QED
        BY <4>1, <4>2, <4>4
    <3>4. UNCHANGED <<pc, offset, reached>>
      BY <1>2 DEF CommitWrite
    <3> QED
      BY <1>1, <3>2, <3>3, <3>4 DEF Awaited
  <2> QED
    BY <2>1, <2>2 DEF MissInv
<1>3. ASSUME UNCHANGED <<visible, stamp, moved>>,
             BeginList \/ ReadPage \/ ReadCount \/ ReadFails
      PROVE  MissInv'
  <2>1. \A r : Rank(r)' = Rank(r)
    BY <1>3, RankKept
  <2>2. CASE BeginList
    BY <1>1, <2>1, <2>2, RankType DEF BeginList, Fresh, MissInv, Awaited
  <2>3. CASE ReadPage
    <3>1. ASSUME NEW r \in atStart \ moved, times'[r] = 0 PROVE Awaited(r)'
      <4>1. r \in visible /\ r \in Rows
        BY <3>1 DEF MissInv, TypeOK
      <4>2. r \notin Page /\ times[r] = 0
        BY <2>3, <3>1, <4>1 DEF ReadPage, TypeOK
      <4>3. Rank(r) >= offset /\ Rank(r) \in Nat
        BY <2>3, <3>1, <4>2, RankType DEF ReadPage, MissInv, Awaited
      <4>4. Rank(r) >= offset + PageSize
        BY <1>1, <4>1, <4>2, <4>3 DEF Page
      <4>5. Cardinality(Page) >= PageSize /\ Cardinality(Page) \in Nat
        BY <4>1, <4>4, FullPage, PageFinite
      <4> QED
        BY <1>1, <2>1, <2>3, <4>4, <4>5 DEF Turn, Advance, Awaited
    <3> QED
      BY <2>3, <3>1 DEF ReadPage, MissInv
  <2>4. CASE ReadCount
    <3>1. ASSUME NEW r \in atStart \ moved, times[r] = 0 PROVE Awaited(r)'
      <4>1. Rank(r) >= offset + PageSize /\ reached - offset >= PageSize
        BY <1>1, <2>4, <3>1 DEF ReadCount, MissInv, Awaited
      <4> QED
        BY <1>1, <2>1, <2>4, <4>1 DEF ReadCount, Turn, Advance, Awaited
    <3> QED
      BY <2>4, <3>1 DEF ReadCount, MissInv
  <2>5. CASE ReadFails
    BY <2>5 DEF ReadFails, MissInv, Awaited
  <2> QED
    BY <1>3, <2>2, <2>3, <2>4, <2>5
<1>4. ASSUME UNCHANGED <<visible, stamp, moved, reader, atStart>> PROVE MissInv'
  <2>1. \A r : Rank(r)' = Rank(r)
    BY <1>4, RankKept
  <2> QED
    BY <1>4, <2>1 DEF MissInv, Awaited
<1> QED
  BY <1>2, <1>3, <1>4 DEF Next, Write, BeginWrite, AbortWrite, BeginList,
     ReadPage, ReadCount, ReadFails, Quiet, vars

\* A list read to its end has every row that was there at the beginning and was
\* not written meanwhile, whatever was inserted in front of it.
THEOREM NothingMissed == Spec => []NoneMissed
<1> DEFINE I == TypeOK /\ Stamped /\ Fresh /\ MissInv
<1>1. Init => I
  BY TypeInit, StampedInit DEF Init, Fresh, MissInv
<1>2. I /\ [Next]_vars => I'
  BY TypeStep, StampedStep, FreshStep, MissStep
<1>3. I => NoneMissed
  <2> SUFFICES ASSUME I, pc = "done", NEW r \in atStart \ moved
               PROVE  times[r] > 0
    BY DEF NoneMissed
  <2>1. times[r] # 0
    BY DEF MissInv, Awaited
  <2>2. times[r] \in Nat
    BY DEF TypeOK
  <2> QED
    BY <2>1, <2>2
<1> QED
  BY <1>1, <1>2, <1>3, PTL DEF Spec

-----------------------------------------------------------------------------
(* Nothing is listed twice without a cause *)

\* While no other row was written, a row that is collected lies within the
\* pages that were read.
Passed(r) == /\ times[r] <= 1
             /\ times[r] = 1 => /\ r \in visible
                                /\ pc = "page" => Rank(r) < offset
                                /\ pc = "count" => Rank(r) < offset + PageSize

TwiceInv == \A r \in Rows : moved \subseteq {r} => Passed(r)

LEMMA TwiceStep ==
    ASSUME TypeOK, TypeOK', Stamped, Fresh, TwiceInv, [Next]_vars
    PROVE  TwiceInv'
<1>1. offset \in Nat /\ PageSize \in Nat
  BY PagingSizes DEF TypeOK
<1>2. ASSUME NEW w \in Rows, CommitWrite(w) PROVE TwiceInv'
  <2> SUFFICES ASSUME NEW r \in Rows, moved' \subseteq {r} PROVE Passed(r)'
    BY DEF TwiceInv
  <2>1. CASE pc = "idle"
    BY <1>2, <2>1 DEF Fresh, CommitWrite, Passed
  <2>2. CASE pc # "idle"
    <3>1. w = r /\ Passed(r)
      BY <1>2, <2>2 DEF CommitWrite, TwiceInv
    <3>2. UNCHANGED <<pc, offset, times>> /\ visible \subseteq visible'
      BY <1>2 DEF CommitWrite
    <3>3. ASSUME r \in visible
          PROVE  Rank(r)' <= Rank(r) /\ Rank(r) \in Nat /\ Rank(r)' \in Nat
      <4>1. Rank(r)' <= Rank(r)
        BY <1>2, <3>1, <3>3, RankOfWritten
      <4>2. Rank(r) \in Nat
        BY RankType
      <4>3. Ahead(r)' \in SUBSET Rows
        BY DEF Ahead, TypeOK
      <4>4. Rank(r)' \in Nat
        BY <4>3, RowsFinite DEF Rank
      <4> QED
        BY <4>1, <4>2, <4>4
    <3> QED
      BY <1>1, <3>1, <3>2, <3>3 DEF Passed
  <2> QED
    BY <2>1, <2>2
<1>3. ASSUME UNCHANGED <<visible, stamp, moved>>,
             BeginList \/ ReadPage \/ ReadCount \/ ReadFails
      PROVE  TwiceInv'
  <2> SUFFICES ASSUME NEW r \in Rows, moved \subseteq {r} PROVE Passed(r)'
    BY <1>3 DEF TwiceInv
  <2>1. Rank(r)' = Rank(r) /\ Rank(r) \in Nat
    BY <1>3, RankKept, RankType
  <2>2. Passed(r) /\ times[r] \in Nat
    BY DEF TwiceInv, TypeOK
  <2>3. CASE BeginList
    BY <2>2, <2>3 DEF BeginList, Fresh, Passed
  <2>4. CASE ReadPage
    <3>1. pc = "page" /\ visible' = visible
      BY <2>4 DEF ReadPage
    <3>2. /\ times'[r] = (IF r \in Page THEN times[r] + 1 ELSE times[r])
          /\ pc' # "count" => offset' = offset + PageSize \/ pc' = "done"
          /\ pc' = "count" => offset' = offset
      BY <1>1, <2>4 DEF ReadPage, Turn, Advance
    <3>3. r \in Page => r \in visible /\ Rank(r) >= offset
                                      /\ Rank(r) < offset + PageSize
      BY <1>1, <2>1 DEF Page
    <3>4. \/ times[r] = 0
          \/ times[r] = 1 /\ r \in visible /\ Rank(r) < offset
      <4>1. times[r] = 0 \/ times[r] = 1
        BY <2>2 DEF Passed
      <4> QED
        BY <2>2, <3>1, <4>1 DEF Passed
    <3>5. \/ times'[r] = 0
          \/ times'[r] = 1 /\ r \in visible /\ Rank(r) < offset + PageSize
      BY <1>1, <2>1, <3>2, <3>3, <3>4
    <3> QED
      BY <2>1, <3>1, <3>2, <3>5 DEF Passed
  <2>5. CASE ReadCount
    BY <1>1, <2>1, <2>2, <2>5 DEF ReadCount, Turn, Advance, Passed
  <2>6. CASE ReadFails
    BY <2>2, <2>6 DEF ReadFails, Passed
  <2> QED
    BY <1>3, <2>3, <2>4, <2>5, <2>6
<1>4. ASSUME UNCHANGED <<visible, stamp, moved, reader>> PROVE TwiceInv'
  <2>1. \A r : Rank(r)' = Rank(r)
    BY <1>4, RankKept
  <2> QED
    BY <1>4, <2>1 DEF TwiceInv, Passed
<1> QED
  BY <1>2, <1>3, <1>4 DEF Next, Write, BeginWrite, AbortWrite, BeginList,
     ReadPage, ReadCount, ReadFails, Quiet, vars

\* A row that is listed twice was pushed over the border of a page by another
\* one: its own update never doubles it.
THEOREM DoubleHasCause == Spec => []TwiceExplained
<1> DEFINE I == TypeOK /\ Stamped /\ Fresh /\ TwiceInv
<1>1. Init => I
  BY TypeInit, StampedInit DEF Init, Fresh, TwiceInv, Passed
<1>2. I /\ [Next]_vars => I'
  BY TypeStep, StampedStep, FreshStep, TwiceStep
<1>3. I => TwiceExplained
  <2> SUFFICES ASSUME I, NEW r \in Rows, times[r] > 1, moved \ {r} = {}
               PROVE  FALSE
    BY DEF TwiceExplained
  <2>1. times[r] <= 1 /\ times[r] \in Nat
    BY DEF TwiceInv, Passed, TypeOK
  <2> QED
    BY <2>1
<1> QED
  BY <1>1, <1>2, <1>3, PTL DEF Spec

-----------------------------------------------------------------------------
(* The count that goes with a page of users *)

ListInv == list = "users" =>
               /\ pc # "failed" => offset <= Cardinality(visible)
               /\ pc = "count" => /\ offset <= reached
                                  /\ reached <= Cardinality(visible)
               /\ pc \in {"page", "done"} => reached <= total

LEMMA ListStep ==
    ASSUME TypeOK, TypeOK', Fresh, ListInv, [Next]_vars
    PROVE  ListInv'
<1>1. /\ offset \in Nat /\ PageSize \in Nat /\ reached \in Nat /\ total \in Nat
      /\ Cardinality(visible) \in Nat /\ Cardinality(Page) \in Nat
  <2>1. Cardinality(visible) \in Nat /\ Cardinality(Page) \in Nat
    BY PageFinite
  <2> QED
    BY <2>1, PagingSizes DEF TypeOK
<1>2. ASSUME NEW w \in Rows, CommitWrite(w) PROVE ListInv'
  <2>1. visible \subseteq visible' /\ visible' \in SUBSET Rows
    BY <1>2 DEF CommitWrite, TypeOK
  <2>2. /\ Cardinality(visible) <= Cardinality(visible')
        /\ Cardinality(visible') \in Nat
    BY <2>1, RowsFinite, FS_Subset
  <2> QED
    BY <1>1, <1>2, <2>2 DEF CommitWrite, ListInv
<1>3. CASE BeginList
  BY <1>1, <1>3 DEF BeginList, Fresh, ListInv
<1>4. CASE ReadPage
  <2>1. ASSUME list = "users"
        PROVE  offset + Cardinality(Page) <= Cardinality(visible)
    BY <1>4, <2>1, PageWithinTable DEF ReadPage, ListInv
  <2> QED
    BY <1>1, <1>4, <2>1 DEF ReadPage, ListInv
<1>5. CASE ReadCount
  BY <1>1, <1>5 DEF ReadCount, CountUsers, Turn, Advance, ListInv
<1>6. CASE ReadFails
  BY <1>6 DEF ReadFails, ListInv
<1>7. CASE UNCHANGED <<list, visible, reader>>
  BY <1>7 DEF ListInv
<1> QED
  BY <1>2, <1>3, <1>4, <1>5, <1>6, <1>7 DEF Next, Write, BeginWrite, AbortWrite,
     Quiet, vars

\* The users gone through are never more than the count that comes with a page.
THEOREM CountCoversList == Spec => []ListWithinCount
<1> DEFINE I == TypeOK /\ Fresh /\ ListInv
<1>1. Init => I
  BY TypeInit, FS_EmptySet DEF Init, Fresh, ListInv
<1>2. I /\ [Next]_vars => I'
  BY TypeStep, FreshStep, ListStep
<1>3. I => ListWithinCount
  BY DEF ListInv, ListWithinCount
<1> QED
  BY <1>1, <1>2, <1>3, PTL DEF Spec

-----------------------------------------------------------------------------
(* A list nobody disturbs is exact *)

\* A page that is not full ends with the last row of the table.
LEMMA ShortPage ==
    ASSUME TypeOK, Stamped, offset <= Cardinality(visible),
           Cardinality(Page) < PageSize
    PROVE  offset + Cardinality(Page) = Cardinality(visible)
<1> DEFINE L == {r \in visible : Rank(r) < offset}
<1>1. offset \in Nat /\ PageSize \in Nat
  BY PagingSizes DEF TypeOK
<1>2. Cardinality(L) <= offset
  BY <1>1, PassedPages
<1>3. visible \subseteq L \cup Page
  <2> SUFFICES ASSUME NEW r \in visible PROVE r \in L \cup Page
    OBVIOUS
  <2>1. Rank(r) \in Nat /\ Cardinality(Page) \in Nat
    BY RankType, PageFinite
  <2>2. Rank(r) < offset + PageSize
    BY <1>1, <2>1, FullPage
  <2> QED
    BY <1>1, <2>1, <2>2 DEF Page
<1>4. L \in SUBSET Rows /\ Page \in SUBSET Rows /\ visible \in SUBSET Rows
  BY DEF TypeOK, Page
<1> HIDE DEF L
<1>5. /\ IsFiniteSet(L) /\ Cardinality(L) \in Nat
      /\ IsFiniteSet(Page) /\ Cardinality(Page) \in Nat
      /\ Cardinality(visible) \in Nat
  BY <1>4, RowsFinite
<1>6. /\ IsFiniteSet(L \cup Page) /\ Cardinality(L \cup Page) \in Nat
      /\ Cardinality(L \cup Page) <= Cardinality(L) + Cardinality(Page)
  BY <1>5, UnionSize
<1>7. Cardinality(visible) <= Cardinality(L \cup Page)
  BY <1>3, <1>6, FS_Subset
<1>8. offset + Cardinality(Page) <= Cardinality(visible)
  BY PageWithinTable
<1> QED
  BY <1>1, <1>2, <1>5, <1>6, <1>7, <1>8

\* A list read to its end while no row was written has each row that is there
\* once and no other; and the users gone through are as many as the count says.
QuietListExact ==
    pc = "done" /\ moved = {} =>
        /\ \A r \in Rows : times[r] = IF r \in atStart THEN 1 ELSE 0
        /\ list = "users" => reached = total /\ total = Cardinality(atStart)

\* Only a commit changes the table, and a last page of users is not full.
QuietInv ==
    /\ pc # "idle" => visible = atStart \cup moved
    /\ \A r \in Rows : times[r] > 0 => r \in visible
    /\ list = "users" /\ moved = {} =>
           /\ pc = "count" /\ reached < offset + PageSize =>
                  reached = Cardinality(visible)
           /\ pc = "done" => reached = Cardinality(visible) /\ total = reached

LEMMA QuietStep ==
    ASSUME TypeOK, TypeOK', Stamped, Fresh, ListInv, QuietInv, [Next]_vars
    PROVE  QuietInv'
<1>1. /\ offset \in Nat /\ PageSize \in Nat /\ reached \in Nat /\ total \in Nat
      /\ Cardinality(visible) \in Nat /\ Cardinality(Page) \in Nat
  <2>1. Cardinality(visible) \in Nat /\ Cardinality(Page) \in Nat
    BY PageFinite
  <2> QED
    BY <2>1, PagingSizes DEF TypeOK
<1>2. ASSUME NEW w \in Rows, CommitWrite(w) PROVE QuietInv'
  <2>1. pc # "idle" => moved' # {}
    BY <1>2 DEF CommitWrite
  <2>2. pc # "idle" => visible' = atStart' \cup moved'
    BY <1>2 DEF CommitWrite, QuietInv
  <2>3. \A r \in Rows : times'[r] > 0 => r \in visible'
    BY <1>2 DEF CommitWrite, QuietInv
  <2> QED
    BY <1>2, <2>1, <2>2, <2>3 DEF CommitWrite, QuietInv
<1>3. CASE BeginList
  BY <1>3 DEF BeginList, Fresh, QuietInv
<1>4. CASE ReadPage
  <2>1. pc' # "idle" /\ visible' = atStart' \cup moved'
    BY <1>4 DEF ReadPage, QuietInv, Turn
  <2>2. ASSUME NEW r \in Rows, times'[r] > 0 PROVE r \in visible'
    <3>1. r \in Page \/ times[r] > 0
      BY <1>4, <2>2 DEF ReadPage
    <3> QED
      BY <1>4, <3>1 DEF ReadPage, Page, QuietInv
  <2>3. ASSUME list = "users"
        PROVE  /\ pc' = "count" /\ reached' = offset + Cardinality(Page)
               /\ UNCHANGED <<offset, visible>>
               /\ Cardinality(Page) < PageSize => reached' = Cardinality(visible)
    BY <1>4, <2>3, ShortPage DEF ReadPage, ListInv
  <2>4. ASSUME list = "users", reached' < offset' + PageSize
        PROVE  reached' = Cardinality(visible')
    <3>1. Cardinality(Page) < PageSize
      BY <1>1, <2>3, <2>4
    <3> QED
      BY <2>3, <2>4, <3>1
  <2> QED
    BY <1>4, <2>1, <2>2, <2>3, <2>4 DEF ReadPage, QuietInv
<1>5. CASE ReadCount
  BY <1>1, <1>5 DEF ReadCount, CountUsers, Turn, Advance, QuietInv
<1>6. CASE ReadFails
  BY <1>6 DEF ReadFails, QuietInv
<1>7. CASE UNCHANGED <<list, visible, reader, history>>
  BY <1>7 DEF QuietInv
<1> QED
  BY <1>2, <1>3, <1>4, <1>5, <1>6, <1>7 DEF Next, Write, BeginWrite, AbortWrite,
     Quiet, vars

\* A list nobody disturbs is exact, whatever the number of its pages and also
\* when its last page is full or empty.
THEOREM QuietListsExact == Spec => []QuietListExact
<1> DEFINE I == /\ TypeOK /\ Stamped /\ Fresh /\ MissInv /\ TwiceInv /\ ListInv
                /\ QuietInv
<1>1. Init => I
  BY TypeInit, StampedInit, FS_EmptySet
     DEF Init, Fresh, MissInv, TwiceInv, Passed, ListInv, QuietInv
<1>2. I /\ [Next]_vars => I'
  BY TypeStep, StampedStep, FreshStep, MissStep, TwiceStep, ListStep, QuietStep
<1>3. I => QuietListExact
  <2> SUFFICES ASSUME I, pc = "done", moved = {} PROVE QuietListExact
    BY DEF QuietListExact
  <2>1. visible = atStart
    BY DEF QuietInv
  <2>2. ASSUME NEW r \in Rows PROVE times[r] = IF r \in atStart THEN 1 ELSE 0
    <3>1. times[r] \in Nat /\ times[r] <= 1
      BY DEF TypeOK, TwiceInv, Passed
    <3>2. r \in atStart => times[r] # 0
      BY DEF MissInv, Awaited
    <3>3. times[r] > 0 => r \in atStart
      BY <2>1 DEF QuietInv
    <3> QED
      BY <3>1, <3>2, <3>3
  <2> QED
    BY <2>1, <2>2 DEF QuietListExact, QuietInv
<1> QED
  BY <1>1, <1>2, <1>3, PTL DEF Spec
=============================================================================
