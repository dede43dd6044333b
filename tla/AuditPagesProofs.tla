-------------------------- MODULE AuditPagesProofs --------------------------
(***************************************************************************)
(* Theorems about AuditPages for every size of page, any number of rows    *)
(* and any timestamps, equal ones included.  The rows of an instant that a *)
(* reading has not met yet lie beyond the pages read so far, and stay      *)
(* there: rows that are inserted only push them further down the list, and *)
(* those that are purged were below them.                                  *)
(***************************************************************************)
EXTENDS AuditPages, FiniteSetTheorems, TLAPS

\* The rows that every order of the list puts before x.
Newer(x, f) == {y \in Matching(f) : y.at > x.at}

\* Nothing in the set has the timestamp of x.
Unmet(x, seen) == \A y \in seen : y.at # x.at

\* Row x comes after the page p that was read as shown.
Beyond(x, p, shown) ==
    /\ Cardinality(Newer(x, filter)) >= Offset(p + 1)
    /\ Cardinality(shown) = PageSize
    /\ \A y \in shown : y.at > x.at

\* Page 1 is still to be read: the pass is about to begin.
Beginning == \E q \in fetches : ~q.done /\ q.page = 1

AnswersOK ==
    \A q \in fetches : q.done =>
        /\ Cardinality(q.rows) <= PageSize
        /\ \A x \in q.rows : q.filter \in {NULL, x.action}

\* A pass without overlap: the one request in flight is for the page selected,
\* and the instants of the pass not met yet are beyond what was read.
PassOK ==
    pass.clean =>
        /\ ~error
        /\ \A q \in fetches : fetches = {q} /\ q.page = page /\ q.filter = filter
        /\ ~Beginning => pass.since \subseteq Matching(filter)
        /\ fetches = {} =>
              /\ \A x \in logs : filter \in {NULL, x.action}
              /\ \A x \in pass.since : Unmet(x, pass.read) => Beyond(x, page, logs)
        /\ \A q \in fetches :
              /\ ~q.done /\ q.page # 1 =>
                    \A x \in pass.since :
                        Unmet(x, pass.read) => Cardinality(Newer(x, filter)) >= Offset(page)
              /\ q.done =>
                    \A x \in pass.since :
                        Unmet(x, pass.read \cup q.rows) => Beyond(x, page, q.rows)

IInv == TypeOK /\ AnswersOK /\ PassOK

-----------------------------------------------------------------------------
(* The pages of a list ordered by time. *)

LEMMA OffsetFacts ==
    ASSUME NEW p \in Nat \ {0}
    PROVE  /\ Offset(p) \in Nat
           /\ Offset(p + 1) = Offset(p) + PageSize
           /\ Offset(1) = 0
<1>1. PageSize \in Nat \ {0}
  BY PagesAssumption
<1>2. (p - 1) * PageSize \in Nat /\ ((p + 1) - 1) * PageSize = (p - 1) * PageSize + PageSize
  BY <1>1, Z3
<1> QED BY <1>1, <1>2 DEF Offset

\* The ids of rows differ, so there are finitely many.
RowsFinite == IsFiniteSet(rows)

LEMMA FiniteRows == TypeOK => RowsFinite
<1> SUFFICES ASSUME TypeOK PROVE IsFiniteSet(rows)
  BY DEF RowsFinite
<1> DEFINE ident == [x \in rows |-> x.id]
<1>1. ident \in [rows -> Ids]
  BY DEF TypeOK, Row
<1>2. \A x, y \in rows : ident[x] = ident[y] => x = y
  BY DEF TypeOK
<1>3. ident \in Injection(rows, Ids)
  BY <1>1, <1>2 DEF Injection, IsInjective
<1> QED BY <1>3, FS_Injection, PagesAssumption

LEMMA NextFiniteRows == TypeOK' => RowsFinite'
BY FiniteRows, PTL

\* Sets of matching rows can be counted.
LEMMA RowsCount ==
    ASSUME TypeOK, NEW f, NEW T \in SUBSET Matching(f)
    PROVE  IsFiniteSet(T) /\ Cardinality(T) \in Nat
<1>1. T \in SUBSET rows
  BY DEF Matching
<1>2. IsFiniteSet(T)
  BY <1>1, FiniteRows, FS_Subset DEF RowsFinite
<1> QED BY <1>2, FS_CardinalityType

LEMMA NewerCount ==
    ASSUME TypeOK, NEW x, NEW f
    PROVE  IsFiniteSet(Newer(x, f)) /\ Cardinality(Newer(x, f)) \in Nat
<1>1. Newer(x, f) \in SUBSET Matching(f)
  BY DEF Newer
<1> QED BY <1>1, RowsCount

\* What an answer consists of: the rows skipped, then those of the page.
LEMMA PageParts ==
    ASSUME TypeOK, NEW f, NEW p \in Nat \ {0}, NEW answer \in ListLogs(f, p),
           NEW skipped \in First(f, Offset(p)), skipped \cap answer = {},
           skipped \cup answer \in First(f, Offset(p) + PageSize)
    PROVE  /\ Cardinality(skipped) \in Nat /\ Cardinality(answer) \in Nat
           /\ Cardinality(skipped \cup answer) = Cardinality(skipped) + Cardinality(answer)
           /\ Cardinality(skipped) <= Offset(p)
           /\ Cardinality(skipped) = Offset(p) \/ skipped = Matching(f)
           /\ Cardinality(skipped \cup answer) <= Offset(p) + PageSize
           /\ \/ Cardinality(skipped \cup answer) = Offset(p) + PageSize
              \/ skipped \cup answer = Matching(f)
<1>1. skipped \in SUBSET Matching(f) /\ answer \in SUBSET Matching(f)
  BY DEF First, ListLogs
<1>2. /\ IsFiniteSet(skipped) /\ Cardinality(skipped) \in Nat
      /\ IsFiniteSet(answer) /\ Cardinality(answer) \in Nat
  BY <1>1, RowsCount
<1>3. Cardinality(skipped \cup answer)
         = Cardinality(skipped) + Cardinality(answer) - Cardinality(skipped \cap answer)
  BY <1>2, FS_Union
<1>4. Cardinality(skipped \cap answer) = 0
  BY FS_EmptySet
<1>5. Cardinality(skipped \cup answer) = Cardinality(skipped) + Cardinality(answer)
  BY <1>2, <1>3, <1>4
<1> QED BY <1>2, <1>5 DEF First

\* No answer is longer than a page.
LEMMA PageFits ==
    ASSUME TypeOK, NEW f, NEW p \in Nat \ {0}, NEW answer \in ListLogs(f, p)
    PROVE  Cardinality(answer) <= PageSize
<1>1. PICK skipped \in First(f, Offset(p)) :
         skipped \cap answer = {} /\ skipped \cup answer \in First(f, Offset(p) + PageSize)
  BY DEF ListLogs
<1>2. PageSize \in Nat /\ Offset(p) \in Nat
  BY PagesAssumption, OffsetFacts
<1>3. CASE skipped = Matching(f)
  <2>1. answer = {}
    BY <1>1, <1>3 DEF ListLogs
  <2> QED BY <1>2, <2>1, FS_EmptySet
<1>4. CASE skipped # Matching(f)
  <2>1. /\ Cardinality(skipped) = Offset(p) /\ Cardinality(answer) \in Nat
        /\ Cardinality(skipped \cup answer) = Cardinality(skipped) + Cardinality(answer)
        /\ Cardinality(skipped \cup answer) <= Offset(p) + PageSize
    BY <1>1, <1>4, PageParts
  <2>2. Offset(p) + Cardinality(answer) <= Offset(p) + PageSize
    BY <2>1
  <2> QED BY <1>2, <2>1, <2>2
<1> QED BY <1>3, <1>4

\* The rows skipped before a page are newer than x if as many rows are.
LEMMA SkippedAreNewer ==
    ASSUME TypeOK, NEW f, NEW n \in Nat, NEW x \in Matching(f),
           Cardinality(Newer(x, f)) >= n, NEW skipped \in First(f, n)
    PROVE  skipped \subseteq Newer(x, f)
<1> SUFFICES ASSUME NEW z \in skipped, z \notin Newer(x, f) PROVE FALSE
  OBVIOUS
<1>1. /\ skipped \in SUBSET Matching(f) /\ Cardinality(skipped) <= n
      /\ \A t \in skipped, y \in Matching(f) \ skipped : t.at >= y.at
  BY DEF First
<1>2. \A y \in Matching(f) : y.at \in Int
  BY DEF TypeOK, Row, Matching
<1>3. z \in Matching(f) /\ ~(z.at > x.at)
  BY <1>1 DEF Newer
<1>4. Newer(x, f) \in SUBSET skipped
  BY <1>1, <1>2, <1>3 DEF Newer
<1>5. IsFiniteSet(skipped) /\ Cardinality(skipped) \in Nat
  BY <1>1, RowsCount
<1>6. Cardinality(Newer(x, f)) \in Nat
  BY NewerCount
<1>7. /\ Cardinality(Newer(x, f)) <= Cardinality(skipped)
      /\ Cardinality(skipped) = Cardinality(Newer(x, f)) => skipped = Newer(x, f)
  BY <1>4, <1>5, FS_Subset
<1>8. Cardinality(skipped) = Cardinality(Newer(x, f))
  BY <1>1, <1>5, <1>6, <1>7
<1> QED BY <1>7, <1>8

\* A row of the list that is not before page p, and whose instant the answer for
\* page p does not show, is beyond page p: in whatever order the query put rows of
\* equal timestamps.
LEMMA NotYetRead ==
    ASSUME TypeOK, NEW p \in Nat \ {0}, NEW x \in Matching(filter),
           Cardinality(Newer(x, filter)) >= Offset(p),
           NEW answer \in ListLogs(filter, p), Unmet(x, answer)
    PROVE  Beyond(x, p, answer)
<1>1. PICK skipped \in First(filter, Offset(p)) :
         /\ skipped \cap answer = {}
         /\ skipped \cup answer \in First(filter, Offset(p) + PageSize)
  BY DEF ListLogs
<1>2. PageSize \in Nat /\ Offset(p) \in Nat /\ Offset(p + 1) = Offset(p) + PageSize
  BY PagesAssumption, OffsetFacts
<1>3. skipped \subseteq Newer(x, filter)
  BY <1>2, SkippedAreNewer
<1>4. \A y \in Matching(filter) : y.at \in Int
  BY DEF TypeOK, Row, Matching
<1>5. x \notin skipped \cup answer
  BY <1>3, <1>4 DEF Newer, Unmet
<1>6. /\ Cardinality(skipped) = Offset(p)
      /\ Cardinality(skipped \cup answer) = Offset(p) + PageSize
      /\ Cardinality(answer) = PageSize
  <2>1. skipped # Matching(filter) /\ skipped \cup answer # Matching(filter)
    BY <1>5
  <2>2. /\ Cardinality(skipped) \in Nat /\ Cardinality(answer) \in Nat
        /\ Cardinality(skipped \cup answer) = Cardinality(skipped) + Cardinality(answer)
        /\ Cardinality(skipped) = Offset(p)
        /\ Cardinality(skipped \cup answer) = Offset(p) + PageSize
    BY <1>1, <2>1, PageParts
  <2> QED BY <1>2, <2>2
<1>7. \A y \in skipped \cup answer : y.at >= x.at
  BY <1>1, <1>5 DEF First
<1>8. answer \subseteq Matching(filter)
  BY DEF ListLogs
<1>9. \A y \in answer : y.at > x.at
  BY <1>4, <1>7, <1>8 DEF Unmet
<1>10. skipped \cup answer \in SUBSET Newer(x, filter)
  BY <1>3, <1>8, <1>9 DEF Newer
<1>11. IsFiniteSet(Newer(x, filter)) /\ Cardinality(Newer(x, filter)) \in Nat
  BY NewerCount
<1>12. Cardinality(skipped \cup answer) <= Cardinality(Newer(x, filter))
  BY <1>10, <1>11, FS_Subset
<1>13. Cardinality(Newer(x, filter)) >= Offset(p + 1)
  BY <1>2, <1>6, <1>12
<1> QED BY <1>6, <1>9, <1>13 DEF Beyond

-----------------------------------------------------------------------------
(* The table changes under a pass. *)

\* Rows that come and go leave what is left of a pass as far down the list as it
\* was, or push it further.
LEMMA NewerStays ==
    ASSUME TypeOK, TypeOK', UNCHANGED filter, NEW x \in Matching(filter), x \in rows',
           \A y \in rows \ rows' : y.at < x.at
    PROVE  /\ x \in Matching(filter)'
           /\ Cardinality(Newer(x, filter)) \in Nat /\ Cardinality(Newer(x, filter))' \in Nat
           /\ Cardinality(Newer(x, filter)) <= Cardinality(Newer(x, filter))'
<1>1. x \in Matching(filter)'
  BY DEF Matching
<1>2. x.at \in Int /\ \A y \in rows : y.at \in Int
  BY DEF TypeOK, Row, Matching
<1>3. PICK N : N = Newer(x, filter)'
  OBVIOUS
<1>4. Newer(x, filter) \in SUBSET N
  BY <1>2, <1>3 DEF Newer, Matching
<1>5. N \in SUBSET rows'
  BY <1>3 DEF Newer, Matching
<1>6. PICK R : R = rows' /\ IsFiniteSet(R)
  BY NextFiniteRows DEF RowsFinite
<1>7. IsFiniteSet(N) /\ Cardinality(N) \in Nat
  BY <1>5, <1>6, FS_Subset, FS_CardinalityType
<1>8. Cardinality(Newer(x, filter)) <= Cardinality(N)
  BY <1>4, <1>7, FS_Subset
<1>9. Cardinality(Newer(x, filter)) \in Nat
  BY NewerCount
<1>10. Cardinality(Newer(x, filter))' = Cardinality(N)
  BY <1>3
<1> QED BY <1>1, <1>7, <1>8, <1>9, <1>10

LEMMA TableStep ==
    ASSUME IInv, TypeOK', UNCHANGED <<page, filter, logs, loading, error, fetches>>,
           pass'.clean = pass.clean, pass'.read = pass.read, pass'.since \subseteq pass.since,
           \A x \in pass'.since : x \in rows => x \in rows' /\ \A y \in rows \ rows' : y.at < x.at
    PROVE  IInv'
<1>1. AnswersOK'
  BY DEF IInv, AnswersOK
<1>2. PassOK'
  <2> SUFFICES ASSUME pass.clean PROVE PassOK'
    BY DEF PassOK
  <2>1. Beginning' = Beginning
    BY DEF Beginning
  <2>2. ASSUME ~Beginning, NEW x \in pass'.since
        PROVE  /\ x \in pass.since /\ x \in Matching(filter) /\ x \in Matching(filter)'
               /\ Cardinality(Newer(x, filter)) \in Nat /\ Cardinality(Newer(x, filter))' \in Nat
               /\ Cardinality(Newer(x, filter)) <= Cardinality(Newer(x, filter))'
    <3>1. x \in pass.since /\ x \in Matching(filter)
      BY <2>2 DEF IInv, PassOK
    <3>2. x \in rows
      BY <3>1 DEF Matching
    <3> QED BY <3>1, <3>2, NewerStays DEF IInv
  <2>3. page \in Nat \ {0} /\ Offset(page) \in Int /\ Offset(page + 1) \in Int
    <3>1. page \in Nat \ {0}
      BY PagesAssumption DEF IInv, TypeOK
    <3> QED BY <3>1, OffsetFacts, PagesAssumption
  <2>4. ASSUME ~Beginning, NEW x \in pass'.since, NEW shown, Beyond(x, page, shown)
        PROVE  Beyond(x, page, shown)'
    BY <2>2, <2>3, <2>4 DEF Beyond, Offset
  <2>5. ~error' /\ \A q \in fetches' : fetches' = {q} /\ q.page = page' /\ q.filter = filter'
    BY DEF IInv, PassOK
  <2>6. ~Beginning' => pass'.since \subseteq Matching(filter)'
    BY <2>1, <2>2
  <2>7. ASSUME fetches' = {}
        PROVE  /\ \A x \in logs' : filter' \in {NULL, x.action}
               /\ \A x \in pass'.since : Unmet(x, pass'.read) => Beyond(x, page, logs)'
    <3>1. ~Beginning
      BY <2>7 DEF Beginning
    <3>2. \A x \in pass.since : Unmet(x, pass.read) => Beyond(x, page, logs)
      BY <2>7 DEF IInv, PassOK
    <3>3. \A x \in pass'.since : Unmet(x, pass'.read) => Beyond(x, page, logs)'
      BY <2>4, <3>1, <3>2
    <3> QED BY <2>7, <3>3 DEF IInv, PassOK
  <2>8. ASSUME NEW q \in fetches', ~q.done, q.page # 1,
               NEW x \in pass'.since, Unmet(x, pass'.read)
        PROVE  Cardinality(Newer(x, filter))' >= Offset(page)'
    <3>1. ~Beginning
      BY <2>8 DEF IInv, PassOK, Beginning
    <3>2. Cardinality(Newer(x, filter)) >= Offset(page)
      BY <2>8 DEF IInv, PassOK
    <3>3. Offset(page)' = Offset(page)
      BY DEF Offset
    <3> QED BY <2>2, <2>3, <3>1, <3>2, <3>3
  <2>9. ASSUME NEW q \in fetches', q.done, NEW x \in pass'.since, Unmet(x, pass'.read \cup q.rows)
        PROVE  Beyond(x, page, q.rows)'
    <3>1. ~Beginning
      BY <2>9 DEF IInv, PassOK, Beginning
    <3>2. Beyond(x, page, q.rows)
      BY <2>9 DEF IInv, PassOK
    <3> QED BY <2>4, <2>9, <3>1, <3>2
  <2> QED BY <2>5, <2>6, <2>7, <2>8, <2>9 DEF PassOK, Unmet
<1> QED BY <1>1, <1>2 DEF IInv

LEMMA InsertIInv ==
    ASSUME IInv, NEW x \in Row, Insert(x)
    PROVE  IInv'
<1>1. TypeOK'
  BY DEF IInv, TypeOK, Insert
<1>2. rows \ rows' = {} /\ rows \subseteq rows' /\ pass' = pass
  BY DEF Insert
<1> QED BY <1>1, <1>2, TableStep DEF Insert

LEMMA PurgeIInv ==
    ASSUME IInv, NEW cutoff \in 1 .. MaxTime, Purge(cutoff)
    PROVE  IInv'
<1>1. pass \in [clean : BOOLEAN, since : SUBSET Row, read : SUBSET Row]
  BY DEF IInv, TypeOK
<1>2. /\ pass'.clean = pass.clean /\ pass'.read = pass.read
      /\ pass'.since = pass.since \cap rows'
      /\ pass' \in [clean : BOOLEAN, since : SUBSET Row, read : SUBSET Row]
  BY <1>1 DEF Purge
<1>3. TypeOK'
  BY <1>2 DEF IInv, TypeOK, Purge
<1>4. ASSUME NEW x \in pass'.since, NEW y \in rows \ rows'
      PROVE  y.at < x.at
  BY <1>2 DEF IInv, TypeOK, Row, Purge
<1> QED BY <1>2, <1>3, <1>4, TableStep DEF Purge

-----------------------------------------------------------------------------
(* The page asks and is answered. *)

\* Any request of the page, for a page next to the one selected or for page 1.
LEMMA FetchIInv ==
    ASSUME IInv, NEW p \in 1 .. MaxPage, NEW f \in Filters, FetchLogs(p, f),
           page' = p, filter' = f, p # 1 => f = filter /\ p <= page + 1
    PROVE  IInv'
<1> DEFINE q == Asking(p, f)
<1>1. /\ q \in Fetch /\ ~q.done /\ q.page = p /\ q.filter = f
      /\ fetches' = fetches \cup {q} /\ error' = FALSE /\ UNCHANGED <<rows, logs>>
  BY DEF FetchLogs, Asking, Fetch, tableVars
<1>2. pass \in [clean : BOOLEAN, since : SUBSET Row, read : SUBSET Row]
  BY DEF IInv, TypeOK
<1>3. /\ pass'.clean => fetches = {} /\ (p = 1 \/ pass' = pass)
      /\ pass' \in [clean : BOOLEAN, since : SUBSET Row, read : SUBSET Row]
  BY <1>2 DEF FetchLogs, NewPass, NoPass
<1> HIDE DEF q
<1>4. TypeOK'
  BY <1>1, <1>3 DEF IInv, TypeOK, FetchLogs, tableVars
<1>5. AnswersOK'
  BY <1>1 DEF IInv, AnswersOK
<1>6. PassOK'
  <2> SUFFICES ASSUME pass'.clean PROVE PassOK'
    BY DEF PassOK
  <2>1. fetches' = {q} /\ (p = 1 \/ (pass' = pass /\ pass.clean)) /\ fetches = {}
    BY <1>1, <1>3
  <2>2. CASE p = 1
    <3>1. Beginning'
      BY <1>1, <2>1, <2>2 DEF Beginning
    <3> QED BY <1>1, <2>1, <2>2, <3>1 DEF PassOK
  <2>3. CASE p # 1
    <3>1. pass' = pass /\ pass.clean /\ f = filter /\ p <= page + 1
      BY <2>1, <2>3
    <3>2. ~Beginning /\ pass.since \subseteq Matching(filter)
          /\ \A x \in pass.since : Unmet(x, pass.read) => Beyond(x, page, logs)
      BY <2>1, <3>1 DEF IInv, PassOK, Beginning
    <3>3. p \in Nat \ {0} /\ page \in Nat \ {0} /\ PageSize \in Nat
      BY PagesAssumption DEF IInv, TypeOK
    <3>4. Offset(p) <= Offset(page + 1)
      <4>1. (p - 1) * PageSize <= ((page + 1) - 1) * PageSize
        BY <3>1, <3>3, Z3
      <4> QED BY <4>1 DEF Offset
    <3>5. Offset(p) \in Int /\ Offset(page + 1) \in Int
      BY <3>3, OffsetFacts
    <3>6. ASSUME NEW x \in pass.since, Unmet(x, pass.read)
          PROVE  Cardinality(Newer(x, filter))' >= Offset(page)'
      <4>1. Cardinality(Newer(x, filter)) >= Offset(page + 1)
        BY <3>2, <3>6 DEF Beyond
      <4>2. Cardinality(Newer(x, filter)) \in Nat
        BY NewerCount DEF IInv
      <4>3. Cardinality(Newer(x, filter))' = Cardinality(Newer(x, filter)) /\ Offset(page)' = Offset(p)
        BY <1>1, <3>1 DEF Newer, Matching, Offset
      <4> QED BY <3>4, <3>5, <4>1, <4>2, <4>3
    <3>7. pass'.since \subseteq Matching(filter)'
      BY <1>1, <3>1, <3>2 DEF Matching
    <3> QED BY <1>1, <2>1, <2>3, <3>1, <3>6, <3>7 DEF PassOK, Unmet
  <2> QED BY <2>2, <2>3
<1> QED BY <1>4, <1>5, <1>6 DEF IInv

LEMMA ExecuteIInv ==
    ASSUME IInv, NEW q \in fetches, Execute(q)
    PROVE  IInv'
<1>0. PICK answer \in ListLogs(q.filter, q.page) :
         fetches' = (fetches \ {q}) \cup {[q EXCEPT !.done = TRUE, !.rows = answer]}
  BY DEF Execute
<1>00. PICK a : a = [q EXCEPT !.done = TRUE, !.rows = answer]
  OBVIOUS
<1>1. q \in Fetch /\ ~q.done /\ q.page \in Nat \ {0}
  BY PagesAssumption DEF IInv, TypeOK, Execute, Fetch
<1>2. /\ a \in Fetch /\ a.done /\ a.page = q.page /\ a.filter = q.filter
      /\ a.rows = answer
  BY <1>00, <1>1 DEF Fetch, ListLogs, Matching, IInv, TypeOK
<1>3. /\ fetches' = (fetches \ {q}) \cup {a}
      /\ UNCHANGED <<rows, purged, page, filter, logs, loading, error>>
  BY <1>0, <1>00 DEF Execute, tableVars
<1>4. pass \in [clean : BOOLEAN, since : SUBSET Row, read : SUBSET Row]
  BY DEF IInv, TypeOK
<1>5. /\ pass'.clean = pass.clean
      /\ pass.clean /\ q.page = 1 => pass'.since = Matching(q.filter) /\ pass'.read = {}
      /\ ~(pass.clean /\ q.page = 1) => pass' = pass
      /\ pass' \in [clean : BOOLEAN, since : SUBSET Row, read : SUBSET Row]
  <2>1. Matching(q.filter) \subseteq Row
    BY DEF IInv, TypeOK, Matching
  <2> QED BY <1>4, <2>1 DEF Execute
<1>6. TypeOK'
  BY <1>2, <1>3, <1>5 DEF IInv, TypeOK
<1>7. AnswersOK'
  <2>1. Cardinality(a.rows) <= PageSize
    BY <1>1, <1>2, PageFits DEF IInv
  <2>2. \A x \in a.rows : a.filter \in {NULL, x.action}
    BY <1>2 DEF ListLogs, Matching
  <2> QED BY <1>3, <2>1, <2>2 DEF IInv, AnswersOK
<1>8. PassOK'
  <2> SUFFICES ASSUME pass.clean PROVE PassOK'
    BY <1>5 DEF PassOK
  <2>1. fetches = {q} /\ q.page = page /\ q.filter = filter /\ ~error
    BY DEF IInv, PassOK
  <2>2. fetches' = {a} /\ ~Beginning'
    BY <1>2, <1>3, <2>1 DEF Beginning
  <2>3. page \in Nat \ {0} /\ Offset(page) \in Nat /\ Offset(1) = 0
    BY <1>1, <2>1, OffsetFacts
  <2>4. pass'.since \subseteq Matching(filter)
        /\ \A x \in pass'.since :
              Unmet(x, pass'.read) => Cardinality(Newer(x, filter)) >= Offset(page)
    <3>1. CASE page = 1
      <4>1. pass'.since = Matching(filter) /\ pass'.read = {}
        BY <1>5, <2>1, <3>1
      <4>2. \A x \in Matching(filter) : Cardinality(Newer(x, filter)) >= 0
        <5> TAKE x \in Matching(filter)
        <5>1. Cardinality(Newer(x, filter)) \in Nat
          BY NewerCount DEF IInv
        <5> QED BY <5>1
      <4> QED BY <2>3, <3>1, <4>1, <4>2
    <3>2. CASE page # 1
      <4>1. pass' = pass /\ ~Beginning
        BY <1>5, <2>1, <3>2 DEF Beginning
      <4> QED BY <1>1, <2>1, <3>2, <4>1 DEF IInv, PassOK
    <3> QED BY <3>1, <3>2
  <2>5. ASSUME NEW x \in pass'.since, Unmet(x, pass'.read \cup a.rows)
        PROVE  Beyond(x, page, a.rows)'
    <3>1. /\ x \in Matching(filter) /\ Cardinality(Newer(x, filter)) >= Offset(page)
          /\ answer \in ListLogs(filter, page) /\ Unmet(x, answer)
      BY <1>2, <2>1, <2>4, <2>5 DEF Unmet
    <3>2. Beyond(x, page, a.rows)
      BY <1>2, <2>1, <2>3, <3>1, NotYetRead DEF IInv
    <3> QED BY <1>3, <3>2 DEF Beyond, Newer, Matching, Offset
  <2>6. pass'.since \subseteq Matching(filter)'
    BY <1>3, <2>4 DEF Matching
  <2> QED BY <1>2, <1>3, <2>1, <2>2, <2>5, <2>6 DEF PassOK, Unmet
<1> QED BY <1>6, <1>7, <1>8 DEF IInv

LEMMA ShowIInv ==
    ASSUME IInv, NEW q \in fetches, Show(q)
    PROVE  IInv'
<1>1. /\ q.done /\ fetches' = fetches \ {q} /\ logs' = q.rows
      /\ UNCHANGED <<rows, purged, page, filter, error>> /\ loading' = FALSE
  BY DEF Show, tableVars
<1>2. pass \in [clean : BOOLEAN, since : SUBSET Row, read : SUBSET Row]
      /\ q.rows \in SUBSET Row /\ Cardinality(q.rows) <= PageSize
  BY <1>1 DEF IInv, TypeOK, AnswersOK, Fetch
<1>3. /\ pass'.clean = pass.clean
      /\ pass.clean => pass'.since = pass.since /\ pass'.read = pass.read \cup q.rows
      /\ pass' \in [clean : BOOLEAN, since : SUBSET Row, read : SUBSET Row]
  BY <1>2 DEF Show
<1>4. TypeOK'
  BY <1>1, <1>2, <1>3 DEF IInv, TypeOK
<1>5. AnswersOK'
  BY <1>1 DEF IInv, AnswersOK
<1>6. PassOK'
  <2> SUFFICES ASSUME pass.clean PROVE PassOK'
    BY <1>3 DEF PassOK
  <2>1. fetches = {q} /\ q.filter = filter /\ ~error /\ ~Beginning
    BY <1>1 DEF IInv, PassOK, Beginning
  <2>2. pass.since \subseteq Matching(filter)
        /\ \A x \in pass.since : Unmet(x, pass.read \cup q.rows) => Beyond(x, page, q.rows)
    BY <1>1, <2>1 DEF IInv, PassOK
  <2>3. \A x \in q.rows : filter \in {NULL, x.action}
    BY <1>1, <2>1 DEF IInv, AnswersOK
  <2>4. \A x \in pass'.since : Unmet(x, pass'.read) => Beyond(x, page, logs)'
    BY <1>1, <1>3, <2>2 DEF Beyond, Newer, Matching, Offset
  <2>5. pass'.since \subseteq Matching(filter)'
    BY <1>1, <1>3, <2>2 DEF Matching
  <2> QED BY <1>1, <2>1, <2>3, <2>4, <2>5 DEF PassOK, Unmet
<1> QED BY <1>4, <1>5, <1>6 DEF IInv

LEMMA FailsIInv ==
    ASSUME IInv, NEW q \in fetches, FetchFails(q)
    PROVE  IInv'
<1>1. pass \in [clean : BOOLEAN, since : SUBSET Row, read : SUBSET Row]
  BY DEF IInv, TypeOK
<1>2. pass'.clean = FALSE /\ pass' \in [clean : BOOLEAN, since : SUBSET Row, read : SUBSET Row]
  BY <1>1 DEF FetchFails, NoPass, NewPass
<1>3. TypeOK'
  BY <1>2 DEF IInv, TypeOK, FetchFails, tableVars
<1>4. AnswersOK'
  BY DEF IInv, AnswersOK, FetchFails
<1>5. PassOK'
  BY <1>2 DEF PassOK
<1> QED BY <1>3, <1>4, <1>5 DEF IInv

-----------------------------------------------------------------------------
\* The page as it opens: no rows, and its first request on the way.
LEMMA InitIInv == Init => IInv
<1> SUFFICES ASSUME Init PROVE IInv
  OBVIOUS
<1>1. /\ rows = {} /\ purged = 0 /\ page = 1 /\ filter = NULL /\ logs = {}
      /\ loading = TRUE /\ error = FALSE
      /\ pass \in [clean : BOOLEAN, since : SUBSET Row, read : SUBSET Row]
  BY DEF Init, NewPass
<1>2. PICK q : fetches = {q} /\ q \in Fetch /\ ~q.done /\ q.page = 1 /\ q.filter = NULL
  <2>1. 1 \in 1 .. MaxPage /\ NULL \in Filters
    BY PagesAssumption DEF Filters
  <2>2. /\ Asking(1, NULL) \in Fetch /\ ~Asking(1, NULL).done
        /\ Asking(1, NULL).page = 1 /\ Asking(1, NULL).filter = NULL
    BY <2>1 DEF Asking, Fetch
  <2> QED BY <2>2 DEF Init
<1>3. TypeOK
  <2>1. NULL \in Filters /\ MaxTime \in Nat /\ PageSize \in Nat
    BY PagesAssumption DEF Filters
  <2>2. Cardinality({}) <= PageSize /\ 0 \in 0 .. MaxTime
    BY <2>1, FS_EmptySet
  <2>3. 1 \in 1 .. MaxPage
    BY PagesAssumption
  <2> QED BY <1>1, <1>2, <2>1, <2>2, <2>3 DEF TypeOK
<1>4. AnswersOK
  BY <1>2 DEF AnswersOK
<1>5. Beginning
  BY <1>2 DEF Beginning
<1>6. PassOK
  BY <1>1, <1>2, <1>5 DEF PassOK
<1> QED BY <1>3, <1>4, <1>6 DEF IInv

LEMMA NextIInv == IInv /\ [Next]_vars => IInv'
<1> SUFFICES ASSUME IInv, [Next]_vars PROVE IInv'
  OBVIOUS
<1>0. page \in 1 .. MaxPage /\ filter \in Filters /\ MaxPage \in Nat \ {0}
  BY PagesAssumption DEF IInv, TypeOK
<1>1. ASSUME NEW x \in Row, Insert(x) PROVE IInv'
  BY <1>1, InsertIInv
<1>2. ASSUME NEW cutoff \in 1 .. MaxTime, Purge(cutoff) PROVE IInv'
  BY <1>2, PurgeIInv
<1>3. CASE Refresh
  BY <1>0, <1>3, FetchIInv DEF Refresh
<1>4. CASE Prev
  <2>1. page - 1 \in 1 .. MaxPage /\ page - 1 <= page + 1
    BY <1>0, <1>4 DEF Prev
  <2> QED BY <1>0, <1>4, <2>1, FetchIInv DEF Prev
<1>5. CASE NextPage
  <2>1. page + 1 \in 1 .. MaxPage /\ page + 1 <= page + 1
    BY <1>0, <1>5 DEF NextPage
  <2> QED BY <1>0, <1>5, <2>1, FetchIInv DEF NextPage
<1>6. ASSUME NEW f \in Filters, SelectFilter(f) PROVE IInv'
  <2>1. 1 \in 1 .. MaxPage
    BY <1>0
  <2> QED BY <1>6, <2>1, FetchIInv DEF SelectFilter
<1>7. ASSUME NEW q \in fetches, Execute(q) \/ Show(q) \/ FetchFails(q) PROVE IInv'
  BY <1>7, ExecuteIInv, ShowIInv, FailsIInv
<1>8. CASE UNCHANGED vars
  <2>1. TypeOK' /\ AnswersOK'
    BY <1>8 DEF vars, IInv, TypeOK, AnswersOK
  <2>2. PassOK' = PassOK
    BY <1>8 DEF vars, PassOK, Beginning, Beyond, Matching, Newer, Unmet
  <2> QED BY <2>1, <2>2 DEF IInv
<1> QED BY <1>1, <1>2, <1>3, <1>4, <1>5, <1>6, <1>7, <1>8 DEF Next

LEMMA Invariance == Spec => []IInv
BY InitIInv, NextIInv, PTL DEF Spec

\* Rows, requests and what is shown keep their shapes, and no answer is longer
\* than a page, for any size of page and however many rows and requests there are
\* (list_logs behind AuditLogViewer).
THEOREM PagesTypeCorrect == Spec => []TypeOK
<1>1. IInv => TypeOK
  BY DEF IInv
<1> QED BY <1>1, Invariance, PTL

\* Whoever pages from page 1 without overlap misses no instant of which a row was
\* there all along, for any size of page, any timestamps and any order in which each
\* query puts equal ones, with rows inserted anywhere and purged at the end of the
\* list between any two requests (OFFSET and LIMIT of list_logs).
THEOREM PagesSkipNoInstant == Spec => []NoInstantSkipped
<1>1. IInv => NoInstantSkipped
  <2> SUFFICES ASSUME IInv, pass.clean, Settled, NEW x \in pass.since,
                      Cardinality(logs) < PageSize \/ \E y \in logs : y.at <= x.at,
                      Unmet(x, pass.read)
               PROVE  FALSE
    BY DEF NoInstantSkipped, Unmet
  <2>1. Cardinality(logs) = PageSize /\ \A y \in logs : y.at > x.at
    BY DEF IInv, PassOK, Settled, Beyond
  <2>2. x.at \in Int /\ \A y \in logs : y.at \in Int
    BY DEF IInv, TypeOK, Row
  <2>3. PageSize \in Int
    BY PagesAssumption
  <2> QED BY <2>1, <2>2, <2>3
<1> QED BY <1>1, Invariance, PTL

\* Without overlap the rows on the screen match the filter selected, whichever
\* requests failed before (fetchLogs of AuditLogViewer).
THEOREM PagesShowTheSelection == Spec => []ShownIsSelected
<1>1. IInv => ShownIsSelected
  BY DEF IInv, PassOK, Settled, ShownIsSelected
<1> QED BY <1>1, Invariance, PTL
=============================================================================
