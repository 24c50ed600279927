---------------------------- MODULE ReaderProofs ----------------------------
(* What reads back the log.  Of its walks: PagingInv is inductive, and       *)
(* implies the safety properties of LogPaging, for any log, any page size,   *)
(* any file cap and any number of walks.  Of one call of DuckDB: the scanner *)
(* reads back what was printed, whatever the messages hold, and the call     *)
(* with its timers and signals implements ArchiveCall.                       *)
EXTENDS LogPaging, DuckDb, FiniteSetTheorems, NaturalsInduction, WellFoundedInduction, TLAPS

\* The days of a range are finitely many.
LEMMA DaysFinite == IsFiniteSet(ServedDays)
<1>1. IsFiniteSet(From .. To)
  BY PagingAssumption, FS_Interval
<1> QED BY <1>1, FS_Subset DEF ServedDays

\* While the range holds no more days than MaxFiles, every one of them is read.
LEMMA AllDaysRead ==
  ASSUME Cardinality(ServedDays) <= MaxFiles
  PROVE  ReadDays = ServedDays
<1>1. ASSUME NEW d \in ServedDays
      PROVE  Cardinality({c \in ServedDays : c > d}) < MaxFiles
  <2> DEFINE Later == {c \in ServedDays : c > d}
  <2>1. Later \subseteq ServedDays /\ d \notin Later /\ ServedDays \subseteq Int
    BY PagingAssumption DEF ServedDays
  <2>2. /\ Cardinality(Later) \in Nat /\ Cardinality(ServedDays) \in Nat
        /\ Later # ServedDays
        /\ Cardinality(Later) < Cardinality(ServedDays)
    BY <2>1, DaysFinite, FS_Subset, FS_CardinalityType
  <2> HIDE DEF Later
  <2>3. Cardinality(Later) < MaxFiles
    BY <2>2, PagingAssumption
  <2> QED BY <2>3 DEF Later
<1> QED BY <1>1 DEF ReadDays

\* Archived days only become more.
LEMMA DaysGrow ==
  ASSUME served \subseteq served', Cardinality(ServedDays') <= MaxFiles
  PROVE  Cardinality(ServedDays) <= MaxFiles
<1>1. ServedDays \subseteq ServedDays'
  BY DEF ServedDays
<1>2. IsFiniteSet(ServedDays')
  <2>1. IsFiniteSet(From .. To)
    BY PagingAssumption, FS_Interval
  <2> QED BY <2>1, FS_Subset DEF ServedDays
<1>3. /\ Cardinality(ServedDays) \in Nat /\ Cardinality(ServedDays') \in Nat
      /\ Cardinality(ServedDays) <= Cardinality(ServedDays')
  BY <1>1, <1>2, DaysFinite, FS_Subset, FS_CardinalityType
<1> QED BY <1>3, PagingAssumption

\* Older orders the rows of a tier.
LEMMA OlderOrder ==
  ASSUME NEW k \in Kind, NEW x \in Entry, NEW y \in Entry, NEW z \in Entry
  PROVE  /\ ~Older(k, x, x)
         /\ Older(k, x, y) /\ Older(k, y, z) => Older(k, x, z)
         /\ Older(k, x, y) /\ ~Older(k, z, y) => Older(k, x, z)
         /\ ~Older(k, x, y) /\ ~Older(k, y, z) => ~Older(k, x, z)
         /\ ~Older(k, x, y) /\ ~Older(k, y, x) => Ts[x] = Ts[y] /\ (k = "search" => x = y)
         /\ Past(k, x, y) <=> Older(k, x, y)
BY PagingAssumption DEF Older, Past

-----------------------------------------------------------------------------
\* What a response says of the rows R it was chosen from: each of them is in
\* the page or the next request still asks for it, unless it shares its
\* timestamp, in a stream, with the row the cursor is made of.
LEMMA ReturnReaches ==
  ASSUME NEW w \in Walk, NEW k \in Kind, NEW R \in SUBSET Entry,
         TypeOK, Return(w, k, R)
  PROVE  /\ page' \in [Walk -> SUBSET Entry]
         /\ next' \in [Walk -> BOOLEAN]
         /\ last' \in [Walk -> Entry]
         /\ page'[w] \subseteq R
         /\ \A v \in Walk \ {w} : /\ page'[v] = page[v]
                                  /\ next'[v] = next[v]
                                  /\ last'[v] = last[v]
         /\ next'[w] => /\ last'[w] \in page'[w]
                        /\ \A x \in page'[w] : ~Older(k, x, last'[w])
         /\ \A e \in R \ page'[w] :
              next'[w] /\ (~Older(k, e, last'[w]) => Ts[e] = Ts[last'[w]] /\ k # "search")
<1>1. PICK P \in SUBSET R :
        /\ Cardinality(P) <= Limit
        /\ Cardinality(P) < Limit => P = R
        /\ \A x \in P, y \in R \ P : ~Older(k, x, y)
        /\ page' = [page EXCEPT ![w] = P]
        /\ next' = [next EXCEPT ![w] = Full(P)]
        /\ \E c \in IF P = {} THEN {last[w]} ELSE P :
             /\ \A x \in P : ~Older(k, x, c)
             /\ last' = [last EXCEPT ![w] = c]
  BY DEF Return
<1>2. PICK c \in IF P = {} THEN {last[w]} ELSE P :
        /\ \A x \in P : ~Older(k, x, c)
        /\ last' = [last EXCEPT ![w] = c]
  BY <1>1
<1>3. c \in Entry
  BY <1>2 DEF TypeOK
<1>4. page'[w] = P /\ next'[w] = Full(P) /\ last'[w] = c
  BY <1>1, <1>2 DEF TypeOK
<1>5. IsFiniteSet(P) /\ Cardinality(P) \in Nat
  BY FS_Subset, FS_CardinalityType, PagingAssumption
<1>6. Full(P) => P # {}
  BY PagingAssumption, FS_EmptySet DEF Full
<1>7. ASSUME NEW e \in R \ P
      PROVE  Full(P) /\ (~Older(k, e, c) => Ts[e] = Ts[c] /\ k # "search")
  <2>1. Full(P)
    BY <1>1, <1>5, PagingAssumption DEF Full
  <2>2. c \in P /\ ~Older(k, c, e) /\ e # c
    BY <1>1, <1>2, <1>6, <2>1
  <2>3. ~Older(k, e, c) => Ts[e] = Ts[c] /\ (k = "search" => e = c)
    BY <1>3, <2>2, OlderOrder
  <2> QED BY <2>1, <2>2, <2>3
<1>8. /\ page' \in [Walk -> SUBSET Entry]
      /\ next' \in [Walk -> BOOLEAN]
      /\ last' \in [Walk -> Entry]
  <2>1. Full(P) \in BOOLEAN
    BY DEF Full
  <2> QED BY <1>1, <1>2, <1>3, <2>1 DEF TypeOK
<1>9. \A v \in Walk \ {w} : /\ page'[v] = page[v]
                            /\ next'[v] = next[v]
                            /\ last'[v] = last[v]
  BY <1>1, <1>2 DEF TypeOK
<1> QED BY <1>1, <1>2, <1>4, <1>6, <1>7, <1>8, <1>9

-----------------------------------------------------------------------------
LEMMA PagingInit == Init => PagingInv
<1> SUFFICES ASSUME Init PROVE PagingInv
  OBVIOUS
<1>1. (CHOOSE e \in Entry : TRUE) \in Entry
  BY PagingAssumption
<1>2. TypeOK
  BY <1>1 DEF Init, TypeOK, Kind
<1>3. ASSUME NEW w \in Walk PROVE WalkInv(w)
  BY <1>3 DEF Init, WalkInv, Sought, CursorOf, PageDescends
<1> QED BY <1>2, <1>3 DEF PagingInv

\* A step that leaves a walk alone and only archives, or adds rows that are in
\* neither tier, keeps what is known of it.
LEMMA WalkUntouched ==
  ASSUME NEW w \in Walk, TypeOK, WalkInv(w),
         kind'[w] = kind[w], last'[w] = last[w], next'[w] = next[w],
         page'[w] = page[w], got'[w] = got[w], begun'[w] = begun[w],
         served \subseteq served', hot \subseteq hot' \cup served',
         (hot' \ hot) \cap (hot \cup served) = {}
  PROVE  WalkInv(w)'
<1>1. Sought(w)' \subseteq Sought(w)
  <2> SUFFICES ASSUME NEW e \in Sought(w)' PROVE e \in Sought(w)
    OBVIOUS
  <2>1. e \in begun[w] \cap Wanted /\ e \in hot \cup served
    BY DEF Sought, WalkInv
  <2>2. CASE kind[w] = "stream"
    <3>1. e \in hot' /\ Unique(e)
      BY <2>2 DEF Sought, Unique
    <3>2. e \in hot
      BY <2>1, <3>1
    <3> QED BY <2>1, <2>2, <3>1, <3>2 DEF Sought
  <2>3. CASE kind[w] = "search"
    <3>1. DayOf[e] \in From .. To /\ Cardinality(ServedDays') <= MaxFiles
      BY <2>3 DEF Sought
    <3>2. Cardinality(ServedDays) <= MaxFiles
      BY <3>1, DaysGrow
    <3> QED BY <2>1, <2>3, <3>1, <3>2 DEF Sought
  <2>4. kind[w] = "none" => FALSE
    BY DEF Sought
  <2> QED BY <2>2, <2>3, <2>4 DEF TypeOK, Kind
<1>2. ASSUME NEW e \in Sought(w)', Reached(w, e)'
      PROVE  e \in Returned(w)'
  <2>1. Reached(w, e)
    BY <1>2 DEF Reached, Past
  <2> QED BY <1>1, <1>2, <2>1 DEF WalkInv, Returned
<1>3. CursorOf(w)' /\ PageDescends(w)'
  BY DEF WalkInv, CursorOf, PageDescends, Older
<1>4. begun'[w] \subseteq hot' \cup served' /\ (kind'[w] = "search" => begun'[w] \subseteq served')
  BY DEF WalkInv
<1> QED BY <1>2, <1>3, <1>4 DEF WalkInv

\* A row its walk seeks, and that the rows R of a response hold, is in the page or
\* not reached by the cursor.
LEMMA SoughtReturned ==
  ASSUME NEW w \in Walk, NEW k \in Kind, NEW R \in SUBSET Entry,
         TypeOK, Return(w, k, R), kind'[w] = k, R \subseteq Wanted,
         NEW e \in R, k = "search" \/ Unique(e), Reached(w, e)'
  PROVE  e \in page'[w]
<1> SUFFICES ASSUME e \notin page'[w] PROVE FALSE
  OBVIOUS
<1>1. next'[w] /\ (~Older(k, e, last'[w]) => Ts[e] = Ts[last'[w]] /\ k # "search")
  BY ReturnReaches
<1>2. last'[w] \in page'[w] /\ page'[w] \subseteq R
  BY <1>1, ReturnReaches
<1>3. ~Past(k, e, last'[w])
  BY <1>1 DEF Reached, Past
<1>4. ~Older(k, e, last'[w])
  BY <1>3 DEF Older, Past
<1>5. Unique(e) /\ Ts[e] = Ts[last'[w]]
  BY <1>1, <1>4
<1>6. last'[w] = e
  BY <1>2, <1>5 DEF Unique
<1> QED BY <1>2, <1>6

LEMMA PagingStep == PagingInv /\ [Next]_vars => PagingInv'
<1> SUFFICES ASSUME PagingInv, [Next]_vars PROVE PagingInv'
  OBVIOUS
<1>t. TypeOK /\ \A w \in Walk : WalkInv(w)
  BY DEF PagingInv
<1>1. ASSUME NEW batch \in SUBSET Entry, Ingest(batch) PROVE PagingInv'
  <2>1. TypeOK'
    BY <1>t, <1>1 DEF Ingest, walkVars, TypeOK
  <2>2. ASSUME NEW w \in Walk PROVE WalkInv(w)'
    <3>1. /\ hot' = hot \cup batch /\ batch \cap (hot \cup served) = {} /\ served' = served
          /\ kind' = kind /\ last' = last /\ next' = next
          /\ page' = page /\ got' = got /\ begun' = begun
      BY <1>1 DEF Ingest, walkVars
    <3>2. served \subseteq served' /\ hot \subseteq hot' \cup served'
          /\ (hot' \ hot) \cap (hot \cup served) = {}
      BY <3>1
    <3> QED BY <1>t, <3>1, <3>2, WalkUntouched
  <2> QED BY <2>1, <2>2 DEF PagingInv
<1>2. ASSUME NEW d \in Day, ArchiveDay(d) PROVE PagingInv'
  <2>1. TypeOK'
    BY <1>t, <1>2 DEF ArchiveDay, walkVars, TypeOK
  <2>2. ASSUME NEW w \in Walk PROVE WalkInv(w)'
    <3>1. /\ kind' = kind /\ last' = last /\ next' = next
          /\ page' = page /\ got' = got /\ begun' = begun
      BY <1>2 DEF ArchiveDay, walkVars
    <3>2. served \subseteq served' /\ hot \subseteq hot' \cup served'
          /\ (hot' \ hot) \cap (hot \cup served) = {}
      BY <1>2 DEF ArchiveDay
    <3> QED BY <1>t, <3>1, <3>2, WalkUntouched
  <2> QED BY <2>1, <2>2 DEF PagingInv
<1>3. ASSUME NEW w \in Walk, NEW k \in {"stream", "search"}, FirstPage(w, k)
      PROVE  PagingInv'
  <2> DEFINE R == Rows(k)
  <2>0. k \in Kind
    BY DEF Kind
  <2>1. R \in SUBSET Entry /\ R \subseteq Wanted
    BY <1>t, PagingAssumption DEF Rows, TypeOK
  <2>2. Return(w, k, R)
    BY <1>3 DEF FirstPage
  <2>3. /\ kind' = [kind EXCEPT ![w] = k]
        /\ begun' = [begun EXCEPT ![w] = IF k = "stream" THEN hot ELSE served]
        /\ got' = [got EXCEPT ![w] = {}]
        /\ hot' = hot /\ served' = served
    BY <1>3 DEF FirstPage
  <2>3a. /\ kind'[w] = k /\ got'[w] = {}
         /\ begun'[w] = IF k = "stream" THEN hot ELSE served
    BY <1>t, <2>3 DEF TypeOK
  <2>4. TypeOK'
    <3>1. page' \in [Walk -> SUBSET Entry] /\ next' \in [Walk -> BOOLEAN] /\ last' \in [Walk -> Entry]
      BY <1>t, <2>0, <2>1, <2>2, ReturnReaches
    <3> QED BY <1>t, <2>0, <2>3, <3>1 DEF TypeOK
  <2>5. WalkInv(w)'
    <3>1. ASSUME NEW e \in Sought(w)', Reached(w, e)'
          PROVE  e \in Returned(w)'
      <4>1. e \in R /\ (k = "search" \/ Unique(e))
        <5>1. CASE k = "stream"
          BY <2>3, <2>3a, <5>1, <3>1 DEF Sought, Rows, Unique
        <5>2. CASE k = "search"
          <6>1. /\ e \in served \cap Wanted /\ DayOf[e] \in From .. To
                /\ Cardinality(ServedDays') <= MaxFiles
            BY <2>3, <2>3a, <5>2, <3>1 DEF Sought
          <6>2. Cardinality(ServedDays) <= MaxFiles
            BY <6>1, <2>3 DEF ServedDays
          <6>3. DayOf[e] \in ReadDays
            BY <6>1, <6>2, AllDaysRead DEF ServedDays
          <6> QED BY <5>2, <6>1, <6>3 DEF Rows
        <5> QED BY <5>1, <5>2
      <4> HIDE DEF R
      <4>2. e \in page'[w]
        BY <1>t, <2>0, <2>1, <2>2, <2>3a, <3>1, <4>1, SoughtReturned
      <4> QED BY <4>2 DEF Returned
    <3> HIDE DEF R
    <3>2. CursorOf(w)'
      BY <1>t, <2>0, <2>1, <2>2, <2>3a, ReturnReaches DEF CursorOf, Older
    <3>3. PageDescends(w)'
      BY <2>3a DEF PageDescends
    <3>4. begun'[w] \subseteq hot' \cup served' /\ (kind'[w] = "search" => begun'[w] \subseteq served')
      BY <2>3, <2>3a
    <3> QED BY <3>1, <3>2, <3>3, <3>4 DEF WalkInv
  <2>6. ASSUME NEW v \in Walk, v # w PROVE WalkInv(v)'
    <3> HIDE DEF R
    <3>1. page'[v] = page[v] /\ next'[v] = next[v] /\ last'[v] = last[v]
      BY <1>t, <2>0, <2>1, <2>2, <2>6, ReturnReaches
    <3>2. kind'[v] = kind[v] /\ got'[v] = got[v] /\ begun'[v] = begun[v]
      BY <1>t, <2>3, <2>6 DEF TypeOK
    <3> QED BY <1>t, <2>3, <3>1, <3>2, WalkUntouched
  <2> QED BY <2>4, <2>5, <2>6 DEF PagingInv
<1>4. ASSUME NEW w \in Walk, NextPage(w) PROVE PagingInv'
  <2> DEFINE k == kind[w]
             R == {e \in Rows(k) : Past(k, e, last[w])}
  <2>0. k \in Kind /\ next[w]
    BY <1>t, <1>4 DEF TypeOK, NextPage
  <2>1. R \in SUBSET Entry /\ R \subseteq Wanted /\ \A y \in R : Older(k, y, last[w])
    BY <1>t, PagingAssumption DEF Rows, TypeOK, Past, Older
  <2>2. Return(w, k, R)
    BY <1>4 DEF NextPage
  <2>3. /\ kind' = kind /\ begun' = begun /\ hot' = hot /\ served' = served
        /\ got' = [got EXCEPT ![w] = @ \cup page[w]]
    BY <1>4 DEF NextPage
  <2>3a. kind'[w] = k /\ got'[w] = got[w] \cup page[w]
    BY <1>t, <2>3 DEF TypeOK
  <2>4. TypeOK'
    <3>1. page' \in [Walk -> SUBSET Entry] /\ next' \in [Walk -> BOOLEAN] /\ last' \in [Walk -> Entry]
      BY <1>t, <2>0, <2>1, <2>2, ReturnReaches
    <3> QED BY <1>t, <2>3, <3>1 DEF TypeOK
  <2>5. WalkInv(w)'
    <3>1. ASSUME NEW e \in Sought(w)', Reached(w, e)'
          PROVE  e \in Returned(w)'
      <4>1. e \in Sought(w)
        BY <2>3, <3>1 DEF Sought, ServedDays, Unique
      <4>2. CASE e \in Returned(w)
        BY <2>3a, <4>2 DEF Returned
      <4>3. CASE e \notin Returned(w)
        <5>1. Past(k, e, last[w])
          BY <1>t, <4>1, <4>3 DEF WalkInv, Reached
        <5>2. e \in Rows(k) /\ (k = "search" \/ Unique(e))
          <6>1. CASE k = "stream"
            BY <4>1, <6>1 DEF Sought, Rows
          <6>2. CASE k = "search"
            <7>1. /\ e \in served \cap Wanted /\ DayOf[e] \in From .. To
                  /\ Cardinality(ServedDays) <= MaxFiles
              BY <1>t, <4>1, <6>2 DEF Sought, WalkInv
            <7>2. DayOf[e] \in ReadDays
              BY <7>1, AllDaysRead DEF ServedDays
            <7> QED BY <6>2, <7>1, <7>2 DEF Rows
          <6>3. k # "none"
            BY <4>1 DEF Sought
          <6> QED BY <2>0, <6>1, <6>2, <6>3 DEF Kind
        <5>3. e \in R
          BY <5>1, <5>2
        <5> HIDE DEF R
        <5>4. e \in page'[w]
          BY <1>t, <2>0, <2>1, <2>2, <2>3a, <3>1, <5>2, <5>3, SoughtReturned
        <5> QED BY <5>4 DEF Returned
      <4> QED BY <4>2, <4>3
    <3> HIDE DEF R
    <3>2. CursorOf(w)'
      BY <1>t, <2>0, <2>1, <2>2, <2>3a, ReturnReaches DEF CursorOf, Older
    <3>3. PageDescends(w)'
      <4> SUFFICES ASSUME NEW x \in got'[w], NEW y \in page'[w]
                   PROVE  Older(k, y, x)
        BY <2>3a DEF PageDescends, Older
      <4>1. Older(k, y, last[w]) /\ y \in Entry
        BY <1>t, <2>0, <2>1, <2>2, ReturnReaches
      <4>2. /\ last[w] \in page[w] /\ \A z \in page[w] : ~Older(k, z, last[w])
            /\ page[w] \subseteq Entry /\ got[w] \subseteq Entry
        BY <1>t, <2>0 DEF WalkInv, CursorOf, TypeOK
      <4>3. CASE x \in page[w]
        BY <2>0, <4>1, <4>2, <4>3, OlderOrder
      <4>4. CASE x \in got[w]
        <5>1. Older(k, last[w], x)
          BY <1>t, <4>2, <4>4 DEF WalkInv, PageDescends
        <5> QED BY <2>0, <4>1, <4>2, <4>4, <5>1, OlderOrder
      <4> QED BY <2>3a, <4>3, <4>4
    <3>4. begun'[w] \subseteq hot' \cup served' /\ (kind'[w] = "search" => begun'[w] \subseteq served')
      BY <1>t, <2>3 DEF WalkInv
    <3> QED BY <3>1, <3>2, <3>3, <3>4 DEF WalkInv
  <2>6. ASSUME NEW v \in Walk, v # w PROVE WalkInv(v)'
    <3> HIDE DEF R
    <3>1. page'[v] = page[v] /\ next'[v] = next[v] /\ last'[v] = last[v]
      BY <1>t, <2>0, <2>1, <2>2, <2>6, ReturnReaches
    <3>2. kind'[v] = kind[v] /\ got'[v] = got[v] /\ begun'[v] = begun[v]
      BY <1>t, <2>3, <2>6 DEF TypeOK
    <3> QED BY <1>t, <2>3, <3>1, <3>2, WalkUntouched
  <2> QED BY <2>4, <2>5, <2>6 DEF PagingInv
<1>5. CASE UNCHANGED vars
  <2>1. TypeOK'
    BY <1>t, <1>5 DEF vars, TypeOK
  <2>2. ASSUME NEW w \in Walk PROVE WalkInv(w)'
    BY <1>t, <1>5, WalkUntouched DEF vars
  <2> QED BY <2>1, <2>2 DEF PagingInv
<1> QED BY <1>1, <1>2, <1>3, <1>4, <1>5 DEF Next

\* The invariant holds in every state: what each walk seeks and its cursor has
\* passed has been returned, and the cursor is a lowest row of the last page.
THEOREM PagingCorrect == Spec => []PagingInv
BY PagingInit, PagingStep, PTL DEF Spec

\* A stream walk at its end has every row it could find (routes/logs.ts).
THEOREM StreamComplete == Spec => []StreamFinds
<1>1. PagingInv => StreamFinds
  <2> SUFFICES ASSUME PagingInv, NEW w \in Walk, kind[w] = "stream", ~next[w],
                      NEW e \in begun[w] \cap hot \cap Wanted, Unique(e)
               PROVE  e \in Returned(w)
    BY DEF StreamFinds
  <2>1. e \in Sought(w) /\ Reached(w, e)
    BY DEF Sought, Reached
  <2> QED BY <2>1 DEF PagingInv, WalkInv
<1> QED BY <1>1, PagingCorrect, PTL

\* A search at its end has every archived row of a range that is read whole
\* (app/Archive/query.ts).
THEOREM SearchComplete == Spec => []SearchFinds
<1>1. PagingInv => SearchFinds
  <2> SUFFICES ASSUME PagingInv, NEW w \in Walk, kind[w] = "search", ~next[w],
                      Cardinality(ServedDays) <= MaxFiles,
                      NEW e \in begun[w] \cap Wanted, DayOf[e] \in From .. To
               PROVE  e \in Returned(w)
    BY DEF SearchFinds
  <2>1. e \in Sought(w) /\ Reached(w, e)
    BY DEF Sought, Reached
  <2> QED BY <2>1 DEF PagingInv, WalkInv
<1> QED BY <1>1, PagingCorrect, PTL

\* Pages descend strictly, so no walk sees a row twice.
THEOREM Descending == Spec => []PagesDescend
<1>1. PagingInv => PagesDescend
  BY DEF PagingInv, WalkInv, PagesDescend
<1> QED BY <1>1, PagingCorrect, PTL
-----------------------------------------------------------------------------
(* Texts.  A script's output is pieces put end to end, three levels deep:    *)
(* characters in a message, messages in a set, sets in an output.            *)

\* A set of naturals has a least element.
LEMMA LeastNumber ==
  ASSUME NEW S \in SUBSET Nat, S # {}
  PROVE  \E m \in S : \A n \in S : m <= n
<1> DEFINE R == OpToRel(<, Nat)
<1>1. IsWellFoundedOn(R, Nat)
  BY NatLessThanWellFounded, Zenon
<1>2. \A x, y \in Nat : y < x => <<y, x>> \in R
  BY DEF OpToRel
<1> HIDE DEF R
<1>3. PICK m \in S : \A n \in S : <<n, m>> \notin R
  BY <1>1, WFMin
<1>4. \A n \in S : ~(n < m)
  BY <1>2, <1>3
<1> QED
  BY <1>4

\* Induction up to n, on a set instead of a formula.
LEMMA UpTo ==
  ASSUME NEW n \in Nat, NEW S, 0 \in S, \A i \in 0 .. n - 1 : i \in S => i + 1 \in S
  PROVE  \A i \in 0 .. n : i \in S
<1> DEFINE Missing == { i \in 0 .. n : i \notin S }
<1> SUFFICES ASSUME Missing # {} PROVE FALSE
  OBVIOUS
<1>1. PICK i \in Missing : \A j \in Missing : i <= j
  <2>1. Missing \in SUBSET Nat
    OBVIOUS
  <2> QED
    BY <2>1, LeastNumber
<1>2. i \in 0 .. n /\ i \notin S /\ i # 0
  OBVIOUS
<1>3. i - 1 \in 0 .. n - 1 /\ i - 1 \notin Missing
  BY <1>1, <1>2
<1>4. i - 1 \in S /\ (i - 1) + 1 = i
  BY <1>2, <1>3
<1> QED
  BY <1>2, <1>3, <1>4

\* One text after another.
LEMMA Concat ==
  ASSUME NEW X, NEW s \in Seq(X), NEW t \in Seq(X)
  PROVE  /\ s \o t \in Seq(X) /\ << >> \o t = t
         /\ Len(s) \in Nat /\ Len(t) \in Nat /\ Len(s \o t) = Len(s) + Len(t)
         /\ \A p \in 1 .. Len(s) : (s \o t)[p] = s[p]
         /\ \A p \in 1 .. Len(t) : (s \o t)[Len(s) + p] = t[p]
<1>1. << >> \o t = t
  OBVIOUS
<1>2. s \o t \in Seq(X) /\ Len(s) \in Nat /\ Len(t) \in Nat /\ Len(s \o t) = Len(s) + Len(t)
  OBVIOUS
<1>3. \A p \in 1 .. Len(s) : (s \o t)[p] = s[p]
  OBVIOUS
<1>4. ASSUME NEW p \in 1 .. Len(t) PROVE (s \o t)[Len(s) + p] = t[p]
  OBVIOUS
<1> QED
  BY <1>1, <1>2, <1>3, <1>4

\* u is what FlattenSeq has put together after each of the first n pieces.
Joins(u, seqs, n) ==
  u = [i \in 1 .. n |-> IF i = 1 THEN seqs[i] ELSE u[i - 1] \o seqs[i]]

LEMMA JoinExists ==
  ASSUME NEW seqs, NEW n \in Nat
  PROVE  \E u : Joins(u, seqs, n)
<1> DEFINE S == { i \in Nat : \E u : Joins(u, seqs, i) }
<1>1. 0 \in S
  <2> DEFINE u == [i \in 1 .. 0 |-> {}]
  <2>1. Joins(u, seqs, 0)
    BY DEF Joins
  <2> QED
    BY <2>1
<1>2. ASSUME NEW k \in 0 .. n - 1, k \in S PROVE k + 1 \in S
  <2>1. PICK u : Joins(u, seqs, k)
    BY <1>2
  <2> DEFINE v == [i \in 1 .. k + 1 |->
                     IF i = k + 1 THEN IF i = 1 THEN seqs[i] ELSE u[i - 1] \o seqs[i] ELSE u[i]]
  <2>2. ASSUME NEW i \in 1 .. k + 1
        PROVE  v[i] = IF i = 1 THEN seqs[i] ELSE v[i - 1] \o seqs[i]
    <3>1. i # 1 => v[i - 1] = u[i - 1]
      OBVIOUS
    <3>2. CASE i = k + 1
      <4>1. v[i] = IF i = 1 THEN seqs[i] ELSE u[i - 1] \o seqs[i]
        BY <3>2
      <4> HIDE DEF v
      <4> QED
        BY <3>1, <4>1
    <3>3. CASE i # k + 1
      <4>1. v[i] = u[i] /\ i \in 1 .. k
        BY <3>3
      <4> HIDE DEF v
      <4>2. u[i] = IF i = 1 THEN seqs[i] ELSE u[i - 1] \o seqs[i]
        BY <2>1, <4>1 DEF Joins
      <4> QED
        BY <3>1, <4>1, <4>2
    <3> QED
      BY <3>2, <3>3
  <2>3. v = [i \in 1 .. k + 1 |-> v[i]]
    OBVIOUS
  <2> HIDE DEF v
  <2>4. v = [i \in 1 .. k + 1 |-> IF i = 1 THEN seqs[i] ELSE v[i - 1] \o seqs[i]]
    BY <2>2, <2>3
  <2>5. Joins(v, seqs, k + 1)
    BY <2>4, Zenon DEF Joins
  <2> QED
    BY <2>5
<1> HIDE DEF S
<1>3. n \in S
  BY <1>1, <1>2, UpTo
<1> QED
  BY <1>3 DEF S

\* Flattening ends with what has been put together after the last piece.
LEMMA FlattenJoins ==
  ASSUME NEW seqs, Len(seqs) \in Nat \ {0}
  PROVE  \E u : Joins(u, seqs, Len(seqs)) /\ FlattenSeq(seqs) = u[Len(seqs)]
<1> DEFINE n == Len(seqs)
           f == CHOOSE u : u = [i \in 1 .. n |-> IF i = 1 THEN seqs[i] ELSE u[i - 1] \o seqs[i]]
<1>1. Joins(f, seqs, n)
  <2>1. \E u : Joins(u, seqs, n)
    BY JoinExists
  <2> QED
    BY <2>1, Zenon DEF Joins
<1>2. FlattenSeq(seqs) = f[n]
  BY DEF FlattenSeq
<1> HIDE DEF f
<1> QED
  BY <1>1, <1>2

\* text is the pieces put end to end, and u what it begins with up to each.
Pieces(text, seqs, u, X) ==
  /\ u \in [0 .. Len(seqs) -> Seq(X)]
  /\ u[0] = << >> /\ u[Len(seqs)] = text
  /\ \A i \in 1 .. Len(seqs) :
       /\ u[i] = u[i - 1] \o seqs[i]
       /\ Len(u[i]) = Len(u[i - 1]) + Len(seqs[i]) /\ Len(u[i]) <= Len(text)
       /\ \A p \in 1 .. Len(seqs[i]) : text[Len(u[i - 1]) + p] = seqs[i][p]

LEMMA FlattenPieces ==
  ASSUME NEW X, NEW seqs \in Seq(Seq(X))
  PROVE  /\ FlattenSeq(seqs) \in Seq(X)
         /\ \E u : Pieces(FlattenSeq(seqs), seqs, u, X)
<1> DEFINE n == Len(seqs)
           text == FlattenSeq(seqs)
<1>0. n \in Nat
  OBVIOUS
<1>a. ASSUME NEW i \in 1 .. n PROVE seqs[i] \in Seq(X)
  OBVIOUS
<1>1. \E u \in [0 .. n -> Seq(X)] :
        /\ u[0] = << >> /\ u[n] = text
        /\ \A i \in 1 .. n : u[i] = u[i - 1] \o seqs[i]
  <2>1. CASE n = 0
    <3> DEFINE u == [i \in 0 .. n |-> << >>]
    <3>1. text = << >>
      BY <2>1 DEF FlattenSeq
    <3>2. u \in [0 .. n -> Seq(X)]
      BY <1>0
    <3>3. u[0] = << >> /\ u[n] = << >> /\ 1 .. n = {}
      BY <2>1
    <3> HIDE DEF text, u
    <3> QED
      BY <3>1, <3>2, <3>3
  <2>2. CASE n # 0
    <3>1. PICK f : Joins(f, seqs, n) /\ text = f[n]
      BY <1>0, <2>2, FlattenJoins
    <3> HIDE DEF text
    <3>2. ASSUME NEW i \in 1 .. n PROVE f[i] = IF i = 1 THEN seqs[i] ELSE f[i - 1] \o seqs[i]
      BY <3>1 DEF Joins
    <3> DEFINE u == [i \in 0 .. n |-> IF i = 0 THEN << >> ELSE f[i]]
               S == { i \in 0 .. n : u[i] \in Seq(X) }
    <3>3. u[0] = << >> /\ u[n] = text /\ \A i \in 1 .. n : u[i] = f[i]
      BY <1>0, <2>2, <3>1
    <3>4. u = [i \in 0 .. n |-> u[i]]
      OBVIOUS
    <3>5. ASSUME NEW i \in 1 .. n PROVE u[i] = u[i - 1] \o seqs[i]
      <4>1. << >> \o seqs[i] = seqs[i]
        BY <1>a, Concat
      <4>2. IF i = 1 THEN u[i - 1] = << >> ELSE u[i - 1] = f[i - 1]
        OBVIOUS
      <4> HIDE DEF u
      <4> QED
        BY <3>2, <3>3, <4>1, <4>2
    <3> HIDE DEF u
    <3>6. 0 \in S
      <4>1. << >> \in Seq(X)
        OBVIOUS
      <4>2. 0 \in 0 .. n
        BY <1>0
      <4>3. u[0] \in Seq(X)
        BY <3>3, <4>1
      <4> QED
        BY <4>2, <4>3
    <3>7. ASSUME NEW i \in 0 .. n - 1, i \in S PROVE i + 1 \in S
      <4>1. i + 1 \in 1 .. n /\ (i + 1) - 1 = i
        BY <1>0
      <4>2. u[i + 1] = u[i] \o seqs[i + 1]
        BY <3>5, <4>1
      <4>3. u[i] \in Seq(X)
        BY <3>7
      <4>4. u[i] \o seqs[i + 1] \in Seq(X)
        BY <1>a, <4>1, <4>3, Concat
      <4>5. i + 1 \in 0 .. n
        BY <1>0
      <4>6. u[i + 1] \in Seq(X)
        BY <4>2, <4>4
      <4> QED
        BY <4>5, <4>6
    <3> HIDE DEF S
    <3>8. \A i \in 0 .. n : i \in S
      BY <1>0, <3>6, <3>7, UpTo
    <3>9. u \in [0 .. n -> Seq(X)]
      BY <3>4, <3>8 DEF S
    <3> QED
      BY <3>3, <3>5, <3>9
  <2> QED
    BY <2>1, <2>2
<1> HIDE DEF text
<1>2. PICK u \in [0 .. n -> Seq(X)] :
        /\ u[0] = << >> /\ u[n] = text
        /\ \A i \in 1 .. n : u[i] = u[i - 1] \o seqs[i]
  BY <1>1
<1>3. text \in Seq(X)
  BY <1>0, <1>2
<1> DEFINE Begins(j) == Len(u[n - j]) <= Len(text)
                        /\ \A p \in 1 .. Len(u[n - j]) : text[p] = u[n - j][p]
           S == { j \in 0 .. n : Begins(j) }
<1>4. 0 \in S
  BY <1>0, <1>2, <1>3
<1>5. ASSUME NEW j \in 0 .. n - 1, j \in S PROVE j + 1 \in S
  <2> DEFINE i == n - j
  <2>1. i \in 1 .. n /\ i - 1 \in 0 .. n /\ n - (j + 1) = i - 1 /\ j + 1 \in 0 .. n
    BY <1>0
  <2>2. u[i] = u[i - 1] \o seqs[i] /\ u[i - 1] \in Seq(X) /\ seqs[i] \in Seq(X)
    BY <1>a, <1>2, <2>1
  <2>3. Len(u[i]) <= Len(text) /\ \A p \in 1 .. Len(u[i]) : text[p] = u[i][p]
    BY <1>5
  <2> HIDE DEF i
  <2>4. /\ Len(u[i - 1]) \in Nat /\ Len(u[i]) \in Nat /\ Len(u[i - 1]) <= Len(u[i])
        /\ \A p \in 1 .. Len(u[i - 1]) : u[i][p] = u[i - 1][p]
    <3> DEFINE s == u[i - 1]
               t == seqs[i]
    <3>1. s \in Seq(X) /\ t \in Seq(X) /\ u[i] = s \o t
      BY <2>2
    <3> HIDE DEF s, t
    <3>2. /\ Len(s) \in Nat /\ Len(t) \in Nat /\ Len(s \o t) = Len(s) + Len(t)
          /\ \A p \in 1 .. Len(s) : (s \o t)[p] = s[p]
      BY <3>1, Concat
    <3>3. Len(s \o t) \in Nat /\ Len(s) <= Len(s \o t)
      BY <3>2
    <3> QED
      BY <3>1, <3>2, <3>3, Zenon DEF s
  <2>5. /\ Len(u[i - 1]) <= Len(text)
        /\ \A p \in 1 .. Len(u[i - 1]) : text[p] = u[i - 1][p]
    BY <1>3, <2>3, <2>4
  <2> QED
    BY <2>1, <2>5
<1> HIDE DEF S
<1>6. \A j \in 0 .. n : j \in S
  BY <1>0, <1>4, <1>5, UpTo
<1>7. ASSUME NEW i \in 1 .. n
      PROVE  /\ Len(u[i]) = Len(u[i - 1]) + Len(seqs[i]) /\ Len(u[i]) <= Len(text)
             /\ \A p \in 1 .. Len(seqs[i]) : text[Len(u[i - 1]) + p] = seqs[i][p]
  <2>1. n - i \in 0 .. n /\ n - (n - i) = i
    BY <1>0
  <2>2. Len(u[i]) <= Len(text) /\ \A p \in 1 .. Len(u[i]) : text[p] = u[i][p]
    BY <1>6, <2>1 DEF S
  <2>3. u[i] = u[i - 1] \o seqs[i] /\ u[i - 1] \in Seq(X) /\ seqs[i] \in Seq(X)
    <3>1. i - 1 \in 0 .. n
      BY <1>0
    <3> QED
      BY <1>a, <1>2, <3>1
  <2>4. /\ Len(u[i]) = Len(u[i - 1]) + Len(seqs[i])
        /\ \A p \in 1 .. Len(seqs[i]) : u[i][Len(u[i - 1]) + p] = seqs[i][p]
        /\ Len(u[i - 1]) \in Nat /\ Len(seqs[i]) \in Nat
    <3> DEFINE s == u[i - 1]
               t == seqs[i]
    <3>1. s \in Seq(X) /\ t \in Seq(X) /\ u[i] = s \o t
      BY <2>3
    <3> HIDE DEF s, t
    <3>2. /\ Len(s) \in Nat /\ Len(t) \in Nat /\ Len(s \o t) = Len(s) + Len(t)
          /\ \A p \in 1 .. Len(t) : (s \o t)[Len(s) + p] = t[p]
      BY <3>1, Concat
    <3> QED
      BY <3>1, <3>2 DEF s, t
  <2>5. \A p \in 1 .. Len(seqs[i]) : Len(u[i - 1]) + p \in 1 .. Len(u[i])
    <3> DEFINE a == Len(u[i - 1])
               b == Len(seqs[i])
               c == Len(u[i])
    <3>1. a \in Nat /\ b \in Nat /\ c = a + b
      BY <2>4
    <3> HIDE DEF a, b, c
    <3>2. \A p \in 1 .. b : a + p \in 1 .. c
      BY <3>1
    <3> QED
      BY <3>2 DEF a, b, c
  <2> QED
    BY <2>2, <2>4, <2>5
<1>8. Pieces(text, seqs, u, X)
  BY <1>2, <1>7 DEF Pieces
<1> QED
  BY <1>3, <1>8 DEF text

-----------------------------------------------------------------------------
(* Codes.  What is printed can be read in one way only.                      *)

\* Neither text departs from the other where both have a character.
Agree(s, t) == \A p \in 1 .. Len(s) : p \in 1 .. Len(t) => s[p] = t[p]

\* No word of a code begins another, and none is empty or begins with the end mark.
Code(W, end, X) ==
  /\ W \subseteq Seq(X) /\ end \in X
  /\ \A w \in W : Len(w) > 0 /\ w[1] # end
  /\ \A v, w \in W : Agree(v, w) => v = w

\* Of two texts of a code that agree, the words of the one are the other's first.
LEMMA CodeBegins ==
  ASSUME NEW X, NEW W, NEW end, Code(W, end, X), NEW a \in Seq(W), NEW b \in Seq(W),
         Agree(FlattenSeq(a) \o <<end>>, FlattenSeq(b) \o <<end>>)
  PROVE  Len(a) <= Len(b) /\ \A i \in 1 .. Len(a) : a[i] = b[i]
<1> DEFINE s == FlattenSeq(a)
           t == FlattenSeq(b)
           n == Len(a)
           m == Len(b)
<1>1. /\ a \in Seq(Seq(X)) /\ b \in Seq(Seq(X)) /\ n \in Nat /\ m \in Nat
      /\ \A i \in 1 .. n : a[i] \in W
      /\ \A i \in 1 .. m : b[i] \in W
  BY DEF Code
<1>2. s \in Seq(X) /\ t \in Seq(X)
  BY <1>1, FlattenPieces
<1>3. PICK u : Pieces(s, a, u, X)
  BY <1>1, FlattenPieces
<1>4. PICK v : Pieces(t, b, v, X)
  BY <1>1, FlattenPieces
<1>5. Agree(s \o <<end>>, t \o <<end>>)
  OBVIOUS
<1> HIDE DEF s, t
<1>6. /\ Len(s \o <<end>>) = Len(s) + 1 /\ Len(s) \in Nat
      /\ \A p \in 1 .. Len(s) : (s \o <<end>>)[p] = s[p]
      /\ Len(t \o <<end>>) = Len(t) + 1 /\ Len(t) \in Nat
      /\ \A p \in 1 .. Len(t) : (t \o <<end>>)[p] = t[p]
      /\ (t \o <<end>>)[Len(t) + 1] = end
  BY <1>2 DEF Code
<1>7. /\ \A p \in 1 .. Len(s) : p \in 1 .. Len(t) => s[p] = t[p]
      /\ Len(t) + 1 \in 1 .. Len(s) => s[Len(t) + 1] = end
  <2>1. \A p \in 1 .. Len(s) + 1 : p \in 1 .. Len(t) + 1
                                  => (s \o <<end>>)[p] = (t \o <<end>>)[p]
    BY <1>5, <1>6 DEF Agree
  <2>2. ASSUME NEW p \in 1 .. Len(s), p \in 1 .. Len(t) PROVE s[p] = t[p]
    <3>1. p \in 1 .. Len(s) + 1 /\ p \in 1 .. Len(t) + 1
      BY <1>6, <2>2
    <3> QED
      BY <1>6, <2>1, <2>2, <3>1
  <2>3. ASSUME Len(t) + 1 \in 1 .. Len(s) PROVE s[Len(t) + 1] = end
    <3>1. Len(t) + 1 \in 1 .. Len(s) + 1 /\ Len(t) + 1 \in 1 .. Len(t) + 1
      BY <1>6, <2>3
    <3> QED
      BY <1>6, <2>1, <2>3, <3>1
  <2> QED
    BY <2>2, <2>3
<1> DEFINE S == { i \in 0 .. n : i <= m /\ u[i] = v[i] /\ \A j \in 1 .. i : a[j] = b[j] }
<1>8. 0 \in S
  BY <1>1, <1>3, <1>4 DEF Pieces
<1>9. ASSUME NEW i \in 0 .. n - 1, i \in S PROVE i + 1 \in S
  <2> DEFINE k == Len(u[i])
             x == a[i + 1]
             y == b[i + 1]
  <2>1. /\ i \in Nat /\ i + 1 \in 1 .. n /\ (i + 1) - 1 = i /\ i <= m /\ u[i] = v[i]
        /\ \A j \in 1 .. i : a[j] = b[j]
    BY <1>1, <1>9
  <2>2. u[i] \in Seq(X) /\ k \in Nat
    <3>1. i \in 0 .. Len(a)
      BY <1>1
    <3> QED
      BY <1>3, <3>1 DEF Pieces
  <2>3. /\ u[i + 1] = u[i] \o x /\ Len(u[i + 1]) = k + Len(x) /\ k + Len(x) <= Len(s)
        /\ \A p \in 1 .. Len(x) : s[k + p] = x[p]
    BY <1>3, <2>1 DEF Pieces
  <2>4. x \in W /\ x \in Seq(X) /\ Len(x) \in Nat /\ Len(x) > 0 /\ x[1] # end
    BY <1>1, <2>1 DEF Code
  <2>5. i + 1 \in 1 .. m
    <3> SUFFICES ASSUME i = m PROVE FALSE
      BY <1>1, <2>1
    <3>1. v[i] = t
      BY <1>4 DEF Pieces
    <3>2. k = Len(t)
      BY <2>1, <3>1
    <3> HIDE DEF k, x
    <3>3. Len(t) + 1 \in 1 .. Len(s) /\ s[Len(t) + 1] = x[1]
      BY <1>6, <2>3, <2>4, <3>2
    <3> QED
      BY <1>7, <2>4, <3>3
  <2>6. /\ v[i + 1] = v[i] \o y /\ k + Len(y) <= Len(t)
        /\ \A p \in 1 .. Len(y) : t[k + p] = y[p]
    <3>1. /\ v[i + 1] = v[(i + 1) - 1] \o y
          /\ Len(v[i + 1]) = Len(v[(i + 1) - 1]) + Len(y) /\ Len(v[i + 1]) <= Len(t)
          /\ \A p \in 1 .. Len(y) : t[Len(v[(i + 1) - 1]) + p] = y[p]
      BY <1>4, <2>5 DEF Pieces
    <3>2. v[(i + 1) - 1] = u[i]
      BY <2>1
    <3> HIDE DEF y
    <3> QED
      BY <2>1, <3>1, <3>2
  <2>7. y \in W /\ y \in Seq(X) /\ Len(y) \in Nat
    BY <1>1, <2>5 DEF Code
  <2> HIDE DEF k, x, y
  <2>8. Agree(x, y)
    <3> SUFFICES ASSUME NEW p \in 1 .. Len(x), p \in 1 .. Len(y) PROVE x[p] = y[p]
      BY DEF Agree
    <3>1. k + p \in 1 .. Len(s) /\ k + p \in 1 .. Len(t)
      BY <1>6, <2>2, <2>3, <2>4, <2>6, <2>7
    <3> QED
      BY <1>7, <2>3, <2>6, <3>1
  <2>9. x = y
    BY <2>4, <2>7, <2>8 DEF Code
  <2>10. u[i + 1] = v[i + 1]
    BY <2>1, <2>3, <2>6, <2>9
  <2>11. \A j \in 1 .. i + 1 : a[j] = b[j]
    BY <2>1, <2>9 DEF x, y
  <2> QED
    BY <2>1, <2>5, <2>10, <2>11
<1> HIDE DEF S
<1>10. n \in S
  <2>1. \A i \in 0 .. n : i \in S
    BY <1>1, <1>8, <1>9, UpTo
  <2> QED
    BY <1>1, <2>1
<1> QED
  BY <1>10 DEF S

\* So the words of two texts that agree are the same.
LEMMA CodeReads ==
  ASSUME NEW X, NEW W, NEW end, Code(W, end, X), NEW a \in Seq(W), NEW b \in Seq(W),
         Agree(FlattenSeq(a) \o <<end>>, FlattenSeq(b) \o <<end>>)
  PROVE  a = b
<1>1. Agree(FlattenSeq(b) \o <<end>>, FlattenSeq(a) \o <<end>>)
  BY DEF Agree
<1>2. /\ Len(a) <= Len(b) /\ Len(b) <= Len(a)
      /\ \A i \in 1 .. Len(a) : a[i] = b[i]
  BY <1>1, CodeBegins
<1>3. Len(a) = Len(b)
  BY <1>2
<1> QED
  BY <1>2, <1>3

\* A mark and a text between the first and the last character.
LEMMA Framed ==
  ASSUME NEW X, NEW open \in X, NEW end \in X, NEW s \in Seq(X)
  PROVE  /\ <<open>> \o s \o <<end>> \in Seq(X)
         /\ Len(<<open>> \o s \o <<end>>) = Len(s) + 2
         /\ (<<open>> \o s \o <<end>>)[1] = open
         /\ \A p \in 1 .. Len(s) : (<<open>> \o s \o <<end>>)[p + 1] = s[p]
         /\ (<<open>> \o s \o <<end>>)[Len(s) + 2] = end
         /\ \A p \in 1 .. Len(s) + 1 : (<<open>> \o s \o <<end>>)[p + 1] = (s \o <<end>>)[p]
  OBVIOUS

LEMMA FramedAgree ==
  ASSUME NEW X, NEW open \in X, NEW end \in X, NEW s \in Seq(X), NEW t \in Seq(X),
         Agree(<<open>> \o s \o <<end>>, <<open>> \o t \o <<end>>)
  PROVE  Agree(s \o <<end>>, t \o <<end>>)
<1>1. /\ Len(s) \in Nat /\ Len(t) \in Nat
      /\ Len(s \o <<end>>) = Len(s) + 1 /\ Len(t \o <<end>>) = Len(t) + 1
  OBVIOUS
<1> SUFFICES ASSUME NEW p \in 1 .. Len(s) + 1, p \in 1 .. Len(t) + 1
             PROVE  (s \o <<end>>)[p] = (t \o <<end>>)[p]
  BY <1>1 DEF Agree
<1>2. p + 1 \in 1 .. Len(s) + 2 /\ p + 1 \in 1 .. Len(t) + 2
  BY <1>1
<1>3. (<<open>> \o s \o <<end>>)[p + 1] = (<<open>> \o t \o <<end>>)[p + 1]
  BY <1>2, Framed DEF Agree
<1>4. /\ (<<open>> \o s \o <<end>>)[p + 1] = (s \o <<end>>)[p]
      /\ (<<open>> \o t \o <<end>>)[p + 1] = (t \o <<end>>)[p]
  BY Framed
<1> QED
  BY <1>3, <1>4

\* The three codes: what a character, a message and a set is printed as.
Message == Seq(Char)
ResultSet == Seq(Message)
Escapes == { Escaped(char) : char \in Char }
Quotes == { Quoted(message) : message \in Message }

\* The punctuation of JSON is characters.
LEMMA Marks == {"[", "]", "quote", "slash", "newline"} \subseteq Char
  BY CallAssumption, Zenon DEF CallAssumption

LEMMA EscapedCode ==
  /\ Code(Escapes, "quote", Char)
  /\ \A char \in Char : Escaped(char) \in Seq(Char)
  /\ \A c, d \in Char : Escaped(c) = Escaped(d) => c = d
<1>1. ASSUME NEW c \in Char
      PROVE  /\ Escaped(c) \in Seq(Char) /\ Len(Escaped(c)) \in {1, 2} /\ Escaped(c)[1] # "quote"
             /\ c \in {"quote", "slash"} =>
                  /\ Len(Escaped(c)) = 2 /\ Escaped(c)[1] = "slash" /\ Escaped(c)[2] = c
             /\ c \notin {"quote", "slash"} => Len(Escaped(c)) = 1 /\ Escaped(c)[1] = c
  <2>1. CASE c \in {"quote", "slash"}
    BY <2>1, Marks DEF Escaped
  <2>2. CASE c \notin {"quote", "slash"}
    BY <2>2 DEF Escaped
  <2> QED
    BY <2>1, <2>2
<1>a. \A c \in Char : 1 \in 1 .. Len(Escaped(c))
  BY <1>1
<1>2. ASSUME NEW c \in Char, NEW d \in Char, Agree(Escaped(c), Escaped(d)) PROVE c = d
  <2>1. Escaped(c)[1] = Escaped(d)[1]
    <3>1. 1 \in 1 .. Len(Escaped(c)) /\ 1 \in 1 .. Len(Escaped(d))
      BY <1>a
    <3> QED
      BY <1>2, <3>1 DEF Agree
  <2>2. CASE c \in {"quote", "slash"} /\ d \in {"quote", "slash"}
    <3>1. 2 \in 1 .. Len(Escaped(c)) /\ 2 \in 1 .. Len(Escaped(d))
      BY <1>1, <2>2
    <3>2. Escaped(c)[2] = Escaped(d)[2]
      BY <1>2, <3>1 DEF Agree
    <3>3. Escaped(c)[2] = c /\ Escaped(d)[2] = d
      BY <1>1, <2>2
    <3> QED
      BY <3>2, <3>3
  <2>3. CASE c \in {"quote", "slash"} /\ d \notin {"quote", "slash"}
    <3>1. Escaped(c)[1] = "slash" /\ Escaped(d)[1] = d
      BY <1>1, <2>3
    <3> QED
      BY <2>1, <2>3, <3>1
  <2>4. CASE c \notin {"quote", "slash"} /\ d \in {"quote", "slash"}
    <3>1. Escaped(d)[1] = "slash" /\ Escaped(c)[1] = c
      BY <1>1, <2>4
    <3> QED
      BY <2>1, <2>4, <3>1
  <2>5. CASE c \notin {"quote", "slash"} /\ d \notin {"quote", "slash"}
    <3>1. Escaped(d)[1] = d /\ Escaped(c)[1] = c
      BY <1>1, <2>5
    <3> QED
      BY <2>1, <3>1
  <2> QED
    BY <2>2, <2>3, <2>4, <2>5
<1>3. \A c, d \in Char : Escaped(c) = Escaped(d) => Agree(Escaped(c), Escaped(d))
  BY DEF Agree
<1>4. ASSUME NEW v \in Escapes, NEW w \in Escapes, Agree(v, w) PROVE v = w
  <2>1. PICK c \in Char : v = Escaped(c)
    BY DEF Escapes
  <2>2. PICK d \in Char : w = Escaped(d)
    BY DEF Escapes
  <2> QED
    BY <1>2, <1>4, <2>1, <2>2
<1>5. \A w \in Escapes : w \in Seq(Char) /\ Len(w) > 0 /\ w[1] # "quote"
  <2> SUFFICES ASSUME NEW c \in Char
               PROVE  Escaped(c) \in Seq(Char) /\ Len(Escaped(c)) > 0 /\ Escaped(c)[1] # "quote"
    BY DEF Escapes
  <2> QED
    BY <1>1
<1>6. Code(Escapes, "quote", Char)
  BY <1>4, <1>5, Marks DEF Code
<1> QED
  BY <1>1, <1>2, <1>3, <1>6

\* The escaped characters of a message.
EscapesOf(message) == [i \in DOMAIN message |-> Escaped(message[i])]

LEMMA EscapesOfMessage ==
  ASSUME NEW m \in Message
  PROVE  /\ EscapesOf(m) \in Seq(Escapes) /\ EscapesOf(m) \in Seq(Seq(Char))
         /\ Len(EscapesOf(m)) = Len(m) /\ Len(m) \in Nat
         /\ \A i \in 1 .. Len(m) : EscapesOf(m)[i] = Escaped(m[i])
         /\ FlattenSeq(EscapesOf(m)) \in Seq(Char)
         /\ Quoted(m) = <<"quote">> \o FlattenSeq(EscapesOf(m)) \o <<"quote">>
<1>1. Len(m) \in Nat /\ DOMAIN m = 1 .. Len(m) /\ \A i \in 1 .. Len(m) : m[i] \in Char
  BY DEF Message
<1>2. EscapesOf(m) = [i \in 1 .. Len(m) |-> Escaped(m[i])]
  BY <1>1 DEF EscapesOf
<1>3. \A i \in 1 .. Len(m) : Escaped(m[i]) \in Escapes /\ Escaped(m[i]) \in Seq(Char)
  BY <1>1, EscapedCode DEF Escapes
<1>4. EscapesOf(m) \in Seq(Escapes) /\ Len(EscapesOf(m)) = Len(m)
  BY <1>1, <1>2, <1>3
<1>5. EscapesOf(m) \in Seq(Seq(Char))
  BY <1>1, <1>2, <1>3
<1>6. FlattenSeq(EscapesOf(m)) \in Seq(Char)
  BY <1>5, FlattenPieces
<1>7. Quoted(m) = <<"quote">> \o FlattenSeq(EscapesOf(m)) \o <<"quote">>
  BY DEF Quoted, EscapesOf
<1> QED
  BY <1>1, <1>2, <1>4, <1>5, <1>6, <1>7

\* Two printed messages that agree are the same message.
LEMMA QuotedAgree ==
  ASSUME NEW m \in Message, NEW n \in Message, Agree(Quoted(m), Quoted(n))
  PROVE  m = n
<1> DEFINE a == EscapesOf(m)
           b == EscapesOf(n)
<1>1. /\ a \in Seq(Escapes) /\ b \in Seq(Escapes)
      /\ FlattenSeq(a) \in Seq(Char) /\ FlattenSeq(b) \in Seq(Char)
      /\ Quoted(m) = <<"quote">> \o FlattenSeq(a) \o <<"quote">>
      /\ Quoted(n) = <<"quote">> \o FlattenSeq(b) \o <<"quote">>
      /\ Len(a) = Len(m) /\ Len(b) = Len(n)
      /\ \A i \in 1 .. Len(m) : a[i] = Escaped(m[i])
      /\ \A i \in 1 .. Len(n) : b[i] = Escaped(n[i])
  BY EscapesOfMessage
<1> HIDE DEF a, b
<1>2. "quote" \in Char
  BY Marks
<1>3. Agree(FlattenSeq(a) \o <<"quote">>, FlattenSeq(b) \o <<"quote">>)
  BY <1>1, <1>2, FramedAgree
<1>4. a = b
  BY <1>1, <1>3, EscapedCode, CodeReads
<1>5. Len(m) = Len(n) /\ \A i \in 1 .. Len(m) : m[i] \in Char /\ n[i] \in Char
  BY <1>1, <1>4 DEF Message
<1>6. \A i \in 1 .. Len(m) : m[i] = n[i]
  BY <1>1, <1>4, <1>5, EscapedCode
<1> QED
  BY <1>5, <1>6 DEF Message

LEMMA QuotedCode ==
  /\ Code(Quotes, "]", Char)
  /\ \A m \in Message : Quoted(m) \in Seq(Char)
  /\ \A m, n \in Message : Quoted(m) = Quoted(n) => m = n
<1>1. ASSUME NEW m \in Message
      PROVE  Quoted(m) \in Seq(Char) /\ Len(Quoted(m)) > 0 /\ Quoted(m)[1] # "]"
  <2> DEFINE s == FlattenSeq(EscapesOf(m))
  <2>1. s \in Seq(Char) /\ Quoted(m) = <<"quote">> \o s \o <<"quote">>
    BY EscapesOfMessage
  <2> HIDE DEF s
  <2>2. "quote" \in Char /\ "quote" # "]"
    BY Marks
  <2>3. Quoted(m) \in Seq(Char) /\ Len(Quoted(m)) = Len(s) + 2 /\ Quoted(m)[1] = "quote"
    BY <2>1, <2>2, Framed
  <2> QED
    BY <2>1, <2>2, <2>3
<1>2. \A m, n \in Message : Quoted(m) = Quoted(n) => Agree(Quoted(m), Quoted(n))
  BY DEF Agree
<1>3. ASSUME NEW v \in Quotes, NEW w \in Quotes, Agree(v, w) PROVE v = w
  <2>1. PICK m \in Message : v = Quoted(m)
    BY DEF Quotes
  <2>2. PICK n \in Message : w = Quoted(n)
    BY DEF Quotes
  <2> QED
    BY <1>3, <2>1, <2>2, QuotedAgree
<1>4. \A w \in Quotes : w \in Seq(Char) /\ Len(w) > 0 /\ w[1] # "]"
  BY <1>1 DEF Quotes
<1>5. Code(Quotes, "]", Char)
  BY <1>3, <1>4, Marks DEF Code
<1> QED
  BY <1>1, <1>2, <1>5, QuotedAgree

\* The printed messages of a set.
QuotesOf(rows) == [i \in DOMAIN rows |-> Quoted(rows[i])]

LEMMA QuotesOfRows ==
  ASSUME NEW r \in ResultSet
  PROVE  /\ QuotesOf(r) \in Seq(Quotes) /\ QuotesOf(r) \in Seq(Seq(Char))
         /\ Len(QuotesOf(r)) = Len(r) /\ Len(r) \in Nat
         /\ \A i \in 1 .. Len(r) : QuotesOf(r)[i] = Quoted(r[i]) /\ r[i] \in Message
         /\ FlattenSeq(QuotesOf(r)) \in Seq(Char)
         /\ Printed(r) = <<"[">> \o FlattenSeq(QuotesOf(r)) \o <<"]">>
<1>1. Len(r) \in Nat /\ DOMAIN r = 1 .. Len(r) /\ \A i \in 1 .. Len(r) : r[i] \in Message
  BY DEF ResultSet
<1>2. QuotesOf(r) = [i \in 1 .. Len(r) |-> Quoted(r[i])]
  BY <1>1 DEF QuotesOf
<1>3. \A i \in 1 .. Len(r) : Quoted(r[i]) \in Quotes /\ Quoted(r[i]) \in Seq(Char)
  BY <1>1, QuotedCode DEF Quotes
<1>4. QuotesOf(r) \in Seq(Quotes) /\ Len(QuotesOf(r)) = Len(r)
  BY <1>1, <1>2, <1>3
<1>5. QuotesOf(r) \in Seq(Seq(Char))
  BY <1>1, <1>2, <1>3
<1>6. FlattenSeq(QuotesOf(r)) \in Seq(Char)
  BY <1>5, FlattenPieces
<1>7. Printed(r) = <<"[">> \o FlattenSeq(QuotesOf(r)) \o <<"]">>
  BY DEF Printed, QuotesOf
<1> QED
  BY <1>1, <1>2, <1>4, <1>5, <1>6, <1>7

\* A printed set is the print of no other set.
LEMMA PrintedOnce ==
  ASSUME NEW r \in ResultSet, NEW q \in ResultSet, Printed(r) = Printed(q)
  PROVE  r = q
<1> DEFINE a == QuotesOf(r)
           b == QuotesOf(q)
<1>1. /\ a \in Seq(Quotes) /\ b \in Seq(Quotes)
      /\ FlattenSeq(a) \in Seq(Char) /\ FlattenSeq(b) \in Seq(Char)
      /\ Printed(r) = <<"[">> \o FlattenSeq(a) \o <<"]">>
      /\ Printed(q) = <<"[">> \o FlattenSeq(b) \o <<"]">>
      /\ Len(a) = Len(r) /\ Len(b) = Len(q)
      /\ \A i \in 1 .. Len(r) : a[i] = Quoted(r[i]) /\ r[i] \in Message
      /\ \A i \in 1 .. Len(q) : b[i] = Quoted(q[i]) /\ q[i] \in Message
  BY QuotesOfRows
<1> HIDE DEF a, b
<1>2. "[" \in Char /\ "]" \in Char
  BY Marks
<1>3. Agree(Printed(r), Printed(q))
  BY DEF Agree
<1>4. Agree(FlattenSeq(a) \o <<"]">>, FlattenSeq(b) \o <<"]">>)
  BY <1>1, <1>2, <1>3, FramedAgree
<1>5. a = b
  BY <1>1, <1>4, QuotedCode, CodeReads
<1>6. \A i \in 1 .. Len(r) : r[i] = q[i]
  BY <1>1, <1>5, QuotedCode
<1>7. Len(r) = Len(q)
  BY <1>1, <1>5
<1> QED
  BY <1>6, <1>7 DEF ResultSet

-----------------------------------------------------------------------------
(* The scanner.                                                              *)

State(depth, start, inString, escaped, sets) ==
  [depth |-> depth, start |-> start, inString |-> inString, escaped |-> escaped, sets |-> sets]

\* Outside a string, in one, and at the character after a backslash.
Out(depth, start, sets) == State(depth, start, FALSE, FALSE, sets)
In(depth, start, sets) == State(depth, start, TRUE, FALSE, sets)
Escaping(depth, start, sets) == State(depth, start, TRUE, TRUE, sets)

\* Within a string only an escape and a quote count.
LEMMA ScanInString ==
  ASSUME NEW text, NEW i, NEW d, NEW st, NEW sets
  PROVE  /\ Scan(text, Escaping(d, st, sets), i) = In(d, st, sets)
         /\ text[i] = "slash" => Scan(text, In(d, st, sets), i) = Escaping(d, st, sets)
         /\ text[i] = "quote" => Scan(text, In(d, st, sets), i) = Out(d, st, sets)
         /\ text[i] \notin {"slash", "quote"} => Scan(text, In(d, st, sets), i) = In(d, st, sets)
<1>1. Scan(text, Escaping(d, st, sets), i) = In(d, st, sets)
  BY DEF Scan, State, In, Escaping
<1>2. Scan(text, In(d, st, sets), i)
        = [In(d, st, sets) EXCEPT !.escaped = text[i] = "slash", !.inString = text[i] # "quote"]
  BY DEF Scan, State, In
<1>3. Scan(text, In(d, st, sets), i) = State(d, st, text[i] # "quote", text[i] = "slash", sets)
  BY <1>2, Zenon DEF State, In
<1>4. CASE text[i] = "slash"
  <2>1. (text[i] # "quote") = TRUE /\ (text[i] = "slash") = TRUE
    BY <1>4
  <2> QED
    BY <1>1, <1>3, <1>4, <2>1 DEF Escaping
<1>5. CASE text[i] = "quote"
  <2>1. (text[i] # "quote") = FALSE /\ (text[i] = "slash") = FALSE
    BY <1>5
  <2> QED
    BY <1>1, <1>3, <1>5, <2>1 DEF Out
<1>6. CASE text[i] \notin {"slash", "quote"}
  <2>1. (text[i] # "quote") = TRUE /\ (text[i] = "slash") = FALSE
    BY <1>6
  <2> QED
    BY <1>1, <1>3, <1>6, <2>1 DEF In
<1> QED
  BY <1>1, <1>4, <1>5, <1>6

\* Outside of one, quotes, brackets and line ends.
LEMMA ScanOutside ==
  ASSUME NEW text, NEW i, NEW st, NEW sets, NEW d
  PROVE  /\ text[i] = "quote" => Scan(text, Out(d, st, sets), i) = In(d, st, sets)
         /\ text[i] = "[" => Scan(text, Out(0, st, sets), i) = Out(1, i, sets)
         /\ text[i] = "]" /\ st \in Nat /\ st > 0
              => Scan(text, Out(1, st, sets), i)
                   = Out(0, 0, sets \o Parsed(SubSeq(text, st, i)))
         /\ text[i] = "newline" => Scan(text, Out(d, st, sets), i) = Out(d, st, sets)
<1>0. ASSUME NEW e
      PROVE  LET s == Out(e, st, sets) IN
               /\ s.depth = e /\ s.start = st /\ s.sets = sets
               /\ s.inString = FALSE /\ s.escaped = FALSE
  BY DEF Out, State
<1>1. CASE text[i] = "quote"
  BY <1>1 DEF Scan, State, Out, In
<1>2. CASE text[i] = "["
  <2> DEFINE s == Out(0, st, sets)
  <2>1. Scan(text, s, i) = [s EXCEPT !.depth = 0 + 1, !.start = i]
    <3>1. s.depth = 0 /\ s.inString = FALSE
      BY <1>0
    <3> HIDE DEF s
    <3> QED
      BY <1>2, <3>1 DEF Scan
  <2>2. 0 + 1 = 1
    OBVIOUS
  <2> QED
    BY <1>2, <2>1, <2>2, Zenon DEF State, Out
<1>3. CASE text[i] = "]" /\ st \in Nat /\ st > 0
  <2> DEFINE s == Out(1, st, sets)
  <2>1. Scan(text, s, i) = [s EXCEPT !.depth = 1 - 1, !.start = 0,
                                     !.sets = sets \o Parsed(SubSeq(text, st, i))]
    <3>1. s.depth = 1 /\ s.inString = FALSE /\ s.start = st /\ s.sets = sets
      BY <1>0
    <3> HIDE DEF s
    <3> QED
      BY <1>3, <3>1 DEF Scan
  <2>2. 1 - 1 = 0
    OBVIOUS
  <2> QED
    BY <1>3, <2>1, <2>2, Zenon DEF State, Out
<1>4. CASE text[i] = "newline"
  BY <1>4 DEF Scan, State, Out
<1> QED
  BY <1>1, <1>2, <1>3, <1>4

\* f is the state of the scanner after each of the first n characters.
Scans(f, text, n) ==
  f = [i \in 0 .. n |-> IF i = 0 THEN Scanning ELSE Scan(text, f[i - 1], i)]

LEMMA ScanExists ==
  ASSUME NEW text, NEW n \in Nat
  PROVE  \E f : Scans(f, text, n)
<1> DEFINE S == { i \in Nat : \E f : Scans(f, text, i) }
<1>1. 0 \in S
  <2> DEFINE f == [i \in 0 .. 0 |-> Scanning]
  <2>1. f = [i \in 0 .. 0 |-> IF i = 0 THEN Scanning ELSE Scan(text, f[i - 1], i)]
    OBVIOUS
  <2>2. Scans(f, text, 0)
    BY <2>1 DEF Scans
  <2> QED
    BY <2>2
<1>2. ASSUME NEW k \in 0 .. n - 1, k \in S PROVE k + 1 \in S
  <2>1. PICK f : Scans(f, text, k)
    BY <1>2
  <2> DEFINE g == [i \in 0 .. k + 1 |-> IF i = k + 1 THEN Scan(text, f[k], k + 1) ELSE f[i]]
  <2>2. ASSUME NEW i \in 0 .. k + 1
        PROVE  g[i] = IF i = 0 THEN Scanning ELSE Scan(text, g[i - 1], i)
    <3>1. CASE i = k + 1
      <4>1. g[i] = Scan(text, f[k], i) /\ g[i - 1] = f[k] /\ i # 0
        BY <3>1
      <4> HIDE DEF g
      <4> QED
        BY <4>1
    <3>2. CASE i # k + 1
      <4>1. i \in 0 .. k /\ g[i] = f[i] /\ i # 0 => g[i - 1] = f[i - 1]
        BY <3>2
      <4>2. i \in 0 .. k /\ g[i] = f[i]
        BY <3>2
      <4> HIDE DEF g
      <4>3. f[i] = IF i = 0 THEN Scanning ELSE Scan(text, f[i - 1], i)
        BY <2>1, <4>2 DEF Scans
      <4> QED
        BY <4>1, <4>2, <4>3
    <3> QED
      BY <3>1, <3>2
  <2>3. g = [i \in 0 .. k + 1 |-> g[i]]
    OBVIOUS
  <2> HIDE DEF g
  <2>4. g = [i \in 0 .. k + 1 |-> IF i = 0 THEN Scanning ELSE Scan(text, g[i - 1], i)]
    BY <2>2, <2>3
  <2>5. Scans(g, text, k + 1)
    BY <2>4 DEF Scans
  <2> QED
    BY <2>5
<1> HIDE DEF S
<1>3. n \in S
  <2>1. \A i \in 0 .. n : i \in S
    BY <1>1, <1>2, UpTo
  <2> QED
    BY <2>1
<1> QED
  BY <1>3 DEF S

\* parseResultSets answers with the sets of the state after the last character.
LEMMA ParseScans ==
  ASSUME NEW text, Len(text) \in Nat
  PROVE  \E f : /\ f[0] = Scanning
                /\ \A i \in 1 .. Len(text) : f[i] = Scan(text, f[i - 1], i)
                /\ ParseResultSets(text) = f[Len(text)].sets
<1> DEFINE n == Len(text)
           f == CHOOSE g : g = [i \in 0 .. n |-> IF i = 0 THEN Scanning ELSE Scan(text, g[i - 1], i)]
<1>1. \E g : Scans(g, text, n)
  BY ScanExists
<1>2. Scans(f, text, n)
  BY <1>1, Zenon DEF Scans
<1>3. ParseResultSets(text) = f[n].sets
  BY DEF ParseResultSets
<1> HIDE DEF f
<1>4. f[0] = Scanning /\ \A i \in 1 .. n : f[i] = Scan(text, f[i - 1], i)
  BY <1>2 DEF Scans
<1> QED
  BY <1>3, <1>4

\* A scanner at work on a text, and a piece of the text it comes to after k.
Scanned(f, text) ==
  Len(text) \in Nat /\ \A i \in 1 .. Len(text) : f[i] = Scan(text, f[i - 1], i)
Comes(text, k, piece) ==
  k + Len(piece) <= Len(text) /\ \A p \in 1 .. Len(piece) : text[k + p] = piece[p]

\* A printed message leaves the scanner as it was, whatever is in it.
LEMMA MessageScanned ==
  ASSUME NEW f, NEW text, Scanned(f, text), NEW k \in Nat, NEW m \in Message,
         Comes(text, k, Quoted(m)),
         NEW d \in Nat, NEW st \in Nat, NEW sets, f[k] = Out(d, st, sets)
  PROVE  f[k + Len(Quoted(m))] = Out(d, st, sets)
<1> DEFINE e == EscapesOf(m)
           s == FlattenSeq(e)
           n == Len(m)
<1>1. /\ e \in Seq(Seq(Char)) /\ Len(e) = n /\ n \in Nat
      /\ \A i \in 1 .. n : e[i] = Escaped(m[i]) /\ m[i] \in Char
      /\ s \in Seq(Char) /\ Quoted(m) = <<"quote">> \o s \o <<"quote">>
  BY EscapesOfMessage DEF Message
<1>2. PICK u : Pieces(s, e, u, Char)
  BY <1>1, FlattenPieces
<1> HIDE DEF e, s
<1> DEFINE q == Quoted(m)
<1>3. /\ Len(q) = Len(s) + 2 /\ q[1] = "quote" /\ q[Len(s) + 2] = "quote"
      /\ Len(s) \in Nat /\ \A p \in 1 .. Len(s) : q[p + 1] = s[p]
  BY <1>1, Marks, Framed
<1>4. k + Len(q) <= Len(text) /\ Len(text) \in Nat /\ \A p \in 1 .. Len(q) : text[k + p] = q[p]
  BY DEF Comes, Scanned
<1> HIDE DEF q
<1>5. /\ text[k + 1] = "quote" /\ text[k + Len(s) + 2] = "quote"
      /\ \A p \in 1 .. Len(s) : text[k + 1 + p] = s[p]
      /\ k + Len(s) + 2 <= Len(text)
  <2>1. 1 \in 1 .. Len(q) /\ Len(s) + 2 \in 1 .. Len(q)
    BY <1>3
  <2>2. ASSUME NEW p \in 1 .. Len(s) PROVE text[k + 1 + p] = s[p]
    <3>1. p + 1 \in 1 .. Len(q) /\ k + (p + 1) = k + 1 + p
      BY <1>3
    <3> QED
      BY <1>3, <1>4, <3>1
  <2>3. k + (Len(s) + 2) = k + Len(s) + 2
    BY <1>3
  <2> QED
    BY <1>3, <1>4, <2>1, <2>2, <2>3
<1>6. \A i \in 1 .. Len(text) : f[i] = Scan(text, f[i - 1], i)
  BY DEF Scanned
<1> DEFINE within == In(d, st, sets)
           S == { i \in 0 .. n : f[k + 1 + Len(u[i])] = within }
<1>7. f[k + 1] = within
  <2>1. k + 1 \in 1 .. Len(text) /\ k + 1 \in Nat /\ (k + 1) - 1 = k
    BY <1>3, <1>5
  <2>2. f[k + 1] = Scan(text, f[k], k + 1)
    BY <1>6, <2>1
  <2>3. Scan(text, Out(d, st, sets), k + 1) = In(d, st, sets)
    <3>1. text[k + 1] = "quote"
      BY <1>5
    <3> QED
      BY <3>1, ScanOutside
  <2> QED
    BY <2>2, <2>3
<1>8. 0 \in S
  <2>1. Len(u[0]) = 0
    BY <1>2 DEF Pieces
  <2>2. k + 1 + Len(u[0]) = k + 1 /\ 0 \in 0 .. n
    BY <1>1, <2>1
  <2> QED
    BY <1>7, <2>2
<1> HIDE DEF within
<1>9. ASSUME NEW i \in 0 .. n - 1, i \in S PROVE i + 1 \in S
  <2> DEFINE here == Len(u[i])
             there == Len(u[i + 1])
             c == m[i + 1]
  <2>1. i + 1 \in 1 .. n /\ (i + 1) - 1 = i /\ i \in 0 .. Len(e) /\ i + 1 \in 1 .. Len(e)
    BY <1>1
  <2>2. c \in Char /\ e[i + 1] = Escaped(c)
    BY <1>1, <2>1
  <2>3. /\ Len(u[i + 1]) = Len(u[(i + 1) - 1]) + Len(e[i + 1]) /\ Len(u[i + 1]) <= Len(s)
        /\ \A p \in 1 .. Len(e[i + 1]) : s[Len(u[(i + 1) - 1]) + p] = e[i + 1][p]
    BY <1>2, <2>1 DEF Pieces
  <2>4. /\ there = here + Len(Escaped(c)) /\ there <= Len(s)
        /\ \A p \in 1 .. Len(Escaped(c)) : s[here + p] = Escaped(c)[p]
    BY <2>1, <2>2, <2>3
  <2>5. here \in Nat
    <3>1. u[i] \in Seq(Char)
      BY <1>2, <2>1 DEF Pieces
    <3> QED
      BY <3>1
  <2>6. f[k + 1 + here] = within
    BY <1>9
  <2> SUFFICES f[k + 1 + there] = within
    <3>1. i + 1 \in 0 .. n
      BY <2>1, <1>1
    <3> QED
      BY <3>1
  <2> HIDE DEF here, there, c
  <2> DEFINE a == k + 1 + here
  <2>7. a \in Nat /\ a >= k + 1 /\ f[a] = within
    BY <2>5, <2>6
  <2>8. \A p \in 1 .. Len(s) - here : text[a + p] = s[here + p]
    <3> SUFFICES ASSUME NEW p \in 1 .. Len(s) - here PROVE text[a + p] = s[here + p]
      OBVIOUS
    <3>1. here + p \in 1 .. Len(s) /\ k + 1 + (here + p) = a + p
      BY <1>3, <2>5
    <3> QED
      BY <1>5, <3>1
  <2>9. \A p \in 1 .. Len(s) - here :
          a + p \in 1 .. Len(text) /\ f[a + p] = Scan(text, f[(a + p) - 1], a + p)
    <3> SUFFICES ASSUME NEW p \in 1 .. Len(s) - here
                 PROVE  a + p \in 1 .. Len(text)
      BY <1>6
    <3> QED
      BY <1>3, <1>4, <1>5, <2>5
  <2>10. CASE c \in {"quote", "slash"}
    <3>1. Len(Escaped(c)) = 2 /\ Escaped(c)[1] = "slash"
      BY <2>10 DEF Escaped
    <3>2. there = here + 2 /\ 1 \in 1 .. Len(s) - here /\ 2 \in 1 .. Len(s) - here
      BY <1>3, <2>4, <2>5, <3>1
    <3>3. k + 1 + there = a + 2 /\ (a + 1) - 1 = a /\ (a + 2) - 1 = a + 1
      BY <2>5, <3>2
    <3> HIDE DEF a
    <3>4. text[a + 1] = "slash"
      <4>1. s[here + 1] = "slash"
        BY <2>4, <3>1
      <4> QED
        BY <2>8, <3>2, <4>1
    <3>5. f[a + 1] = Scan(text, within, a + 1) /\ f[a + 2] = Scan(text, f[a + 1], a + 2)
      BY <2>7, <2>9, <3>2, <3>3
    <3>6. f[a + 1] = Escaping(d, st, sets)
      BY <3>4, <3>5, ScanInString DEF within
    <3>7. f[a + 2] = within
      BY <3>5, <3>6, ScanInString DEF within
    <3> QED
      BY <3>3, <3>7
  <2>11. CASE c \notin {"quote", "slash"}
    <3>1. Len(Escaped(c)) = 1 /\ Escaped(c)[1] = c
      BY <2>11 DEF Escaped
    <3>2. there = here + 1 /\ 1 \in 1 .. Len(s) - here
      BY <1>3, <2>4, <2>5, <3>1
    <3>3. k + 1 + there = a + 1 /\ (a + 1) - 1 = a
      BY <2>5, <3>2
    <3> HIDE DEF a
    <3>4. text[a + 1] = c
      <4>1. s[here + 1] = c
        BY <2>4, <3>1
      <4> QED
        BY <2>8, <3>2, <4>1
    <3>5. f[a + 1] = Scan(text, within, a + 1)
      BY <2>7, <2>9, <3>2, <3>3
    <3>6. f[a + 1] = within
      BY <2>11, <3>4, <3>5, ScanInString DEF within
    <3> QED
      BY <3>3, <3>6
  <2> QED
    BY <2>10, <2>11
<1> HIDE DEF S
<1>10. n \in S
  <2>1. \A i \in 0 .. n : i \in S
    BY <1>1, <1>8, <1>9, UpTo
  <2> QED
    BY <1>1, <2>1
<1>11. f[k + 1 + Len(s)] = within
  <2>1. u[n] = s
    BY <1>1, <1>2 DEF Pieces
  <2> QED
    BY <1>10, <2>1 DEF S
<1>12. f[k + Len(s) + 2] = Out(d, st, sets)
  <2> DEFINE b == k + Len(s) + 2
  <2>1. b \in 1 .. Len(text) /\ b - 1 = k + 1 + Len(s)
    BY <1>3, <1>4, <1>5
  <2>2. text[b] = "quote"
    BY <1>5
  <2> HIDE DEF b
  <2>3. f[b] = Scan(text, within, b)
    BY <1>6, <1>11, <2>1
  <2>4. f[b] = Out(d, st, sets)
    BY <2>2, <2>3, ScanInString DEF within
  <2> QED
    BY <2>4 DEF b
<1>13. k + Len(q) = k + Len(s) + 2
  BY <1>3
<1> QED
  BY <1>12, <1>13 DEF q

\* Where a text comes, so do its pieces, one where the one before ends.
InTurn(text, k, e, u) ==
  \A i \in 0 .. Len(e) - 1 :
    /\ k + Len(u[i]) \in Nat /\ Comes(text, k + Len(u[i]), e[i + 1])
    /\ k + Len(u[i + 1]) = k + Len(u[i]) + Len(e[i + 1])
    /\ k + Len(u[i + 1]) <= Len(text)

LEMMA PiecesCome ==
  ASSUME NEW X, NEW text, Len(text) \in Nat, NEW k \in Nat,
         NEW s \in Seq(X), NEW e \in Seq(Seq(X)), NEW u, Pieces(s, e, u, X), Comes(text, k, s)
  PROVE  InTurn(text, k, e, u)
<1> SUFFICES ASSUME NEW i \in 0 .. Len(e) - 1
             PROVE  /\ k + Len(u[i]) \in Nat /\ Comes(text, k + Len(u[i]), e[i + 1])
                    /\ k + Len(u[i + 1]) = k + Len(u[i]) + Len(e[i + 1])
                    /\ k + Len(u[i + 1]) <= Len(text)
  BY Zenon DEF InTurn
<1> DEFINE here == Len(u[i])
           there == Len(u[i + 1])
           x == e[i + 1]
<1>1. i + 1 \in 1 .. Len(e) /\ (i + 1) - 1 = i /\ i \in 0 .. Len(e)
  OBVIOUS
<1>2. x \in Seq(X) /\ u[i] \in Seq(X)
  BY <1>1 DEF Pieces
<1>3. here \in Nat /\ Len(x) \in Nat /\ Len(s) \in Nat
  <2>1. Len(s) \in Nat
    OBVIOUS
  <2>2. Len(x) \in Nat
    <3> HIDE DEF x
    <3> QED
      BY <1>2
  <2>3. here \in Nat
    BY <1>2
  <2> QED
    BY <2>1, <2>2, <2>3
<1>4. /\ there = here + Len(x) /\ there <= Len(s)
      /\ \A p \in 1 .. Len(x) : s[here + p] = x[p]
  <2>1. /\ there = Len(u[(i + 1) - 1]) + Len(x) /\ there <= Len(s)
        /\ \A p \in 1 .. Len(x) : s[Len(u[(i + 1) - 1]) + p] = x[p]
    BY <1>1 DEF Pieces
  <2> QED
    BY <1>1, <2>1
<1>5. k + Len(s) <= Len(text) /\ \A p \in 1 .. Len(s) : text[k + p] = s[p]
  BY DEF Comes
<1> HIDE DEF here, there, x
<1> DEFINE lx == Len(x)
           ls == Len(s)
           lt == Len(text)
<1>b. lx \in Nat /\ ls \in Nat /\ lt \in Nat /\ there = here + lx /\ there <= ls /\ k + ls <= lt
  BY <1>3, <1>4, <1>5
<1> HIDE DEF lx, ls, lt
<1>c. k + here + lx <= lt
  BY <1>3, <1>b
<1>6. k + here + Len(x) <= Len(text)
  BY <1>c DEF lx, lt
<1>7. ASSUME NEW p \in 1 .. Len(x) PROVE text[k + here + p] = x[p]
  <2>1. here + p \in 1 .. Len(s) /\ k + (here + p) = k + here + p
    <3>1. p \in 1 .. lx
      BY DEF lx
    <3>2. here + p \in 1 .. ls /\ k + (here + p) = k + here + p
      BY <1>3, <1>b, <3>1
    <3> QED
      BY <3>2 DEF ls
  <2> QED
    BY <1>4, <1>5, <2>1
<1>8. /\ k + here \in Nat /\ k + there = k + here + Len(x) /\ k + there <= Len(text)
  <2>1. k + here \in Nat /\ k + there = k + here + lx /\ k + there <= lt
    BY <1>3, <1>b
  <2> QED
    BY <2>1 DEF lx, lt
<1>9. Comes(text, k + here, x)
  BY <1>6, <1>7 DEF Comes
<1> QED
  BY <1>8, <1>9 DEF here, there, x

\* What comes at k is the slice from there.
LEMMA Slice ==
  ASSUME NEW X, NEW text \in Seq(X), NEW k \in Nat, NEW piece \in Seq(X),
         Comes(text, k, piece)
  PROVE  SubSeq(text, k + 1, k + Len(piece)) = piece
<1>1. /\ Len(piece) \in Nat /\ Len(text) \in Nat /\ k + Len(piece) <= Len(text)
      /\ \A p \in 1 .. Len(piece) : text[k + p] = piece[p]
  BY DEF Comes
<1> DEFINE t == SubSeq(text, k + 1, k + Len(piece))
<1>2. t \in Seq(X) /\ Len(t) = Len(piece)
  BY <1>1
<1>3. ASSUME NEW p \in 1 .. Len(piece) PROVE t[p] = piece[p]
  <2>1. t[p] = text[k + p]
    BY <1>1
  <2> QED
    BY <1>1, <2>1
<1> HIDE DEF t
<1>4. t = piece
  <2>1. t = [p \in 1 .. Len(t) |-> t[p]]
    BY <1>2
  <2>2. piece = [p \in 1 .. Len(piece) |-> piece[p]]
    OBVIOUS
  <2> QED
    BY <1>2, <1>3, <2>1, <2>2
<1> QED
  BY <1>4 DEF t

\* A printed set adds its rows to those read, if JSON.parse gives them back.
LEMMA RowsScanned ==
  ASSUME NEW f, NEW text \in Seq(Char), Scanned(f, text), NEW k \in Nat, NEW r \in ResultSet,
         Comes(text, k, Printed(r)), Parsed(Printed(r)) = <<r>>,
         NEW sets, f[k] = Out(0, 0, sets)
  PROVE  f[k + Len(Printed(r))] = Out(0, 0, sets \o <<r>>)
<1> DEFINE e == QuotesOf(r)
           s == FlattenSeq(e)
           n == Len(r)
           q == Printed(r)
           opened == Out(1, k + 1, sets)
<1>1. /\ e \in Seq(Seq(Char)) /\ Len(e) = n /\ n \in Nat
      /\ \A i \in 1 .. n : e[i] = Quoted(r[i]) /\ r[i] \in Message
      /\ s \in Seq(Char) /\ q = <<"[">> \o s \o <<"]">>
  BY QuotesOfRows
<1>2. PICK u : Pieces(s, e, u, Char)
  BY <1>1, FlattenPieces
<1> HIDE DEF e, s
<1>3. /\ q \in Seq(Char) /\ Len(q) = Len(s) + 2 /\ q[1] = "[" /\ q[Len(s) + 2] = "]"
      /\ Len(s) \in Nat /\ \A p \in 1 .. Len(s) : q[p + 1] = s[p]
  BY <1>1, Marks, Framed
<1>4. k + Len(q) <= Len(text) /\ Len(text) \in Nat /\ \A p \in 1 .. Len(q) : text[k + p] = q[p]
  BY DEF Comes, Scanned
<1>5. Comes(text, k, q) /\ Parsed(q) = <<r>>
  OBVIOUS
<1> HIDE DEF q
<1>6. /\ text[k + 1] = "[" /\ text[k + Len(s) + 2] = "]"
      /\ Comes(text, k + 1, s) /\ k + Len(s) + 2 <= Len(text)
  <2>1. 1 \in 1 .. Len(q) /\ Len(s) + 2 \in 1 .. Len(q)
    BY <1>3
  <2>2. ASSUME NEW p \in 1 .. Len(s) PROVE text[k + 1 + p] = s[p]
    <3>1. p + 1 \in 1 .. Len(q) /\ k + (p + 1) = k + 1 + p
      BY <1>3
    <3> QED
      BY <1>3, <1>4, <3>1
  <2>3. k + (Len(s) + 2) = k + Len(s) + 2 /\ k + 1 + Len(s) <= Len(text)
    BY <1>3, <1>4
  <2>4. Comes(text, k + 1, s)
    BY <2>2, <2>3 DEF Comes
  <2> QED
    BY <1>3, <1>4, <2>1, <2>3, <2>4
<1>7. \A i \in 1 .. Len(text) : f[i] = Scan(text, f[i - 1], i)
  BY DEF Scanned
<1>8. f[k + 1] = opened
  <2>1. k + 1 \in 1 .. Len(text) /\ (k + 1) - 1 = k
    BY <1>3, <1>4
  <2>2. f[k + 1] = Scan(text, Out(0, 0, sets), k + 1)
    BY <1>7, <2>1
  <2>3. text[k + 1] = "["
    BY <1>6
  <2> QED
    BY <2>2, <2>3, ScanOutside
<1> DEFINE S == { i \in 0 .. n : f[k + 1 + Len(u[i])] = opened }
<1>9. 0 \in S
  <2>1. Len(u[0]) = 0
    BY <1>2 DEF Pieces
  <2>2. k + 1 + Len(u[0]) = k + 1 /\ 0 \in 0 .. n
    BY <1>1, <2>1
  <2> QED
    BY <1>8, <2>2
<1> HIDE DEF opened
<1>10. ASSUME NEW i \in 0 .. n - 1, i \in S PROVE i + 1 \in S
  <2> DEFINE a == k + 1 + Len(u[i])
             m == r[i + 1]
  <2>1. i + 1 \in 1 .. n /\ i \in 0 .. Len(e) - 1 /\ i + 1 \in 0 .. n
    BY <1>1
  <2>2. m \in Message /\ e[i + 1] = Quoted(m)
    BY <1>1, <2>1
  <2>3. k + 1 \in Nat
    OBVIOUS
  <2>4. /\ a \in Nat /\ Comes(text, a, Quoted(m))
        /\ k + 1 + Len(u[i + 1]) = a + Len(Quoted(m))
    <3>1. k + 1 + Len(u[i]) \in Nat /\ Comes(text, k + 1 + Len(u[i]), e[i + 1])
          /\ k + 1 + Len(u[i + 1]) = k + 1 + Len(u[i]) + Len(e[i + 1])
      <4> DEFINE h == k + 1
      <4>1. h \in Nat /\ Len(text) \in Nat
        BY <1>4
      <4>2. e \in Seq(Seq(Char)) /\ s \in Seq(Char)
        BY <1>1
      <4>3. Comes(text, h, s)
        BY <1>6
      <4>4. i \in 0 .. Len(e) - 1
        BY <2>1
      <4> HIDE DEF h
      <4>5. InTurn(text, h, e, u)
        BY <1>2, <4>1, <4>2, <4>3, PiecesCome
      <4>6. /\ h + Len(u[i]) \in Nat /\ Comes(text, h + Len(u[i]), e[i + 1])
            /\ h + Len(u[i + 1]) = h + Len(u[i]) + Len(e[i + 1])
        BY <4>4, <4>5, Zenon DEF InTurn
      <4> QED
        BY <4>6 DEF h
    <3> HIDE DEF m
    <3> QED
      BY <2>2, <3>1
  <2>5. f[a] = opened
    BY <1>10
  <2> HIDE DEF a, m
  <2>6. f[a + Len(Quoted(m))] = opened
    BY <2>2, <2>3, <2>4, <2>5, MessageScanned DEF opened
  <2> QED
    BY <2>1, <2>4, <2>6
<1> HIDE DEF S
<1>11. f[k + 1 + Len(s)] = opened
  <2>1. \A i \in 0 .. n : i \in S
    BY <1>1, <1>9, <1>10, UpTo
  <2>2. u[n] = s /\ n \in 0 .. n
    BY <1>1, <1>2 DEF Pieces
  <2> QED
    BY <2>1, <2>2 DEF S
<1>12. f[k + Len(q)] = Out(0, 0, sets \o <<r>>)
  <2> DEFINE b == k + Len(q)
  <2>1. b \in 1 .. Len(text) /\ b - 1 = k + 1 + Len(s) /\ k + Len(s) + 2 = b
    BY <1>3, <1>4
  <2>2. text[b] = "]"
    BY <1>6, <2>1
  <2>3. SubSeq(text, k + 1, b) = q
    BY <1>3, <1>5, Slice
  <2>4. k + 1 \in Nat /\ k + 1 > 0
    OBVIOUS
  <2> HIDE DEF b
  <2>5. f[b] = Scan(text, Out(1, k + 1, sets), b)
    BY <1>7, <1>11, <2>1 DEF opened
  <2>6. f[b] = Out(0, 0, sets \o Parsed(SubSeq(text, k + 1, b)))
    BY <2>2, <2>4, <2>5, ScanOutside
  <2>7. Parsed(SubSeq(text, k + 1, b)) = <<r>>
    BY <1>5, <2>3
  <2>8. f[b] = Out(0, 0, sets \o <<r>>)
    BY <2>6, <2>7
  <2> QED
    BY <2>8 DEF b
<1> QED
  BY <1>12 DEF q

\* JSON.parse gives back the set that was printed, and no other.
LEMMA ParsedBack ==
  ASSUME NEW sc \in Script, NEW i \in 1 .. Len(sc)
  PROVE  sc[i] \in ResultSet /\ Parsed(Printed(sc[i])) = <<sc[i]>>
<1> DEFINE sets == UNION { Range(x) : x \in Script }
           r == sc[i]
<1>1. \A x \in Script : x \in Seq(ResultSet)
  BY CallAssumption DEF CallAssumption, ResultSet, Message
<1>2. ASSUME NEW x \in Script PROVE DOMAIN x = 1 .. Len(x) /\ \A j \in DOMAIN x : x[j] \in ResultSet
  <2>1. x \in Seq(ResultSet)
    BY <1>1
  <2> QED
    BY <2>1
<1>3. r \in ResultSet /\ i \in DOMAIN sc
  BY <1>2
<1>4. \A q \in sets : q \in ResultSet
  BY <1>2 DEF Range
<1>5. r \in sets
  <2>1. r \in Range(sc)
    BY <1>3 DEF Range
  <2> QED
    BY <2>1
<1> HIDE DEF sets
<1>6. \A q \in sets : Printed(q) = Printed(r) => q = r
  BY <1>3, <1>4, PrintedOnce
<1>7. RowsIn(Printed(r)) = r
  <2>1. RowsIn(Printed(r)) = CHOOSE q \in sets : Printed(q) = Printed(r)
    BY DEF RowsIn, sets
  <2> QED
    BY <1>5, <1>6, <2>1
<1>8. WellFormed(Printed(r))
  BY <1>3 DEF WellFormed
<1> QED
  BY <1>3, <1>7, <1>8 DEF Parsed

LinesOf(sets) == [i \in DOMAIN sets |-> Printed(sets[i]) \o <<"newline">>]

LEMMA LinesOfScript ==
  ASSUME NEW sc \in Script
  PROVE  /\ sc \in Seq(ResultSet) /\ Len(sc) \in Nat
         /\ LinesOf(sc) \in Seq(Seq(Char)) /\ Len(LinesOf(sc)) = Len(sc)
         /\ Text(sc) = FlattenSeq(LinesOf(sc)) /\ Text(sc) \in Seq(Char)
         /\ \A i \in 1 .. Len(sc) :
              LET r == Printed(sc[i])
                  line == LinesOf(sc)[i] IN
                /\ r \in Seq(Char) /\ line \in Seq(Char) /\ Len(line) = Len(r) + 1
                /\ \A p \in 1 .. Len(r) : line[p] = r[p]
                /\ line[Len(r) + 1] = "newline"
<1>1. sc \in Seq(ResultSet)
  BY CallAssumption DEF CallAssumption, ResultSet, Message
<1>2. Len(sc) \in Nat /\ DOMAIN sc = 1 .. Len(sc) /\ \A i \in 1 .. Len(sc) : sc[i] \in ResultSet
  BY <1>1
<1>3. ASSUME NEW i \in 1 .. Len(sc)
      PROVE  LET r == Printed(sc[i])
                 line == r \o <<"newline">> IN
               /\ r \in Seq(Char) /\ line \in Seq(Char) /\ Len(line) = Len(r) + 1
               /\ \A p \in 1 .. Len(r) : line[p] = r[p]
               /\ line[Len(r) + 1] = "newline"
  <2> DEFINE s == FlattenSeq(QuotesOf(sc[i]))
             r == Printed(sc[i])
  <2>1. s \in Seq(Char) /\ r = <<"[">> \o s \o <<"]">>
    BY <1>2, QuotesOfRows
  <2> HIDE DEF s
  <2>2. r \in Seq(Char)
    BY <2>1, Marks, Framed
  <2> HIDE DEF r
  <2>3. "newline" \in Char
    BY Marks
  <2>4. <<"newline">> \in Seq(Char) /\ Len(<<"newline">>) = 1 /\ <<"newline">>[1] = "newline"
    BY <2>3
  <2>5. /\ r \o <<"newline">> \in Seq(Char) /\ Len(r \o <<"newline">>) = Len(r) + 1
        /\ \A p \in 1 .. Len(r) : (r \o <<"newline">>)[p] = r[p]
        /\ (r \o <<"newline">>)[Len(r) + 1] = "newline"
    BY <2>2, <2>3
  <2> QED
    BY <2>2, <2>5 DEF r
<1>4. LinesOf(sc) = [i \in 1 .. Len(sc) |-> Printed(sc[i]) \o <<"newline">>]
  BY <1>2 DEF LinesOf
<1>5. LinesOf(sc) \in Seq(Seq(Char)) /\ Len(LinesOf(sc)) = Len(sc)
  BY <1>2, <1>3, <1>4
<1>6. \A i \in 1 .. Len(sc) : LinesOf(sc)[i] = Printed(sc[i]) \o <<"newline">>
  BY <1>4
<1>7. Text(sc) = FlattenSeq(LinesOf(sc)) /\ Text(sc) \in Seq(Char)
  BY <1>5, FlattenPieces DEF Text, LinesOf
<1> QED
  BY <1>1, <1>2, <1>3, <1>5, <1>6, <1>7

\* The scanner reads back what a script printed, set by set, whatever brackets,
\* quotes and backslashes its messages hold.
THEOREM ReadsBack ==
  ASSUME NEW sc \in Script
  PROVE  ParseResultSets(Text(sc)) = sc
<1> DEFINE text == Text(sc)
           e == LinesOf(sc)
           n == Len(sc)
<1>1. /\ sc \in Seq(ResultSet) /\ n \in Nat /\ e \in Seq(Seq(Char)) /\ Len(e) = n
      /\ text = FlattenSeq(e) /\ text \in Seq(Char)
  BY LinesOfScript
<1>2. PICK u : Pieces(text, e, u, Char)
  BY <1>1, FlattenPieces
<1>3. Len(text) \in Nat
  BY <1>1
<1>4. PICK f : /\ f[0] = Scanning
               /\ \A i \in 1 .. Len(text) : f[i] = Scan(text, f[i - 1], i)
               /\ ParseResultSets(text) = f[Len(text)].sets
  BY <1>3, ParseScans
<1>5. Scanned(f, text)
  BY <1>3, <1>4 DEF Scanned
<1> HIDE DEF text, e
<1>6. InTurn(text, 0, e, u)
  <2>1. Comes(text, 0, text)
    BY <1>3 DEF Comes
  <2> QED
    BY <1>1, <1>2, <1>3, <2>1, PiecesCome
<1> DEFINE S == { i \in 0 .. n : f[Len(u[i])] = Out(0, 0, SubSeq(sc, 1, i)) }
<1>7. 0 \in S
  <2>1. Len(u[0]) = 0
    BY <1>2 DEF Pieces
  <2>2. SubSeq(sc, 1, 0) = << >>
    BY <1>1
  <2>3. Scanning = Out(0, 0, << >>)
    BY DEF Scanning, Out, State
  <2>4. f[Len(u[0])] = Out(0, 0, SubSeq(sc, 1, 0))
    BY <1>4, <2>1, <2>2, <2>3
  <2>5. 0 \in 0 .. n
    BY <1>1
  <2> QED
    BY <2>4, <2>5
<1>8. ASSUME NEW i \in 0 .. n - 1, i \in S PROVE i + 1 \in S
  <2> DEFINE k == Len(u[i])
             there == Len(u[i + 1])
             r == sc[i + 1]
             line == e[i + 1]
             q == Printed(r)
             sets == SubSeq(sc, 1, i)
  <2>1. i + 1 \in 1 .. n /\ i \in 0 .. Len(e) - 1 /\ i + 1 \in 0 .. n /\ i \in 0 .. Len(e)
    BY <1>1
  <2>2. k \in Nat
    <3>1. u[i] \in Seq(Char)
      BY <1>2, <2>1 DEF Pieces
    <3> QED
      BY <3>1
  <2>3. Comes(text, k, line) /\ there = k + Len(line)
    <3>1. /\ Comes(text, 0 + Len(u[i]), e[i + 1])
          /\ 0 + Len(u[i + 1]) = 0 + Len(u[i]) + Len(e[i + 1])
      BY <1>6, <2>1, Zenon DEF InTurn
    <3>2. 0 + Len(u[i]) = k
      BY <2>2
    <3>3. Len(u[i + 1]) \in Nat
      <4>1. u[i + 1] \in Seq(Char)
        BY <1>1, <1>2, <2>1 DEF Pieces
      <4> QED
        BY <4>1
    <3>4. 0 + Len(u[i + 1]) = there
      BY <3>3
    <3> QED
      BY <3>1, <3>2, <3>4
  <2>4. /\ q \in Seq(Char) /\ line \in Seq(Char) /\ Len(line) = Len(q) + 1
        /\ \A p \in 1 .. Len(q) : line[p] = q[p]
        /\ line[Len(q) + 1] = "newline"
    BY <2>1, LinesOfScript DEF e
  <2>5. r \in ResultSet /\ Parsed(q) = <<r>>
    BY <2>1, ParsedBack
  <2>6. f[k] = Out(0, 0, sets)
    BY <1>8
  <2>7. SubSeq(sc, 1, i + 1) = sets \o <<r>>
    BY <1>1, <2>1
  <2> HIDE DEF k, there, r, line, sets
  <2>8. k + Len(line) <= Len(text) /\ \A p \in 1 .. Len(line) : text[k + p] = line[p]
    BY <2>3 DEF Comes
  <2> DEFINE lq == Len(q)
             b == k + lq + 1
  <2>9. lq \in Nat /\ Len(line) = lq + 1 /\ there = b
    BY <2>2, <2>3, <2>4
  <2>10. Comes(text, k, q)
    <3>1. k + lq <= Len(text)
      BY <1>3, <2>2, <2>8, <2>9
    <3>2. ASSUME NEW p \in 1 .. lq PROVE text[k + p] = q[p]
      <4>1. p \in 1 .. Len(line)
        BY <2>9
      <4> QED
        BY <2>4, <2>8, <4>1
    <3> QED
      BY <3>1, <3>2 DEF Comes
  <2>11. f[k + lq] = Out(0, 0, sets \o <<r>>)
    BY <1>1, <1>5, <2>2, <2>5, <2>6, <2>10, RowsScanned
  <2>12. b \in 1 .. Len(text) /\ b - 1 = k + lq /\ text[b] = "newline"
    <3>1. lq + 1 \in 1 .. Len(line) /\ k + (lq + 1) = b
      BY <2>2, <2>9
    <3>2. text[b] = "newline"
      BY <2>4, <2>8, <3>1
    <3>3. b <= Len(text)
      BY <2>2, <2>8, <2>9
    <3> QED
      BY <1>3, <2>2, <2>9, <3>2, <3>3
  <2> HIDE DEF b, lq
  <2>13. f[b] = Scan(text, Out(0, 0, sets \o <<r>>), b)
    BY <1>4, <2>11, <2>12
  <2>14. f[b] = Out(0, 0, sets \o <<r>>)
    BY <2>12, <2>13, ScanOutside
  <2>15. f[there] = Out(0, 0, SubSeq(sc, 1, i + 1))
    BY <2>7, <2>9, <2>14
  <2> QED
    BY <2>1, <2>15 DEF there
<1> HIDE DEF S
<1>9. n \in S
  <2>1. \A i \in 0 .. n : i \in S
    BY <1>1, <1>7, <1>8, UpTo
  <2> QED
    BY <1>1, <2>1
<1>10. u[n] = text
  BY <1>1, <1>2 DEF Pieces
<1>11. SubSeq(sc, 1, n) = sc
  BY <1>1
<1>12. f[Len(text)] = Out(0, 0, sc)
  BY <1>9, <1>10, <1>11 DEF S
<1>13. f[Len(text)].sets = sc
  BY <1>12 DEF Out, State
<1> QED
  BY <1>4, <1>13 DEF text

\* Only a script without sets prints nothing.
LEMMA PrintsNothing ==
  ASSUME NEW sc \in Script, Len(Text(sc)) = 0
  PROVE  sc = << >>
<1> DEFINE text == Text(sc)
           e == LinesOf(sc)
<1>1. /\ sc \in Seq(ResultSet) /\ Len(sc) \in Nat /\ e \in Seq(Seq(Char)) /\ Len(e) = Len(sc)
      /\ text = FlattenSeq(e) /\ text \in Seq(Char)
  BY LinesOfScript
<1>2. PICK u : Pieces(text, e, u, Char)
  BY <1>1, FlattenPieces
<1> SUFFICES ASSUME Len(sc) # 0 PROVE FALSE
  BY <1>1
<1>3. 1 \in 1 .. Len(sc) /\ 1 \in 1 .. Len(e) /\ 1 - 1 = 0
  BY <1>1
<1>4. Printed(sc[1]) \in Seq(Char) /\ Len(e[1]) = Len(Printed(sc[1])) + 1
  BY <1>3, LinesOfScript
<1>5. Len(Printed(sc[1])) \in Nat
  BY <1>4
<1> HIDE DEF e, text
<1>6. u[0] = << >> /\ Len(u[1]) = Len(u[1 - 1]) + Len(e[1]) /\ Len(u[1]) <= Len(text)
  BY <1>2, <1>3 DEF Pieces
<1>7. Len(u[1]) = Len(e[1])
  <2>1. Len(u[1 - 1]) = 0
    BY <1>3, <1>6
  <2> QED
    BY <1>4, <1>5, <1>6, <2>1
<1>8. Len(text) = 0
  BY DEF text
<1>9. Len(Printed(sc[1])) + 1 <= 0
  BY <1>4, <1>6, <1>7, <1>8
<1> QED
  BY <1>5, <1>9

-----------------------------------------------------------------------------
(* The call.  CallInv says when a child is running, and of one that exited   *)
(* with 0 that it did all it had to do and printed all of it.                *)

CallInv ==
  /\ script \in Script /\ effect \in 0 .. Whole
  /\ phase \in {"idle", "writing", "waiting", "answered"}
  /\ child = "running" => phase \in {"writing", "waiting"}
  /\ phase \in {"writing", "waiting"} => result = Failure
  /\ child = "exited" /\ code = 0 => effect = Whole /\ printed = Len(Text(script))

LEMMA CallInvInit == CallInit => CallInv
  BY DEF CallInit, CallInv, Whole

LEMMA CallInvStep == CallInv /\ [CallNext]_callVars => CallInv'
<1> SUFFICES ASSUME CallInv, [CallNext]_callVars PROVE CallInv'
  OBVIOUS
<1> USE DEF CallInv, childVars, timerVars
<1>1. CASE Works
  BY <1>1 DEF Works, Whole
<1>2. CASE Completes
  BY <1>2 DEF Completes
<1>3. CASE Dies
  BY <1>3 DEF Dies
<1>4. CASE Spawn
  BY <1>4 DEF Spawn, Whole
<1>5. CASE SpawnThrows
  BY <1>5 DEF SpawnThrows, Whole
<1>6. CASE StdinEnds
  BY <1>6 DEF StdinEnds
<1>7. CASE TimerFires
  BY <1>7 DEF TimerFires
<1>8. CASE HardFires
  BY <1>8 DEF HardFires
<1>9. CASE Returns
  BY <1>9 DEF Returns, AllCame
<1>10. CASE UNCHANGED callVars
  BY <1>10 DEF callVars
<1> QED
  BY <1>1, <1>2, <1>3, <1>4, <1>5, <1>6, <1>7, <1>8, <1>9, <1>10 DEF CallNext

\* What is answered of a child that exited: a failure, or the last set of a
\* script that had its whole effect.
LEMMA AnswerPlain ==
  ASSUME CallInv, child = "exited"
  PROVE  \/ Answer = Failure
         \/ effect = Whole /\ Answer = [ok |-> TRUE, rows |-> AC!LastOf(script)]
<1> SUFFICES ASSUME Answer # Failure
             PROVE  effect = Whole /\ Answer = [ok |-> TRUE, rows |-> AC!LastOf(script)]
  OBVIOUS
<1>1. ~timedOut /\ code = 0
  BY DEF Answer
<1>2. script \in Script /\ effect = Whole /\ printed = Len(Text(script))
  BY <1>1 DEF CallInv
<1>3. Sets[script] = script
  BY <1>2, ReadsBack DEF Sets
<1>4. CASE printed = 0
  <2>1. script = << >>
    BY <1>2, <1>4, PrintsNothing
  <2> QED
    BY <1>1, <1>2, <1>4, <2>1 DEF Answer, AC!LastOf
<1>5. CASE printed # 0
  <2>1. script # << >>
    BY <1>1, <1>3, <1>5 DEF Answer
  <2>2. Answer = [ok |-> TRUE, rows |-> Last(script)]
    BY <1>1, <1>3, <1>5, <2>1 DEF Answer
  <2> QED
    BY <1>2, <2>1, <2>2 DEF Last, AC!LastOf
<1> QED
  BY <1>4, <1>5

\* Every step of a call is one of ArchiveCall's, or none.
LEMMA CallRefines ==
  ASSUME CallInv, [CallNext]_callVars
  PROVE  [AC!Opens \/ AC!Refused \/ AC!Works \/ AC!Succeeds \/ AC!GivesUp]_<<Stage, script, effect, result>>
<1> USE DEF childVars, timerVars, Stage
<1>1. CASE Works
  <2>1. Stage = "open" /\ effect < 2
    BY <1>1 DEF Works, CallInv, Whole
  <2>2. AC!Works
    BY <1>1, <2>1 DEF Works, AC!Works
  <2> QED
    BY <2>2
<1>2. CASE Completes \/ Dies
  BY <1>2 DEF Completes, Dies
<1>3. CASE Spawn
  <2>1. AC!Opens
    BY <1>3 DEF Spawn, AC!Opens, AC!NoAnswer, Failure
  <2> QED
    BY <2>1
<1>4. CASE SpawnThrows
  <2>1. AC!Refused
    BY <1>4 DEF SpawnThrows, AC!Refused, AC!NoAnswer, Failure
  <2> QED
    BY <2>1
<1>5. CASE StdinEnds
  BY <1>5 DEF StdinEnds
<1>6. CASE TimerFires
  BY <1>6 DEF TimerFires
<1>7. CASE HardFires
  BY <1>7 DEF HardFires
<1>8. CASE Returns
  <2>1. child = "exited" /\ phase = "waiting" /\ result = Failure
    BY <1>8 DEF Returns, AllCame, CallInv
  <2>2. /\ Stage = "open" /\ Stage' = "answered" /\ result' = Answer
        /\ UNCHANGED <<script, effect>>
    BY <1>8 DEF Returns
  <2>3. CASE Answer = Failure
    <3>1. AC!GivesUp
      BY <2>1, <2>2, <2>3 DEF AC!GivesUp
    <3> QED
      BY <3>1
  <2>4. CASE Answer # Failure
    <3>1. effect = Whole /\ Answer = [ok |-> TRUE, rows |-> AC!LastOf(script)]
      BY <2>1, <2>4, AnswerPlain
    <3>2. AC!Succeeds
      BY <2>2, <3>1 DEF AC!Succeeds, Whole
    <3> QED
      BY <3>2
  <2> QED
    BY <2>3, <2>4
<1>9. CASE UNCHANGED callVars
  BY <1>9 DEF callVars
<1> QED
  BY <1>1, <1>2, <1>3, <1>4, <1>5, <1>6, <1>7, <1>8, <1>9 DEF CallNext

\* A call of DuckDB is what its callers take it for, whatever is stored and
\* asked for, and however the child, the timers and the signals race.
THEOREM CallsArePlainAlways == CallSpec => CallsArePlain
<1>1. CallInit => AC!Init
  BY DEF CallInit, AC!Init, AC!NoAnswer, Failure, Stage
<1>2. CallInit /\ [][CallNext]_callVars
        => [][AC!Opens \/ AC!Refused \/ AC!Works \/ AC!Succeeds \/ AC!GivesUp]_<<Stage, script, effect, result>>
  BY CallInvInit, CallInvStep, CallRefines, PTL
<1> QED
  BY <1>1, <1>2, PTL DEF CallSpec, CallsArePlain, AC!Spec, AC!vars

=============================================================================
