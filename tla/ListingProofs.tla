--------------------------- MODULE ListingProofs ---------------------------
(* Theorems about Listing, for any rows, filters, limits and changes of the  *)
(* table between and during the requests for pages.                          *)
EXTENDS Listing, FiniteSetTheorems, FunctionTheorems, SequenceTheorems, TLAPS

Table == \E r \in Rows : Stamp(r) \/ Insert(r) \/ \E s \in Statuses : Change(r, s)

\* The page holds rows, and whoever pages asked for a number of them.
ListingInv ==
    /\ TypeOK
    /\ page \in Seq(Rows)
    /\ pc \notin {"start", "refused"} => limit \in Int

LEMMA MatchingFinite ==
    ASSUME stored \subseteq Rows
    PROVE  /\ IsFiniteSet(Matching) /\ Matching \subseteq stored
           /\ Cardinality(Matching) \in 0..Cardinality(Rows)
<1>1. Matching \in SUBSET Rows /\ Matching \subseteq stored BY DEF Matching
<1>2. IsFiniteSet(Rows) BY LimitsAssumption
<1>3. IsFiniteSet(Matching) /\ Cardinality(Matching) <= Cardinality(Rows)
    BY <1>1, <1>2, FS_Subset
<1>4. Cardinality(Matching) \in Nat /\ Cardinality(Rows) \in Nat
    BY <1>2, <1>3, FS_CardinalityType
<1>. QED BY <1>1, <1>3, <1>4

\* The rows of a page, in the order of the SELECT.
LEMMA SortedFacts ==
    ASSUME stored \subseteq Rows, NEW s \in Sorted
    PROVE  /\ s \in Seq(Matching) /\ Len(s) = Cardinality(Matching)
           /\ DOMAIN s = 1..Len(s) /\ Len(s) \in Nat
           /\ \A i \in 1..Len(s) : s[i] \in Matching
           /\ \A i, j \in 1..Len(s) : i # j => s[i] # s[j]
           /\ \A i, j \in 1..Len(s) : i < j => at[s[i]] >= at[s[j]]
           /\ \A r \in Matching : \E i \in 1..Len(s) : s[i] = r
<1>. DEFINE n == Cardinality(Matching)
<1>1. n \in Nat /\ IsFiniteSet(Matching)
    BY MatchingFinite, FS_CardinalityType
<1>2. /\ s \in [1..n -> Matching]
      /\ \A i, j \in 1..n : i # j => s[i] # s[j]
      /\ \A i, j \in DOMAIN s : i < j => at[s[i]] >= at[s[j]]
    BY DEF Sorted, SetToSeqs
<1>. HIDE DEF n
<1>3. DOMAIN s = 1..n BY <1>2
<1>4. s \in Seq(Matching) /\ Len(s) = n BY <1>1, <1>2
<1>5. IsFiniteSet(1..n) /\ Cardinality(1..n) = n
    <2>1. IsFiniteSet(1..n) /\ Cardinality(1..n) = IF 1 > n THEN 0 ELSE n - 1 + 1
        BY <1>1, FS_Interval
    <2>. QED BY <1>1, <2>1
<1>6. s \in Surjection(1..n, Matching)
    <2>1. s \in Injection(1..n, Matching) BY <1>2, Fun_IsInj
    <2>. QED BY <1>1, <1>5, <2>1, FS_Injection DEF n
<1>7. \A r \in Matching : \E i \in 1..n : s[i] = r BY <1>6 DEF Surjection
<1>. QED BY <1>1, <1>2, <1>3, <1>4, <1>7 DEF n

LEMMA SequenceFacts ==
    ASSUME NEW S, NEW q \in Seq(S)
    PROVE  /\ DOMAIN q = 1..Len(q) /\ Len(q) \in Nat
           /\ \A i \in DOMAIN q : q[i] \in S
           /\ q = <<>> <=> Len(q) = 0
OBVIOUS

LEMMA AppliedType == ASSUME NEW n \in Int PROVE Applied(n) \in Int /\ Applied(n) >= 1
BY LimitsAssumption DEF Applied

LEMMA SkipType == ASSUME offset \in Int PROVE Skip \in Nat
BY DEF Skip

\* The page a SELECT returns: the rows of s after the first Skip, Applied(limit)
\* of them or as many as there are.
PageOf(s) == SubSeq(s, Skip + 1, IF Skip + Applied(limit) < Len(s)
                                 THEN Skip + Applied(limit) ELSE Len(s))

\* What is true of such a page.
IsPage(q, s) ==
    /\ q \in Seq(Rows) /\ Len(q) \in Nat /\ Skip \in Nat
    /\ \A i \in DOMAIN q : q[i] \in Matching
    /\ q = <<>> <=> Len(s) <= Skip
    /\ q # <<>> => Skip + Len(q) <= Len(s)
    /\ Len(q) >= Applied(limit) \/ Skip + Len(q) >= Len(s)
    /\ \A i \in 1..Len(s) :
           i > Skip /\ i <= Skip + Len(q) => \E j \in DOMAIN q : q[j] = s[i]

LEMMA PageFacts ==
    ASSUME ListingInv, pc = "select", NEW s \in Sorted, NEW q, q = PageOf(s)
    PROVE  IsPage(q, s)
<1>. DEFINE last == IF Skip + Applied(limit) < Len(s) THEN Skip + Applied(limit) ELSE Len(s)
<1>1. /\ Skip \in Nat /\ Applied(limit) \in Int /\ Applied(limit) >= 1
      /\ stored \subseteq Rows
    BY AppliedType, SkipType DEF ListingInv, TypeOK
<1>2. s \in Seq(Matching) /\ Len(s) \in Nat /\ Matching \subseteq Rows
    BY <1>1, SortedFacts, MatchingFinite
<1>3. last \in Int /\ last <= Len(s) /\ (last > Skip <=> Len(s) > Skip) BY <1>1, <1>2
<1>. HIDE DEF last
<1>4. \A i \in (Skip + 1)..last : s[i] \in Matching BY <1>1, <1>2, <1>3
<1>5. q = SubSeq(s, Skip + 1, last) BY DEF last, PageOf
<1>6. /\ q \in Seq(Matching)
      /\ Len(q) = IF Skip + 1 <= last THEN last - (Skip + 1) + 1 ELSE 0
      /\ \A i \in 1..last - (Skip + 1) + 1 : q[i] = s[Skip + 1 + i - 1]
    BY <1>1, <1>3, <1>4, <1>5, SubSeqProperties
<1>7. q \in Seq(Rows) BY <1>2, <1>6
<1>8. DOMAIN q = 1..Len(q) /\ \A i \in DOMAIN q : q[i] \in Matching
    BY <1>6, SequenceFacts, Zenon
<1>9. /\ Len(q) = IF last > Skip THEN last - Skip ELSE 0
      /\ DOMAIN q = 1..Len(q)
      /\ \A i \in 1..last - Skip : q[i] = s[Skip + i]
    <2>1. last - (Skip + 1) + 1 = last - Skip /\ (Skip + 1 <= last <=> last > Skip)
        BY <1>1, <1>3
    <2>2. \A i \in 1..last - Skip : Skip + 1 + i - 1 = Skip + i BY <1>1, <1>3
    <2>3. \A i \in 1..last - Skip : q[i] = s[Skip + i] BY <1>6, <2>1, <2>2
    <2>. QED BY <1>6, <1>8, <2>1, <2>3
<1>10. q = <<>> <=> Len(q) = 0
    <2>1. q = <<>> => Len(q) = 0 OBVIOUS
    <2>2. Len(q) = 0 => q = <<>> BY <1>6, EmptySeq
    <2>. QED BY <2>1, <2>2
<1>11. q = <<>> <=> Len(s) <= Skip
    <2>1. Len(q) = 0 <=> Len(s) <= Skip BY <1>1, <1>2, <1>3, <1>9
    <2>. QED BY <1>10, <2>1, Zenon
<1>12. ASSUME NEW i \in 1..Len(s), i > Skip, i <= Skip + Len(q)
       PROVE  \E j \in DOMAIN q : q[j] = s[i]
    <2>1. i - Skip \in 1..Len(q) /\ i - Skip \in 1..last - Skip /\ Skip + (i - Skip) = i
        BY <1>1, <1>2, <1>3, <1>9, <1>12
    <2>2. q[i - Skip] = s[i] BY <1>9, <2>1
    <2>. QED BY <1>9, <2>1, <2>2
<1>13. Len(q) \in Nat BY <1>1, <1>3, <1>9
<1>14. ASSUME q # <<>> PROVE Skip + Len(q) <= Len(s)
    BY <1>1, <1>2, <1>3, <1>9, <1>11, <1>14
<1>15. Len(q) >= Applied(limit) \/ Skip + Len(q) >= Len(s)
    BY <1>1, <1>2, <1>9 DEF last
<1>. QED BY <1>1, <1>7, <1>8, <1>11, <1>12, <1>13, <1>14, <1>15 DEF IsPage

LEMMA SelectPage == ASSUME ListingInv, Select PROVE \E s \in Sorted : IsPage(page', s)
<1>1. PICK s \in Sorted : page' = PageOf(s) BY DEF Select, PageOf
<1>2. PICK q : q = page' OBVIOUS
<1>3. pc = "select" BY DEF Select
<1>4. q = PageOf(s) BY <1>1, <1>2
<1>5. IsPage(q, s) BY <1>3, <1>4, PageFacts
<1>6. IsPage(page', s) BY <1>2, <1>5
<1>. QED BY <1>6

LEMMA ListingInit == Init => ListingInv
<1>. SUFFICES ASSUME Init PROVE ListingInv OBVIOUS
<1>1. 0 \in 0..Cardinality(Rows) BY LimitsAssumption, FS_CardinalityType
<1>. QED BY <1>1, LimitsAssumption DEF Init, ListingInv, TypeOK

LEMMA TableType == ASSUME ListingInv, Table PROVE ListingInv'
<1>. USE DEF ListingInv, TypeOK, tableVars, clientVars, queryVars
<1>1. ASSUME NEW r \in Rows, Stamp(r) PROVE ListingInv'
    BY <1>1, LimitsAssumption DEF Stamp
<1>2. ASSUME NEW r \in Rows, Insert(r) PROVE ListingInv' BY <1>2 DEF Insert
<1>3. ASSUME NEW r \in Rows, NEW s \in Statuses, Change(r, s) PROVE ListingInv'
    <2>1. UNCHANGED <<now, at, stored, clientVars>> BY <1>3 DEF Change
    <2>2. status' \in [Rows -> Statuses] /\ steady' \subseteq stored' BY <1>3 DEF Change
    <2>3. /\ changes' \in 0..MaxChanges /\ left' \in 0..changes'
          /\ between' \in 0..left'
        <3>1. /\ changes \in 0..MaxChanges /\ left \in 0..changes /\ between \in 0..left
              /\ changes < MaxChanges /\ changes' = changes + 1
              /\ \/ left' = left /\ between' = between
                 \/ left' = left + 1 /\ between' \in {between, between + 1}
            BY <1>3 DEF Change
        <3>. HIDE DEF ListingInv, TypeOK
        <3>. QED BY <3>1, LimitsAssumption
    <2>. QED BY <2>1, <2>2, <2>3
<1>. QED BY <1>1, <1>2, <1>3 DEF Table

LEMMA ClientType == ASSUME ListingInv, Paging \/ Fail PROVE ListingInv'
<1>. USE DEF ListingInv, TypeOK, tableVars, queryVars
<1>1. /\ Matching \subseteq stored /\ Cardinality(Matching) \in 0..Cardinality(Rows)
    BY MatchingFinite
<1>2. CASE Ask BY <1>1, <1>2, LimitsAssumption DEF Ask
<1>3. CASE Count BY <1>1, <1>3 DEF Count, Total
<1>4. CASE Select
    <2>1. PICK s \in Sorted : IsPage(page', s) BY <1>4, SelectPage
    <2>2. page' \in Seq(Rows) /\ \A i \in DOMAIN page' : page'[i] \in Matching
        BY <2>1 DEF IsPage
    <2>3. seen' = seen \cup {page'[i] : i \in DOMAIN page'} BY <1>4 DEF Select
    <2>4. seen' \subseteq stored /\ \A i \in DOMAIN page' : page'[i] \in seen'
        BY <1>1, <2>2, <2>3
    <2>. QED BY <1>4, <2>2, <2>4 DEF Select
<1>5. CASE Continue
    <2>1. Skip + Len(page) \in Int BY SkipType
    <2>. QED BY <1>5, <2>1 DEF Continue
<1>6. CASE Fail BY <1>6 DEF Fail
<1>. QED BY <1>2, <1>3, <1>4, <1>5, <1>6 DEF Paging

LEMMA ListingStep == ListingInv /\ [Next]_vars => ListingInv'
<1>1. ASSUME ListingInv, UNCHANGED vars PROVE ListingInv'
    BY <1>1 DEF ListingInv, TypeOK, vars, tableVars, clientVars, queryVars
<1>. QED BY <1>1, TableType, ClientType DEF Next, Table

\* The types of the table, the client and its pages, for every instance.
THEOREM ListingTypeCorrect == Spec => []TypeOK
<1>1. ListingInv => TypeOK BY DEF ListingInv
<1>. QED BY <1>1, ListingInit, ListingStep, PTL DEF Spec

-----------------------------------------------------------------------------
(* What the changes of the table do to the rows that match                   *)

Same == UNCHANGED <<clientVars>> /\ \A q \in stored : q \in stored' /\ at'[q] = at[q]

\* Every row that matched still does ...
Grows == Same /\ Matching \subseteq Matching' /\ UNCHANGED <<steady, left, between>>

\* ... or one has ceased to.
Leaves(r) ==
    /\ Same /\ r \in Matching
    /\ Matching' = Matching \ {r} /\ steady' = steady \ {r}
    /\ UNCHANGED <<at, stored>> /\ left' = left + 1
    /\ between' = IF pc = "select" THEN between + 1 ELSE between

LEMMA TableCases ==
    ASSUME ListingInv, pc # "start", Table PROVE Grows \/ \E r \in Matching : Leaves(r)
<1>. USE DEF Grows, Leaves, Same, Matching, ListingInv, TypeOK
<1>1. ASSUME NEW r \in Rows, Stamp(r) PROVE Grows
    <2>1. \A q \in stored : at'[q] = at[q] BY <1>1 DEF Stamp
    <2>2. Matching' = Matching
        BY <1>1, <2>1 DEF Stamp, Satisfies, clientVars, queryVars
    <2>. QED BY <1>1, <2>1, <2>2 DEF Stamp
<1>2. ASSUME NEW r \in Rows, Insert(r) PROVE Grows
    BY <1>2 DEF Insert, Satisfies, clientVars, queryVars
<1>3. ASSUME NEW r \in Rows, NEW s \in Statuses, Change(r, s)
      PROVE  Grows \/ \E q \in Matching : Leaves(q)
    <2>1. /\ r \in stored /\ UNCHANGED <<at, stored, filter, clientVars>>
          /\ status'[r] = s /\ \A q \in Rows \ {r} : status'[q] = status[q]
        BY <1>3 DEF Change, clientVars, queryVars
    <2>2. \A q \in Rows \ {r} : Satisfies(q, status[q])' <=> Satisfies(q, status[q])
        BY <2>1 DEF Satisfies
    <2>3. Satisfies(r, status[r])' <=> Satisfies(r, s)
        BY <2>1 DEF Satisfies
    <2>4. CASE Satisfies(r, status[r]) /\ ~Satisfies(r, s)
        <3>1. Matching' = Matching \ {r} /\ r \in Matching
            BY <2>1, <2>2, <2>3, <2>4
        <3>. QED BY <1>3, <2>1, <2>4, <3>1 DEF Change
    <2>5. CASE ~(Satisfies(r, status[r]) /\ ~Satisfies(r, s))
        <3>1. Matching \subseteq Matching' BY <2>1, <2>2, <2>3, <2>5
        <3>. QED BY <1>3, <2>1, <2>5, <3>1 DEF Change
    <2>. QED BY <2>4, <2>5
<1>. QED BY <1>1, <1>2, <1>3 DEF Table

-----------------------------------------------------------------------------
\* A SELECT would find the total, but for the rows that left since the count.
TotalInv == /\ pc = "select" => total - between <= Cardinality(Matching)
            /\ TotalIsReachable

LEMMA PageInNat == ASSUME ListingInv PROVE Len(page) \in Nat /\ Skip \in Nat
<1>1. page \in Seq(Rows) BY DEF ListingInv
<1>2. Len(page) \in Nat BY <1>1, SequenceFacts, Zenon
<1>3. Skip \in Nat BY SkipType DEF ListingInv, TypeOK
<1>. QED BY <1>2, <1>3

LEMMA TotalStep == ListingInv /\ TotalInv /\ [Next]_vars => TotalInv'
<1>. SUFFICES ASSUME ListingInv, TotalInv, [Next]_vars PROVE TotalInv' OBVIOUS
<1>. USE DEF ListingInv, TypeOK, TotalInv, TotalIsReachable
<1>0. /\ IsFiniteSet(Matching) /\ Cardinality(Matching) \in Nat /\ total \in Int
      /\ (IsFiniteSet(Matching) /\ Cardinality(Matching) \in Nat)'
      /\ between \in Int /\ Skip \in Nat /\ Len(page) \in Nat /\ Applied(limit)' = Applied(limit)
    <2>1. ListingInv' BY ListingStep
    <2>2. IsFiniteSet(Matching) /\ Cardinality(Matching) \in Nat
        BY MatchingFinite, FS_CardinalityType
    <2>3. Matching' \in SUBSET Rows BY <2>1 DEF Matching
    <2>4. IsFiniteSet(Matching') /\ Cardinality(Matching') \in Nat
        BY <2>3, LimitsAssumption, FS_Subset, FS_CardinalityType
    <2>5. total \in Int /\ between \in Int
        BY LimitsAssumption, FS_CardinalityType
    <2>6. Skip \in Nat /\ Len(page) \in Nat BY PageInNat
    <2>7. limit' = limit
        BY DEF Next, Paging, Stamp, Insert, Change, Ask, Count, Select, Continue, Fail, vars,
               clientVars, queryVars
    <2>. QED BY <2>2, <2>4, <2>5, <2>6, <2>7 DEF Applied
<1>1. CASE Table
    <2>1. CASE pc = "start"
        <3>1. pc' = "start"
            BY <1>1, <2>1 DEF Table, Stamp, Insert, Change, clientVars
        <3>. QED BY <3>1
    <2>2. CASE pc # "start" /\ Grows
        <3>1. Matching \in SUBSET Matching' BY <2>2 DEF Grows
        <3>2. Cardinality(Matching) <= Cardinality(Matching)' BY <1>0, <3>1, FS_Subset
        <3>3. UNCHANGED <<pc, between, total, page, offset>> BY <2>2 DEF Grows, Same, clientVars
        <3>. QED BY <1>0, <3>2, <3>3 DEF Skip
    <2>3. ASSUME pc # "start", NEW r \in Matching, Leaves(r) PROVE TotalInv'
        <3>1. /\ UNCHANGED <<pc, total, page, offset>> /\ Matching' = Matching \ {r}
              /\ between' = IF pc = "select" THEN between + 1 ELSE between
            BY <2>3 DEF Leaves, Same, clientVars
        <3>2. Cardinality(Matching') = Cardinality(Matching) - 1
            <4>1. Cardinality(Matching \ {r}) =
                      IF r \in Matching THEN Cardinality(Matching) - 1 ELSE Cardinality(Matching)
                BY <1>0, FS_RemoveElement
            <4>. QED BY <2>3, <3>1, <4>1
        <3>3. Skip' = Skip BY <3>1 DEF Skip
        <3>4. pc' = "select" => total' - between' <= Cardinality(Matching')
            BY <1>0, <3>1, <3>2
        <3>5. TotalIsReachable' BY <1>0, <3>1, <3>3
        <3>. QED BY <3>4, <3>5
    <2>. QED BY <1>1, <2>1, <2>2, <2>3, TableCases
<1>2. CASE Ask \/ Continue \/ Fail BY <1>2 DEF Ask, Continue, Fail
<1>3. CASE Count
    <2>1. Matching' = Matching
        BY <1>3 DEF Count, Matching, Satisfies, tableVars, queryVars
    <2>. QED BY <1>0, <1>3, <2>1 DEF Count, Total
<1>4. CASE Select
    <2>1. PICK s \in Sorted : IsPage(page', s) BY <1>4, SelectPage
    <2>2. /\ Len(page') >= Applied(limit) \/ Skip + Len(page') >= Len(s)
          /\ Len(page') \in Nat
        BY <2>1 DEF IsPage
    <2>3. Len(s) = Cardinality(Matching) BY SortedFacts
    <2>4. Skip' = Skip /\ total' = total /\ between' = between /\ pc' = "answered"
        BY <1>4 DEF Select, Skip
    <2>5. pc = "select" BY <1>4 DEF Select
    <2>6. Len(s) >= total - between BY <2>3, <2>5
    <2>7. Len(page') >= Applied(limit) \/ Skip + Len(page') >= total - between
        BY <1>0, <2>2, <2>3, <2>6
    <2>8. TotalIsReachable' BY <1>0, <2>4, <2>7
    <2>. QED BY <2>4, <2>8
<1>5. CASE UNCHANGED vars
    <2>1. Matching' = Matching /\ Skip' = Skip
        BY <1>5 DEF vars, tableVars, clientVars, queryVars, Matching, Satisfies, Skip
    <2>2. UNCHANGED <<pc, total, between, page>> BY <1>5 DEF vars, clientVars
    <2>. QED BY <1>0, <2>1, <2>2
<1>. QED BY <1>1, <1>2, <1>3, <1>4, <1>5 DEF Next, Paging, Table

\* A page that is not full reaches the total of its own answer, short of it by no
\* more rows than ceased to match between the two statements: for any rows, filters,
\* limits and offsets, on every page, and whatever is stored or changed meanwhile.
THEOREM TotalIsReachableCorrect == Spec => []TotalIsReachable
<1>1. Init => ListingInv /\ TotalInv
    BY ListingInit DEF Init, TotalInv, TotalIsReachable
<1>2. ListingInv /\ TotalInv /\ [Next]_vars => (ListingInv /\ TotalInv)'
    BY ListingStep, TotalStep
<1>3. TotalInv => TotalIsReachable BY DEF TotalInv
<1>. QED BY <1>1, <1>2, <1>3, PTL DEF Spec

-----------------------------------------------------------------------------
(* PagingAdvances *)

\* A page that is not empty ends within the rows there are.
Within == pc = "answered" /\ page # <<>> => Skip + Len(page) <= Cardinality(stored)

LEMMA StoredGrows ==
    ASSUME ListingInv, ListingInv', [Next]_vars
    PROVE  /\ Cardinality(stored) <= Cardinality(stored')
           /\ Cardinality(stored) \in Nat /\ Cardinality(stored') \in Nat
<1>1. stored \in SUBSET stored'
    BY DEF Next, Paging, Stamp, Insert, Change, Ask, Count, Select, Continue, Fail, vars,
           tableVars
<1>2. stored' \in SUBSET Rows /\ stored \in SUBSET Rows BY DEF ListingInv, TypeOK
<1>3. IsFiniteSet(stored') BY <1>2, LimitsAssumption, FS_Subset
<1>4. Cardinality(stored) <= Cardinality(stored') BY <1>1, <1>3, FS_Subset
<1>5. IsFiniteSet(stored) BY <1>1, <1>3, FS_Subset
<1>. QED BY <1>3, <1>4, <1>5, FS_CardinalityType

LEMMA WithinStep == ListingInv /\ Within /\ [Next]_vars => Within'
<1>. SUFFICES ASSUME ListingInv, Within, [Next]_vars PROVE Within' OBVIOUS
<1>0. ListingInv' BY ListingStep
<1>1. CASE Select
    <2>1. PICK s \in Sorted : IsPage(page', s) BY <1>1, SelectPage
    <2>2. page' # <<>> => Skip + Len(page') <= Len(s) BY <2>1 DEF IsPage
    <2>3. Len(page') \in Nat /\ Skip \in Nat BY <2>1 DEF IsPage
    <2>4. stored \subseteq Rows BY DEF ListingInv, TypeOK
    <2>5. Len(s) = Cardinality(Matching) BY <2>4, SortedFacts
    <2>6. /\ Cardinality(Matching) <= Cardinality(stored)
          /\ Cardinality(Matching) \in Nat /\ Cardinality(stored) \in Nat
        <3>1. Matching \in SUBSET stored /\ IsFiniteSet(Matching) BY <2>4, MatchingFinite
        <3>2. stored \in SUBSET Rows BY <2>4
        <3>3. IsFiniteSet(stored) BY <3>2, LimitsAssumption, FS_Subset
        <3>4. Cardinality(Matching) <= Cardinality(stored) BY <3>1, <3>3, FS_Subset
        <3>. QED BY <3>1, <3>3, <3>4, FS_CardinalityType
    <2>7. stored' = stored /\ Skip' = Skip BY <1>1 DEF Select, tableVars, Skip
    <2>. QED BY <2>2, <2>3, <2>5, <2>6, <2>7 DEF Within
<1>2. CASE pc' # "answered" BY <1>2 DEF Within
<1>3. CASE UNCHANGED <<pc, page, offset>>
    <2>1. Skip' = Skip /\ Len(page') = Len(page) BY <1>3 DEF Skip
    <2>2. Len(page) \in Nat /\ Skip \in Nat BY PageInNat
    <2>3. /\ Cardinality(stored) <= Cardinality(stored')
          /\ Cardinality(stored) \in Nat /\ Cardinality(stored') \in Nat
        BY <1>0, StoredGrows
    <2>. QED BY <1>3, <2>1, <2>2, <2>3 DEF Within
<1>. QED BY <1>1, <1>2, <1>3
         DEF Next, Paging, Stamp, Insert, Change, Ask, Count, Continue, Fail, vars, clientVars

LEMMA AdvancesStep ==
    ListingInv /\ Within /\ [Next]_vars =>
        [pc = "answered" /\ pc' = "count" => Skip < Skip' /\ Skip' <= Cardinality(stored)]_vars
<1>. SUFFICES ASSUME ListingInv, Within, Next, pc = "answered", pc' = "count"
              PROVE  Skip < Skip' /\ Skip' <= Cardinality(stored)
    BY DEF vars, clientVars
<1>1. Continue /\ page # <<>>
    BY DEF Next, Paging, Stamp, Insert, Change, Ask, Count, Select, Continue, Fail, Ended, vars,
           clientVars
<1>2. offset' = Skip + Len(page) BY <1>1 DEF Continue
<1>3. Len(page) \in Nat /\ Skip \in Nat BY PageInNat
<1>4. Len(page) # 0
    <2>1. page \in Seq(Rows) BY DEF ListingInv
    <2>. QED BY <1>1, <2>1, EmptySeq
<1>5. Skip' = Skip + Len(page) BY <1>2, <1>3 DEF Skip
<1>6. Skip + Len(page) <= Cardinality(stored) BY <1>1 DEF Within
<1>. QED BY <1>3, <1>4, <1>5, <1>6

\* Each page takes a client on and none takes it beyond the rows, for any rows,
\* filters, limits, offsets and changes of the table: what makes paging end.
THEOREM PagingAdvancesCorrect == Spec => PagingAdvances
<1>1. Init => ListingInv /\ Within BY ListingInit DEF Init, Within
<1>2. ListingInv /\ Within /\ [Next]_vars => (ListingInv /\ Within)'
    BY ListingStep, WithinStep
<1>. QED BY <1>1, <1>2, AdvancesStep, PTL DEF Spec, PagingAdvances

-----------------------------------------------------------------------------
(* SkipsOnlyForLeavers                                                       *)

\* The rows the SELECT returns before r, when no two have the same time.
Ahead(r) == {q \in Matching : at[q] > at[r]}

\* Rows that a client will miss when it goes on at offset o.
Late(o) == {r \in steady \ seen : Cardinality(Ahead(r)) < o}

LEMMA AheadFinite ==
    ASSUME stored \subseteq Rows
    PROVE  \A r : IsFiniteSet(Ahead(r)) /\ Cardinality(Ahead(r)) \in Nat
<1>. SUFFICES ASSUME NEW r PROVE IsFiniteSet(Ahead(r)) /\ Cardinality(Ahead(r)) \in Nat
    OBVIOUS
<1>1. Ahead(r) \in SUBSET Rows BY MatchingFinite DEF Ahead
<1>. QED BY <1>1, LimitsAssumption, FS_Subset, FS_CardinalityType

\* The i-th row has i - 1 ahead of it.
LEMMA Position ==
    ASSUME ListingInv, DistinctTimes, NEW s \in Sorted, NEW i \in 1..Len(s)
    PROVE  Cardinality(Ahead(s[i])) = i - 1
<1>. DEFINE f == [j \in 1..(i - 1) |-> s[j]]
<1>1. /\ s \in Seq(Matching) /\ Len(s) \in Nat /\ Matching \subseteq stored
      /\ \A j, k \in 1..Len(s) : j # k => s[j] # s[k]
      /\ \A j, k \in 1..Len(s) : j < k => at[s[j]] >= at[s[k]]
      /\ \A r \in Matching : \E j \in 1..Len(s) : s[j] = r
      /\ \A j \in 1..Len(s) : s[j] \in Matching
    <2>1. stored \subseteq Rows BY DEF ListingInv, TypeOK
    <2>2. Matching \subseteq stored BY <2>1, MatchingFinite
    <2>. QED BY <2>1, <2>2, SortedFacts, Zenon
<1>2. \A j \in 1..Len(s) : s[j] \in Matching /\ s[j] \in stored /\ at[s[j]] \in Int
    <2>1. \A r \in stored : at[r] \in Int BY LimitsAssumption DEF ListingInv, TypeOK
    <2>. QED BY <1>1, <2>1, Zenon
<1>3. ASSUME NEW j \in 1..Len(s), NEW k \in 1..Len(s), j < k PROVE at[s[j]] > at[s[k]]
    <2>0. j # k
        <3>1. j \in Int /\ k \in Int BY <1>1
        <3>. QED BY <1>3, <3>1
    <2>1. at[s[j]] >= at[s[k]] /\ s[j] # s[k] BY <1>1, <1>3, <2>0, Zenon
    <2>2. at[s[j]] # at[s[k]] BY <1>2, <2>1, Zenon DEF DistinctTimes
    <2>3. at[s[j]] \in Int /\ at[s[k]] \in Int BY <1>2
    <2>. QED BY <2>1, <2>2, <2>3
<1>4. \A j \in 1..(i - 1) : s[j] \in Ahead(s[i])
    <2>. SUFFICES ASSUME NEW j \in 1..(i - 1) PROVE s[j] \in Ahead(s[i]) OBVIOUS
    <2>1. j \in 1..Len(s) /\ j < i
        <3>1. Len(s) \in Nat BY <1>1
        <3>. QED BY <3>1
    <2>. QED BY <1>2, <1>3, <2>1 DEF Ahead
<1>5. \A r \in Ahead(s[i]) : \E j \in 1..(i - 1) : s[j] = r
    <2>. SUFFICES ASSUME NEW r \in Ahead(s[i]) PROVE \E j \in 1..(i - 1) : s[j] = r OBVIOUS
    <2>1. PICK j \in 1..Len(s) : s[j] = r BY <1>1 DEF Ahead
    <2>2. at[s[j]] > at[s[i]] BY <2>1 DEF Ahead
    <2>3. ~(i < j) /\ i # j BY <1>2, <1>3, <2>2
    <2>4. j \in 1..(i - 1) BY <1>1, <2>3
    <2>. QED BY <2>1, <2>4
<1>6. f \in Bijection(1..(i - 1), Ahead(s[i]))
    <2>1. f \in [1..(i - 1) -> Ahead(s[i])] BY <1>4
    <2>2. \A j, k \in 1..(i - 1) : f[j] = f[k] => j = k
        <3>1. Len(s) \in Nat BY <1>1
        <3>2. \A j \in 1..(i - 1) : j \in 1..Len(s) BY <3>1
        <3>. QED BY <1>1, <3>2
    <2>3. \A r \in Ahead(s[i]) : \E j \in 1..(i - 1) : f[j] = r BY <1>5
    <2>. QED BY <2>1, <2>2, <2>3, Fun_IsBij
<1>7. IsFiniteSet(1..(i - 1)) /\ Cardinality(1..(i - 1)) = i - 1
    <2>1. /\ IsFiniteSet(1..(i - 1))
          /\ Cardinality(1..(i - 1)) = IF 1 > i - 1 THEN 0 ELSE (i - 1) - 1 + 1
        <3>1. 1 \in Int /\ i - 1 \in Int BY <1>1
        <3>. QED BY <3>1, FS_Interval
    <2>2. i \in Int /\ i >= 1 BY <1>1
    <2>. QED BY <2>1, <2>2
<1>. QED BY <1>6, <1>7, FS_Bijection DEF ExistsBijection

\* A new row only sends others further back.
LEMMA LateShrinks ==
    ASSUME ListingInv, ListingInv', Grows, steady \subseteq Matching, NEW o \in Int
    PROVE  Late(o)' \subseteq Late(o)
<1>. SUFFICES ASSUME NEW r \in steady, r \notin seen, Cardinality(Ahead(r)') < o
              PROVE  Cardinality(Ahead(r)) < o
    BY DEF Late, Grows, Same, clientVars
<1>1. \A q \in Matching : q \in Matching' /\ at'[q] = at[q]
    BY DEF Grows, Same, Matching
<1>2. Ahead(r) \in SUBSET Ahead(r)' BY <1>1 DEF Ahead
<1>3. Ahead(r)' \in SUBSET Rows BY DEF Ahead, Matching, ListingInv, TypeOK
<1>4. IsFiniteSet(Ahead(r)') /\ Cardinality(Ahead(r)') \in Nat
    BY <1>3, LimitsAssumption, FS_Subset, FS_CardinalityType
<1>5. Cardinality(Ahead(r)) <= Cardinality(Ahead(r)') BY <1>2, <1>4, FS_Subset
<1>6. Cardinality(Ahead(r)) \in Nat BY AheadFinite DEF ListingInv, TypeOK
<1>. QED BY <1>4, <1>5, <1>6

\* Two rows are not the same number of rows behind the first.
LEMMA OneAtEach ==
    ASSUME ListingInv, DistinctTimes, NEW r \in Matching, NEW q \in Matching,
           Cardinality(Ahead(r)) = Cardinality(Ahead(q))
    PROVE  r = q
<1>1. /\ \A x \in Matching : x \in stored /\ at[x] \in Int
      /\ stored \subseteq Rows
    BY LimitsAssumption DEF Matching, ListingInv, TypeOK
<1>2. \A x : IsFiniteSet(Ahead(x)) BY <1>1, AheadFinite
<1>3. ASSUME NEW x \in Matching, NEW y \in Matching, at[x] > at[y],
             Cardinality(Ahead(x)) = Cardinality(Ahead(y))
      PROVE  FALSE
    <2>1. Ahead(x) \in SUBSET Ahead(y) BY <1>1, <1>3 DEF Ahead
    <2>2. Ahead(x) = Ahead(y) BY <1>2, <1>3, <2>1, FS_Subset
    <2>3. x \in Ahead(y) /\ x \notin Ahead(x) BY <1>1, <1>3 DEF Ahead
    <2>. QED BY <2>2, <2>3
<1>4. at[r] = at[q] BY <1>1, <1>3
<1>. QED BY <1>1, <1>4 DEF DistinctTimes

\* A row that leaves brings at most one row from behind the offset before it.
LEMMA LateByOne ==
    ASSUME ListingInv, DistinctTimes, steady \subseteq Matching,
           NEW r \in Matching, Leaves(r), NEW o \in Int
    PROVE  Cardinality(Late(o)') <= Cardinality(Late(o)) + 1
<1>. DEFINE Brought == {q \in steady \ seen : Cardinality(Ahead(q)) = o}
<1>1. /\ stored \subseteq Rows
      /\ \A q : /\ IsFiniteSet(Ahead(q)) /\ Cardinality(Ahead(q)) \in Nat
                /\ IsFiniteSet(Ahead(q)') /\ Cardinality(Ahead(q)') \in Nat
                /\ Ahead(q)' = Ahead(q) \ {r}
    <2>1. stored \subseteq Rows BY DEF ListingInv, TypeOK
    <2>2. \A q : Ahead(q)' = Ahead(q) \ {r} BY DEF Ahead, Leaves
    <2>3. \A q : IsFiniteSet(Ahead(q)) /\ Cardinality(Ahead(q)) \in Nat BY <2>1, AheadFinite
    <2>4. ASSUME NEW q PROVE IsFiniteSet(Ahead(q)') /\ Cardinality(Ahead(q)') \in Nat
        BY <2>2, <2>3, FS_RemoveElement, FS_CardinalityType
    <2>. QED BY <2>1, <2>2, <2>3, <2>4
<1>2. ASSUME NEW q PROVE Cardinality(Ahead(q)) <= Cardinality(Ahead(q)') + 1
    <2>1. /\ IsFiniteSet(Ahead(q)) /\ Cardinality(Ahead(q)) \in Nat
          /\ Ahead(q)' = Ahead(q) \ {r}
        BY <1>1
    <2>2. Cardinality(Ahead(q) \ {r}) = IF r \in Ahead(q) THEN Cardinality(Ahead(q)) - 1
                                                        ELSE Cardinality(Ahead(q))
        BY <2>1, FS_RemoveElement
    <2>3. Cardinality(Ahead(q)') = Cardinality(Ahead(q) \ {r}) BY <2>1
    <2>. QED BY <2>1, <2>2, <2>3
<1>3. Late(o)' \subseteq Late(o) \cup Brought
    <2>. SUFFICES ASSUME NEW q \in steady \ seen, Cardinality(Ahead(q)') < o
                  PROVE  Cardinality(Ahead(q)) < o \/ Cardinality(Ahead(q)) = o
        BY DEF Late, Leaves, Same, clientVars
    <2>. QED BY <1>1, <1>2
<1>4. \A p, q \in Brought : p = q BY OneAtEach
<1>5. IsFiniteSet(Late(o)) /\ Cardinality(Late(o)) \in Nat
    <2>1. Late(o) \in SUBSET Rows BY <1>1 DEF Late, Matching
    <2>. QED BY <2>1, LimitsAssumption, FS_Subset, FS_CardinalityType
<1>6. CASE Brought = {}
    <2>1. Late(o)' \in SUBSET Late(o) BY <1>3, <1>6
    <2>2. Cardinality(Late(o)') <= Cardinality(Late(o)) BY <1>5, <2>1, FS_Subset
    <2>3. Cardinality(Late(o)') \in Nat BY <1>5, <2>1, FS_Subset, FS_CardinalityType
    <2>. QED BY <1>5, <2>2, <2>3
<1>7. CASE Brought # {}
    <2>1. PICK p : p \in Brought BY <1>7
    <2>2. Late(o)' \in SUBSET (Late(o) \cup {p}) BY <1>3, <1>4, <2>1
    <2>3. /\ IsFiniteSet(Late(o) \cup {p})
          /\ Cardinality(Late(o) \cup {p}) <= Cardinality(Late(o)) + 1
        <3>1. /\ IsFiniteSet(Late(o) \cup {p})
              /\ Cardinality(Late(o) \cup {p}) = IF p \in Late(o) THEN Cardinality(Late(o))
                                                   ELSE Cardinality(Late(o)) + 1
            BY <1>5, FS_AddElement
        <3>. QED BY <1>5, <3>1
    <2>4. /\ Cardinality(Late(o)') <= Cardinality(Late(o) \cup {p})
          /\ Cardinality(Late(o)') \in Nat /\ Cardinality(Late(o) \cup {p}) \in Nat
        BY <2>2, <2>3, FS_Subset, FS_CardinalityType
    <2>. QED BY <1>5, <2>3, <2>4
<1>. QED BY <1>6, <1>7

\* The client asks for the first page first.
FromTheTop == \A o \in Offsets : o <= 0

Missed(S) == Cardinality(S) <= left

\* What the client has missed, or will miss by going on where it goes on, are
\* rows brought before its offset by others that left.
SkipInv ==
    /\ pc = "start" => Skip = 0
    /\ pc # "start" => steady \subseteq Matching
    /\ DistinctTimes =>
         /\ pc \in {"count", "select"} => Missed(Late(Skip))
         /\ pc = "answered" /\ page # <<>> => Missed(Late(Skip + Len(page)))
         /\ pc = "answered" /\ page = <<>> => Missed(steady \ seen)
         /\ pc = "end" => Missed(steady \ seen)

LEMMA RowsFinite ==
    ASSUME NEW S \in SUBSET Rows PROVE IsFiniteSet(S) /\ Cardinality(S) \in Nat
BY LimitsAssumption, FS_Subset, FS_CardinalityType

\* The rows that will be missed at an offset are as few as those that left, and
\* so are the rows that were missed, when the table changes.
LEMMA LateInTable ==
    ASSUME ListingInv, ListingInv', DistinctTimes, steady \subseteq Matching,
           Grows \/ \E r \in Matching : Leaves(r),
           NEW o \in Int, Missed(Late(o))
    PROVE  Cardinality({q \in steady' \ seen' : Cardinality(Ahead(q)') < o}) <= left'
<1>. DEFINE L == {q \in steady' \ seen' : Cardinality(Ahead(q)') < o}
<1>1. L = Late(o)' BY DEF Late
<1>2. Late(o) \in SUBSET Rows /\ L \in SUBSET Rows /\ left \in Int /\ left' \in Int
    <2>1. steady \subseteq Rows /\ steady' \subseteq Rows BY DEF ListingInv, TypeOK
    <2>2. left \in Int /\ left' \in Int BY LimitsAssumption DEF ListingInv, TypeOK
    <2>3. Late(o) \in SUBSET Rows BY <2>1 DEF Late
    <2>4. L \in SUBSET Rows BY <2>1
    <2>. QED BY <2>2, <2>3, <2>4
<1>3. /\ IsFiniteSet(Late(o)) /\ Cardinality(Late(o)) \in Nat
      /\ IsFiniteSet(L) /\ Cardinality(L) \in Nat
    BY <1>2, RowsFinite
<1>. HIDE DEF L
<1>4. CASE Grows
    <2>1. L \in SUBSET Late(o) BY <1>1, <1>4, LateShrinks
    <2>2. Cardinality(L) <= Cardinality(Late(o)) BY <1>3, <2>1, FS_Subset
    <2>. QED BY <1>2, <1>3, <1>4, <2>2 DEF Grows, Missed, L
<1>5. CASE \E r \in Matching : Leaves(r)
    <2>1. PICK r \in Matching : Leaves(r) BY <1>5
    <2>2. Cardinality(Late(o)') <= Cardinality(Late(o)) + 1 BY <2>1, LateByOne
    <2>3. Cardinality(L) <= Cardinality(Late(o)) + 1 BY <1>1, <2>2
    <2>. QED BY <1>2, <1>3, <2>1, <2>3 DEF Leaves, Missed, L
<1>. QED BY <1>4, <1>5

LEMMA MissedInTable ==
    ASSUME ListingInv, ListingInv', Grows \/ \E r \in Matching : Leaves(r),
           Missed(steady \ seen)
    PROVE  Missed(steady \ seen)'
<1>1. /\ steady \ seen \in SUBSET Rows /\ left \in Int /\ left' \in Int
      /\ steady' \ seen' \in SUBSET (steady \ seen) /\ left' >= left
    <2>1. steady \subseteq Rows /\ left \in Int BY LimitsAssumption DEF ListingInv, TypeOK
    <2>2. /\ seen' = seen /\ steady' \subseteq steady
          /\ left' = left \/ left' = left + 1
        BY DEF Grows, Leaves, Same, clientVars
    <2>. QED BY <2>1, <2>2
<1>2. /\ IsFiniteSet(steady \ seen) /\ Cardinality(steady \ seen) \in Nat
      /\ IsFiniteSet(steady' \ seen') /\ Cardinality(steady' \ seen') \in Nat
    BY <1>1, RowsFinite
<1>3. Cardinality(steady' \ seen') <= Cardinality(steady \ seen) BY <1>1, <1>2, FS_Subset
<1>. QED BY <1>1, <1>2, <1>3 DEF Missed

LEMMA SkipInTable ==
    ASSUME ListingInv, ListingInv', SkipInv, Table PROVE SkipInv'
<1>1. CASE pc = "start"
    BY <1>1 DEF SkipInv, Skip, Table, Stamp, Insert, Change, clientVars
<1>2. CASE pc # "start"
    <2>1. Grows \/ \E r \in Matching : Leaves(r) BY <1>2, TableCases
    <2>2. Same BY <2>1 DEF Grows, Leaves
    <2>3. UNCHANGED <<pc, offset, page>> /\ Skip' = Skip
        BY <2>2 DEF Same, clientVars, Skip
    <2>4. DistinctTimes' => DistinctTimes BY <2>2 DEF Same, DistinctTimes
    <2>5. steady \subseteq Matching /\ (steady \subseteq Matching)'
        BY <1>2, <2>1 DEF SkipInv, Grows, Leaves
    <2>6. Skip \in Int /\ Skip + Len(page) \in Int
        <3>1. Skip \in Nat BY SkipType DEF ListingInv, TypeOK
        <3>2. Len(page) \in Nat
            <4>1. page \in Seq(Rows) BY DEF ListingInv
            <4>. QED BY <4>1, SequenceFacts, Zenon
        <3>. QED BY <3>1, <3>2
    <2>7. ASSUME DistinctTimes', pc \in {"count", "select"} PROVE Missed(Late(Skip))'
        <3>1. Missed(Late(Skip)) BY <2>4, <2>7 DEF SkipInv
        <3>2. Cardinality({q \in steady' \ seen' : Cardinality(Ahead(q)') < Skip}) <= left'
            BY <2>1, <2>4, <2>5, <2>6, <2>7, <3>1, LateInTable
        <3>. QED BY <2>3, <3>2 DEF Late, Missed
    <2>8. ASSUME DistinctTimes', pc = "answered", page # <<>>
          PROVE  Missed(Late(Skip + Len(page)))'
        <3>1. Missed(Late(Skip + Len(page))) BY <2>4, <2>8 DEF SkipInv
        <3>2. Cardinality({q \in steady' \ seen' : Cardinality(Ahead(q)') < Skip + Len(page)})
                 <= left'
            BY <2>1, <2>4, <2>5, <2>6, <2>8, <3>1, LateInTable
        <3>. QED BY <2>3, <3>2 DEF Late, Missed
    <2>9. ASSUME DistinctTimes', Missed(steady \ seen) PROVE Missed(steady \ seen)'
        BY <2>1, <2>9, MissedInTable
    <2>. QED BY <1>2, <2>3, <2>4, <2>5, <2>7, <2>8, <2>9 DEF SkipInv
<1>. QED BY <1>1, <1>2

\* The rows of a page are behind as many rows as were skipped, and those the
\* SELECT did not find are behind the page.
LEMMA SkipInSelect ==
    ASSUME ListingInv, ListingInv', SkipInv, Select PROVE SkipInv'
<1>1. PICK s \in Sorted : IsPage(page', s) BY SelectPage
<1>2. /\ pc = "select" /\ pc' = "answered" /\ Skip' = Skip
      /\ UNCHANGED <<steady, left, stored, at>> /\ Matching' = Matching
      /\ seen' = seen \cup {page'[i] : i \in DOMAIN page'}
    BY DEF Select, Skip, Matching, Satisfies, tableVars, queryVars
<1>3. /\ page' = <<>> <=> Len(s) <= Skip
      /\ Len(page') \in Nat /\ Skip \in Nat
      /\ \A i \in 1..Len(s) :
             i > Skip /\ i <= Skip + Len(page') => \E j \in DOMAIN page' : page'[j] = s[i]
    BY <1>1 DEF IsPage
<1>4. /\ \A r \in Matching : \E i \in 1..Len(s) : s[i] = r
      /\ Len(s) \in Nat
    BY SortedFacts DEF ListingInv, TypeOK
<1>5. steady \subseteq Matching BY <1>2 DEF SkipInv
<1>6. \A r : Ahead(r)' = Ahead(r) BY <1>2 DEF Ahead
<1>7. /\ Late(Skip) \in SUBSET Rows /\ left \in Int
      /\ IsFiniteSet(Late(Skip)) /\ Cardinality(Late(Skip)) \in Nat
    <2>1. Late(Skip) \in SUBSET Rows /\ left \in Int
        BY LimitsAssumption DEF Late, ListingInv, TypeOK
    <2>. QED BY <2>1, RowsFinite
<1>8. ASSUME DistinctTimes, NEW S, S \in SUBSET Late(Skip) PROVE Cardinality(S) <= left
    <2>1. Cardinality(Late(Skip)) <= left BY <1>2, <1>8 DEF SkipInv, Missed
    <2>2. Cardinality(S) <= Cardinality(Late(Skip)) BY <1>7, <1>8, FS_Subset
    <2>3. Cardinality(S) \in Nat BY <1>7, <1>8, RowsFinite
    <2>. QED BY <1>7, <2>1, <2>2, <2>3
<1>9. ASSUME DistinctTimes, page' = <<>> PROVE Missed(steady \ seen)'
    <2>1. ASSUME NEW r \in steady \ seen PROVE r \in Late(Skip)
        <3>1. PICK i \in 1..Len(s) : s[i] = r BY <1>4, <1>5
        <3>2. Cardinality(Ahead(r)) = i - 1 BY <1>9, <3>1, Position
        <3>. QED BY <1>3, <1>4, <1>9, <3>2 DEF Late
    <2>2. steady' \ seen' \in SUBSET Late(Skip) BY <1>2, <2>1
    <2>3. Cardinality(steady' \ seen') <= left BY <1>8, <1>9, <2>2
    <2>. QED BY <1>2, <2>3 DEF Missed
<1>10. ASSUME DistinctTimes PROVE Missed(Late(Skip + Len(page)))'
    <2>. DEFINE L == {q \in steady' \ seen' : Cardinality(Ahead(q)') < Skip' + Len(page')}
    <2>1. ASSUME NEW r \in L PROVE r \in Late(Skip)
        <3>1. r \in steady \ seen /\ Cardinality(Ahead(r)) < Skip + Len(page')
            BY <1>2, <1>6, <2>1
        <3>2. PICK i \in 1..Len(s) : s[i] = r BY <1>4, <1>5, <3>1
        <3>3. Cardinality(Ahead(r)) = i - 1 BY <1>10, <3>2, Position
        <3>4. ~\E j \in DOMAIN page' : page'[j] = s[i] BY <1>2, <2>1, <3>2
        <3>5. i <= Skip + Len(page') BY <1>3, <1>4, <3>1, <3>3
        <3>6. ~(i > Skip) BY <1>3, <3>4, <3>5
        <3>7. Cardinality(Ahead(r)) < Skip BY <1>3, <1>4, <3>3, <3>6
        <3>. QED BY <3>1, <3>7 DEF Late
    <2>2. L \in SUBSET Late(Skip) BY <2>1
    <2>3. Cardinality(L) <= left BY <1>8, <1>10, <2>2
    <2>4. Late(Skip + Len(page))' = L BY DEF Late
    <2>. QED BY <1>2, <2>3, <2>4 DEF Missed
<1>11. DistinctTimes' => DistinctTimes BY <1>2 DEF DistinctTimes
<1>. QED BY <1>2, <1>5, <1>9, <1>10, <1>11 DEF SkipInv

LEMMA SkipInClient ==
    ASSUME ListingInv, ListingInv', SkipInv, Ask \/ Count \/ Continue \/ Fail \/ UNCHANGED vars
    PROVE  SkipInv'
<1>1. /\ Matching' = Matching /\ UNCHANGED <<at, stored, seen, left>>
      /\ DistinctTimes' = DistinctTimes
    BY DEF Ask, Count, Continue, Fail, vars, tableVars, clientVars, queryVars,
           Matching, Satisfies, DistinctTimes
<1>2. \A q : Ahead(q)' = Ahead(q) BY <1>1 DEF Ahead
<1>3. CASE Ask
    <2>1. pc = "start" /\ Skip = 0 /\ Skip' = 0 /\ steady' = Matching
        BY <1>3 DEF Ask, SkipInv, Skip
    <2>2. \A q : Cardinality(Ahead(q)) \in Nat BY AheadFinite DEF ListingInv, TypeOK
    <2>3. Late(Skip)' = {}
        BY <1>2, <2>1, <2>2 DEF Late
    <2>4. Cardinality({}) = 0 /\ left' >= 0
        BY <1>1, LimitsAssumption, FS_EmptySet DEF ListingInv, TypeOK
    <2>5. Missed(Late(Skip))' BY <2>3, <2>4 DEF Missed
    <2>. QED BY <1>1, <1>3, <2>1, <2>5 DEF Ask, SkipInv
<1>4. CASE Count \/ Fail
    <2>1. UNCHANGED <<offset, page, steady, seen, left>> /\ Skip' = Skip
        BY <1>4 DEF Count, Fail, Skip
    <2>2. Late(Skip)' = Late(Skip) BY <1>2, <2>1 DEF Late
    <2>. QED BY <1>1, <1>4, <2>1, <2>2 DEF Count, Fail, SkipInv, Missed
<1>5. CASE Continue /\ page = <<>>
    BY <1>1, <1>5 DEF Continue, SkipInv, Missed
<1>6. CASE Continue /\ page # <<>>
    <2>1. offset' = Skip + Len(page) /\ pc = "answered" /\ pc' = "count"
          /\ UNCHANGED <<steady, page>>
        BY <1>6 DEF Continue
    <2>2. Len(page) \in Nat /\ Skip \in Nat
        BY SkipType, SequenceFacts DEF ListingInv, TypeOK
    <2>3. Skip' = Skip + Len(page) BY <2>1, <2>2 DEF Skip
    <2>4. Late(Skip)' = Late(Skip + Len(page)) BY <1>1, <1>2, <2>1, <2>3 DEF Late
    <2>. QED BY <1>1, <1>6, <2>1, <2>4 DEF SkipInv, Missed
<1>7. CASE UNCHANGED vars
    <2>1. UNCHANGED <<pc, offset, page, steady, seen, left>> /\ Skip' = Skip
        BY <1>7 DEF vars, clientVars, Skip
    <2>2. /\ Late(Skip)' = Late(Skip)
          /\ Late(Skip + Len(page))' = Late(Skip + Len(page))
        BY <1>2, <2>1 DEF Late
    <2>. QED BY <1>1, <2>1, <2>2 DEF SkipInv, Missed
<1>. QED BY <1>3, <1>4, <1>5, <1>6, <1>7

LEMMA SkipStep == ListingInv /\ SkipInv /\ [Next]_vars => SkipInv'
<1>. SUFFICES ASSUME ListingInv, SkipInv, [Next]_vars PROVE SkipInv' OBVIOUS
<1>1. ListingInv' BY ListingStep
<1>. QED BY <1>1, SkipInTable, SkipInSelect, SkipInClient DEF Next, Paging, Table

\* A client that pages from the top to the end misses no more rows than ceased
\* to match meanwhile: for any rows, filters, limits and changes of the table.
THEOREM SkipsOnlyForLeaversCorrect ==
    ASSUME FromTheTop PROVE Spec => []SkipsOnlyForLeavers
<1>1. Init => ListingInv /\ SkipInv
    <2>. SUFFICES ASSUME Init PROVE SkipInv BY ListingInit
    <2>1. offset \in Int /\ offset <= 0 BY LimitsAssumption DEF Init, FromTheTop
    <2>. QED BY <2>1 DEF Init, SkipInv, Skip
<1>2. ListingInv /\ SkipInv /\ [Next]_vars => (ListingInv /\ SkipInv)'
    BY ListingStep, SkipStep
<1>3. SkipInv => SkipsOnlyForLeavers BY DEF SkipInv, SkipsOnlyForLeavers, Missed
<1>. QED BY <1>1, <1>2, <1>3, PTL DEF Spec
=============================================================================
