---------------------------- MODULE BatchProofs ----------------------------
(* Theorems about Batch: whatever the batches, their items, the templates    *)
(* and the answers, the notifier underneath behaves as specified on its own, *)
(* and what is stored and answered keeps the promises of the API.            *)
EXTENDS Batch, IdempotencyProofs, OutcomeProofs, FiniteSetTheorems, FunctionTheorems

LEMMA VerdictIsOne == ASSUME NEW r, NEW T PROVE Verdict(r, T) \in Verdicts
BY DEF Verdict, Verdicts

\* A step of a create request, of a batch item or of a single, is one of the
\* notifier's: the content of the request only picks the verdict.
LEMMA CallsAreSteps ==
    ASSUME NEW n \in Notif, CreateCalls(n) PROVE Next
BY VerdictIsOne DEF CreateCalls, CreateStep, Next

LEMMA BatchStep == BatchAssumption /\ [BatchNext]_batchVars => [Next]_vars
<1>. SUFFICES ASSUME [BatchNext]_batchVars, ItemsOf \in [Batches -> Seq(Notif)]
              PROVE  [Next]_vars
    BY DEF BatchAssumption
<1>1. ASSUME NEW n \in Notif, SingleStep(n) \/ SingleReply(n) PROVE [Next]_vars
    BY <1>1, CallsAreSteps DEF SingleStep, SingleReply
<1>2. ASSUME NEW b \in Batches, BatchItem(b) PROVE [Next]_vars
    <2>1. PICK i \in DOMAIN ItemsOf[b] : CreateCalls(ItemsOf[b][i])
        BY <1>2 DEF BatchItem
    <2>2. ItemsOf[b] \in Seq(Notif) OBVIOUS
    <2>3. ItemsOf[b][i] \in Notif BY <2>1, <2>2
    <2>. QED BY <2>1, <2>3, CallsAreSteps
<1>3. ASSUME NEW b \in Batches, BatchStart(b) \/ BatchRow(b) \/ BatchReply(b)
      PROVE  [Next]_vars
    BY <1>3 DEF BatchStart, BatchRow, BatchReply
<1>4. ASSUME NEW t \in Templates, CreateTemplate(t) PROVE [Next]_vars
    BY <1>4 DEF CreateTemplate
<1>5. CASE Backend BY <1>5 DEF Next
<1>6. CASE UNCHANGED batchVars BY <1>6 DEF batchVars
<1>. QED BY <1>1, <1>2, <1>3, <1>4, <1>5, <1>6 DEF BatchNext

\* What is invariant of the notifier is invariant under the API.
LEMMA BatchImplements == BatchSpec => Spec
<1>1. BatchInit => Init BY DEF BatchInit
<1>2. [BatchNext]_batchVars => [Next]_vars BY BatchStep, BatchAssumption
<1>. QED BY <1>1, <1>2, PTL DEF BatchSpec, Spec

\* So no batch, retried or abandoned half way, makes a second work item for a
\* notification.
THEOREM BatchSingleToken == BatchSpec => []SingleToken
BY BatchImplements, SingleTokenCorrect

-----------------------------------------------------------------------------
(* What the answers promise                                                  *)

\* How each request ended, and what its answer may be.
Ending ==
    /\ \A n \in Notif : outcome[n] = "none" <=> cpc[n] # "done"
    /\ reply \in [Batches \cup Notif -> Int]
    /\ \A n \in Notif : reply[n] = 201 => outcome[n] = "ok"
    /\ \A b \in Batches : reply[b] = 201 => \A n \in Items(b) : outcome[n] = "ok"

Began(n) == Exists(n) \/ outcome[n] # "none"

\* The items of a batch begin one after the other, behind the batch row.
InTurn ==
    /\ \A b \in Batches : bpc[b] = "items" => b \in batches
    /\ \A b \in Batches : \A i, j \in DOMAIN ItemsOf[b] :
           Began(ItemsOf[b][j]) =>
               b \in batches /\ (i < j => outcome[ItemsOf[b][i]] = "ok")

BatchSteps == {"start", "row", "items", "done"}

Api == TypeOK /\ KeysKept /\ Ending /\ InTurn /\ bpc \in [Batches -> BatchSteps]

\* A step of one request leaves the others as they were, and one that has ended
\* takes no step.
LEMMA OneCall ==
    ASSUME TypeOK, KeysKept, Ending, NEW n \in Notif, CreateStep(n) \/ CreateAbort(n)
    PROVE  /\ outcome[n] = "none"
           /\ outcome'[n] = "none" <=> cpc'[n] # "done"
           /\ \A m \in Notif \ {n} :
                  cpc'[m] = cpc[m] /\ outcome'[m] = outcome[m] /\ (Exists(m)' <=> Exists(m))
<1>. USE DEF TypeOK, CreateTypes, RowTypes, Goto, Return, rowVars, Exists
<1>0. outcome[n] = "none" <=> cpc[n] # "done" BY DEF Ending
<1>1. CASE Lookup(n) BY <1>0, <1>1 DEF Lookup, RowsWithKey
<1>2. CASE \E verdict \in Verdicts : Build(n, verdict) BY <1>0, <1>2 DEF Build, Verdicts
<1>3. CASE Claim(n) BY <1>0, <1>3 DEF Claim
<1>4. CASE Recall(n)
    <2>1. CASE idem[KeyOf[n]] = None BY <1>0, <1>4, <2>1 DEF Recall
    <2>2. CASE idem[KeyOf[n]] # None BY <1>0, <1>4, <2>2 DEF Recall
    <2>. QED BY <2>1, <2>2
<1>5. CASE Fetch(n) BY <1>0, <1>5 DEF Fetch
<1>6. CASE Insert(n) BY <1>0, <1>6 DEF Insert
<1>7. CASE PlaceItem(n) BY <1>0, <1>7 DEF PlaceItem, Finish
<1>8. CASE Confirm(n) BY <1>0, <1>8 DEF Confirm, Finish, UpdateStatus
<1>9. CASE CreateAbort(n) BY <1>0, <1>9 DEF CreateAbort
<1>. QED BY <1>1, <1>2, <1>3, <1>4, <1>5, <1>6, <1>7, <1>8, <1>9 DEF CreateStep, CreateCall

LEMMA CallIsCreate == ASSUME NEW n \in Notif, CreateCalls(n) PROVE CreateStep(n) \/ CreateAbort(n)
BY VerdictIsOne DEF CreateCalls, CreateStep

\* The rest of the notifier begins no request and ends none.
LEMMA BackendCalls ==
    ASSUME TypeOK, Backend \/ UNCHANGED vars
    PROVE  /\ UNCHANGED createVars
           /\ \A n \in Notif : (Exists(n)' <=> Exists(n)) /\ (Began(n)' <=> Began(n))
<1>1. UNCHANGED createVars BY BackendKeys
<1>2. /\ \A n \in Notif : Exists(n) => Exists(n)'
      /\ \A n \in Notif : Exists(n)' => Exists(n) \/ Insert(n)
    BY RowsStay DEF Next
<1>3. ASSUME NEW n \in Notif PROVE ~Insert(n)
    BY <1>1 DEF Insert, createVars, Goto, Return, TypeOK, CreateTypes
<1>. QED BY <1>1, <1>2, <1>3 DEF Began, createVars

\* The items of the batches are requests, each of one batch and at one place.
LEMMA ItemFacts ==
    ASSUME BatchAssumption
    PROVE  /\ \A b \in Batches : \A i \in DOMAIN ItemsOf[b] :
                  ItemsOf[b][i] \in Notif /\ ItemsOf[b][i] \in Items(b) /\ i \in Int
           /\ \A b, c \in Batches : \A i \in DOMAIN ItemsOf[b], j \in DOMAIN ItemsOf[c] :
                  ItemsOf[b][i] = ItemsOf[c][j] => b = c /\ i = j
           /\ \A b \in Batches : \A n \in Items(b) : n \in Notif \ Singles
           /\ \A b \in Batches : b \notin Notif
<1>1. /\ ItemsOf \in [Batches -> Seq(Notif)]
      /\ Batches \cap Notif = {}
      /\ \A b, c \in Batches : b # c => Items(b) \cap Items(c) = {}
      /\ \A b \in Batches : \A i, j \in DOMAIN ItemsOf[b] :
             ItemsOf[b][i] = ItemsOf[b][j] => i = j
    BY DEF BatchAssumption
<1>2. ASSUME NEW b \in Batches, NEW i \in DOMAIN ItemsOf[b]
      PROVE  ItemsOf[b][i] \in Notif /\ ItemsOf[b][i] \in Items(b) /\ i \in Int
    <2>1. ItemsOf[b] \in Seq(Notif) BY <1>1
    <2>. QED BY <2>1 DEF Items
<1>3. ASSUME NEW b \in Batches, NEW n \in Items(b) PROVE n \in Notif \ Singles
    <2>1. PICK i \in DOMAIN ItemsOf[b] : n = ItemsOf[b][i] BY DEF Items
    <2>. QED BY <1>2, <2>1 DEF Singles
<1>. QED BY <1>1, <1>2, <1>3

\* Only an item that was created, and only a loop that came to its end, is 201.
LEMMA CodeOk == ASSUME NEW n \in Notif, TypeOK, outcome[n] # "none", Code(outcome[n]) = 201
                PROVE  outcome[n] = "ok"
BY DEF Code, TypeOK, CreateTypes

LEMMA EndedOk ==
    ASSUME TypeOK, BatchAssumption, NEW b \in Batches, Ended(b) # "none", Code(Ended(b)) = 201
    PROVE  \A n \in Items(b) : outcome[n] = "ok"
<1>. DEFINE Bad == {n \in Items(b) : outcome[n] \notin {"none", "ok"}}
<1>1. CASE \E n \in Items(b) : outcome[n] \notin {"none", "ok"}
    <2>1. PICK n \in Items(b) : Ended(b) = outcome[n] /\ outcome[n] \notin {"none", "ok"}
        BY <1>1, Zenon DEF Ended
    <2>2. n \in Notif BY ItemFacts
    <2>. QED BY <2>1, <2>2, CodeOk
<1>2. CASE ~\E n \in Items(b) : outcome[n] \notin {"none", "ok"}
    BY <1>2 DEF Ended
<1>. QED BY <1>1, <1>2

LEMMA EndedCode ==
    ASSUME TypeOK, BatchAssumption, NEW b \in Batches, Ended(b) # "none"
    PROVE  Code(Ended(b)) \in {201, 400, 404, 409, 500}
<1>1. Ended(b) \in {"ok", "notfound", "duplicate", "invalid", "notemplate", "error"}
    <2>1. CASE \E n \in Items(b) : outcome[n] \notin {"none", "ok"}
        <3>1. PICK n \in Items(b) : Ended(b) = outcome[n] /\ outcome[n] \notin {"none", "ok"}
            BY <2>1, Zenon DEF Ended
        <3>2. n \in Notif BY ItemFacts
        <3>. QED BY <3>1, <3>2 DEF TypeOK, CreateTypes
    <2>2. CASE ~\E n \in Items(b) : outcome[n] \notin {"none", "ok"}
        BY <2>2 DEF Ended
    <2>. QED BY <2>1, <2>2
<1>. QED BY <1>1 DEF Code

LEMMA EndingStep == ASSUME Api, BatchAssumption, [BatchNext]_batchVars PROVE Ending'
<1>. USE DEF Api
<1>1. ASSUME NEW n \in Notif, CreateCalls(n), UNCHANGED apiVars PROVE Ending'
    <2>1. /\ outcome[n] = "none"
          /\ outcome'[n] = "none" <=> cpc'[n] # "done"
          /\ \A m \in Notif \ {n} : cpc'[m] = cpc[m] /\ outcome'[m] = outcome[m]
        BY <1>1, CallIsCreate, OneCall
    <2>2. \A m \in Notif : outcome[m] = "ok" => outcome'[m] = "ok" BY <2>1
    <2>3. \A m \in Notif : outcome'[m] = "none" <=> cpc'[m] # "done" BY <2>1 DEF Ending
    <2>4. ASSUME NEW b \in Batches, reply[b] = 201, NEW m \in Items(b)
          PROVE  outcome'[m] = "ok"
        <3>1. m \in Notif /\ outcome[m] = "ok" BY <2>4, ItemFacts DEF Ending
        <3>. QED BY <2>2, <3>1
    <2>5. \A b \in Batches : reply[b] = 201 => \A m \in Items(b)' : outcome'[m] = "ok"
        BY <2>4 DEF Items
    <2>. QED BY <1>1, <2>2, <2>3, <2>5 DEF Ending, apiVars
<1>2. ASSUME NEW n \in Notif, SingleReply(n) PROVE Ending'
    <2>1. UNCHANGED vars /\ reply[n] = 0 /\ \A b \in Batches : b # n
        BY <1>2, ItemFacts DEF SingleReply
    <2>2. CASE Answer(n, 400) BY <2>1, <2>2 DEF Ending, Answer, vars, createVars, Items
    <2>3. CASE cpc[n] = "done" /\ Answer(n, Code(outcome[n]))
        <3>1. outcome[n] # "none" /\ (Code(outcome[n]) = 201 => outcome[n] = "ok")
            BY <2>3, CodeOk DEF Ending
        <3>2. Code(outcome[n]) \in Int
            BY <3>1 DEF Code, TypeOK, CreateTypes
        <3>. QED BY <2>1, <2>3, <3>1, <3>2 DEF Ending, Answer, vars, createVars, Items
    <2>. QED BY <1>2, <2>2, <2>3 DEF SingleReply
<1>3. ASSUME NEW b \in Batches, BatchStart(b) \/ BatchRow(b) PROVE Ending'
    <2>1. UNCHANGED vars /\ b \notin Notif
        BY <1>3, ItemFacts DEF BatchStart, BatchRow
    <2>2. UNCHANGED reply \/ Answer(b, 400) \/ Answer(b, 500)
        BY <1>3 DEF BatchStart, BatchRow
    <2>. USE <2>1 DEF Ending, Answer, vars, createVars, Items
    <2>3. CASE UNCHANGED reply BY <2>3
    <2>4. CASE Answer(b, 400) BY <2>4
    <2>5. CASE Answer(b, 500) BY <2>5
    <2>. QED BY <2>2, <2>3, <2>4, <2>5
<1>4. ASSUME NEW b \in Batches, BatchReply(b) PROVE Ending'
    <2>1. UNCHANGED vars /\ b \notin Notif /\ Ended(b) # "none" /\ Answer(b, Code(Ended(b)))
        BY <1>4, ItemFacts DEF BatchReply
    <2>2. Code(Ended(b)) = 201 => \A n \in Items(b) : outcome[n] = "ok"
        BY <2>1, EndedOk
    <2>3. Code(Ended(b)) \in Int BY <2>1, EndedCode
    <2>. QED BY <2>1, <2>2, <2>3 DEF Ending, Answer, vars, createVars, Items
<1>5. ASSUME UNCHANGED <<reply>>, Backend \/ UNCHANGED vars PROVE Ending'
    BY <1>5, BackendCalls DEF Ending, createVars, Items
<1>6. CASE \E n \in Notif : SingleStep(n) BY <1>1, <1>6 DEF SingleStep
<1>7. ASSUME NEW b \in Batches, BatchItem(b) PROVE Ending'
    BY <1>1, <1>7, ItemFacts DEF BatchItem
<1>8. CASE \E t \in Templates : CreateTemplate(t) BY <1>5, <1>8 DEF CreateTemplate
<1>. QED BY <1>2, <1>3, <1>4, <1>5, <1>6, <1>7, <1>8 DEF BatchNext, batchVars, apiVars

\* A batch comes to its items behind its row, and to an item behind the others.
LEMMA InTurnStep == ASSUME Api, BatchAssumption, [BatchNext]_batchVars PROVE InTurn'
<1>. USE DEF Api
<1>1. ASSUME NEW n \in Notif, CreateCalls(n), UNCHANGED apiVars,
             \A b \in Batches : \A j \in DOMAIN ItemsOf[b] :
                 ItemsOf[b][j] = n => b \in batches /\ Turn(b, j)
      PROVE  InTurn'
    <2>1. /\ outcome[n] = "none"
          /\ \A m \in Notif \ {n} : outcome'[m] = outcome[m] /\ (Exists(m)' <=> Exists(m))
        BY <1>1, CallIsCreate, OneCall
    <2>2. \A m \in Notif : outcome[m] = "ok" => outcome'[m] = "ok" BY <2>1
    <2>3. \A m \in Notif \ {n} : Began(m)' <=> Began(m) BY <2>1 DEF Began
    <2>4. ASSUME NEW b \in Batches, NEW i \in DOMAIN ItemsOf[b], NEW j \in DOMAIN ItemsOf[b],
                 Began(ItemsOf[b][j])'
          PROVE  b \in batches /\ (i < j => outcome'[ItemsOf[b][i]] = "ok")
        <3>1. ItemsOf[b][i] \in Notif /\ ItemsOf[b][j] \in Notif BY ItemFacts
        <3>2. CASE ItemsOf[b][j] = n BY <1>1, <2>2, <3>1, <3>2 DEF Turn
        <3>3. CASE ItemsOf[b][j] # n BY <2>2, <2>3, <2>4, <3>1, <3>3 DEF InTurn
        <3>. QED BY <3>2, <3>3
    <2>. QED BY <1>1, <2>4 DEF InTurn, apiVars
<1>2. ASSUME UNCHANGED <<bpc, batches>>, Backend \/ UNCHANGED vars PROVE InTurn'
    <2>1. UNCHANGED outcome /\ \A n \in Notif : Began(n)' <=> Began(n)
        BY <1>2, BackendCalls DEF createVars
    <2>2. ASSUME NEW b \in Batches, NEW i \in DOMAIN ItemsOf[b], NEW j \in DOMAIN ItemsOf[b],
                 Began(ItemsOf[b][j])'
          PROVE  b \in batches /\ (i < j => outcome'[ItemsOf[b][i]] = "ok")
        <3>1. ItemsOf[b][j] \in Notif BY ItemFacts
        <3>. QED BY <2>1, <2>2, <3>1 DEF InTurn
    <2>. QED BY <1>2, <2>2 DEF InTurn
<1>3. ASSUME NEW b \in Batches, BatchStart(b) \/ BatchRow(b) \/ BatchReply(b) PROVE InTurn'
    <2>1. UNCHANGED vars /\ batches \subseteq batches'
        BY <1>3 DEF BatchStart, BatchRow, BatchReply
    <2>2. \A c \in Batches : bpc'[c] = "items" => c \in batches'
        BY <1>3 DEF BatchStart, BatchRow, BatchReply, InTurn
    <2>3. ASSUME NEW c \in Batches, NEW i \in DOMAIN ItemsOf[c], NEW j \in DOMAIN ItemsOf[c],
                 Began(ItemsOf[c][j])'
          PROVE  c \in batches' /\ (i < j => outcome'[ItemsOf[c][i]] = "ok")
        <3>1. UNCHANGED <<outcome, status>> BY <2>1 DEF vars, createVars, rowVars
        <3>2. Began(ItemsOf[c][j]) BY <2>3, <3>1 DEF Began, Exists
        <3>. QED BY <2>1, <3>1, <3>2 DEF InTurn
    <2>. QED BY <2>2, <2>3 DEF InTurn
<1>4. CASE \E n \in Notif : SingleStep(n)
    <2>1. PICK n \in Singles : n \in Notif /\ CreateCalls(n) /\ UNCHANGED apiVars
        BY <1>4 DEF SingleStep
    <2>2. \A b \in Batches : \A j \in DOMAIN ItemsOf[b] : ItemsOf[b][j] # n BY <2>1, ItemFacts
    <2>. QED BY <1>1, <2>1, <2>2
<1>5. ASSUME NEW b \in Batches, BatchItem(b) PROVE InTurn'
    <2>1. PICK i \in DOMAIN ItemsOf[b] : Turn(b, i) /\ CreateCalls(ItemsOf[b][i])
        BY <1>5 DEF BatchItem
    <2>2. b \in batches /\ UNCHANGED apiVars BY <1>5 DEF BatchItem, InTurn
    <2>3. \A c \in Batches : \A j \in DOMAIN ItemsOf[c] :
              ItemsOf[c][j] = ItemsOf[b][i] => c = b /\ j = i
        BY ItemFacts
    <2>. QED BY <1>1, <2>1, <2>2, <2>3, ItemFacts
<1>6. CASE \E n \in Notif : SingleReply(n) BY <1>2, <1>6 DEF SingleReply
<1>7. CASE \E t \in Templates : CreateTemplate(t) BY <1>2, <1>7 DEF CreateTemplate
<1>. QED BY <1>2, <1>3, <1>4, <1>5, <1>6, <1>7 DEF BatchNext, batchVars, apiVars

LEMMA ApiInit == BatchAssumption /\ BatchInit => Api
<1>. SUFFICES ASSUME BatchAssumption, BatchInit PROVE Api OBVIOUS
<1>1. TypeOK /\ KeysKept BY TypeInit, KeysInit DEF BatchInit
<1>2. Ending BY ItemFacts DEF BatchInit, Init, Ending
<1>3. InTurn
    <2>1. ASSUME NEW b \in Batches, NEW j \in DOMAIN ItemsOf[b] PROVE ~Began(ItemsOf[b][j])
        BY ItemFacts DEF BatchInit, Init, Began, Exists
    <2>. QED BY <2>1 DEF InTurn, BatchInit
<1>4. bpc \in [Batches -> BatchSteps] BY DEF BatchInit, BatchSteps
<1>. QED BY <1>1, <1>2, <1>3, <1>4 DEF Api

LEMMA ApiInvariant == BatchSpec => []Api
<1>1. BatchInit => Api BY ApiInit, BatchAssumption
<1>2. Api /\ [BatchNext]_batchVars => Api'
    <2>. SUFFICES ASSUME Api, [BatchNext]_batchVars PROVE Api' OBVIOUS
    <2>1. (TypeOK /\ KeysKept)' BY BatchStep, BatchAssumption, TypeStep, KeysStep DEF Api
    <2>2. Ending' /\ InTurn' BY EndingStep, InTurnStep, BatchAssumption
    <2>3. (bpc \in [Batches -> BatchSteps])'
        BY DEF Api, BatchNext, SingleStep, SingleReply, BatchStart, BatchRow, BatchItem,
               BatchReply, CreateTemplate, apiVars, batchVars, BatchSteps
    <2>. QED BY <2>1, <2>2, <2>3 DEF Api
<1>. QED BY <1>1, <1>2, PTL DEF BatchSpec

\* A success is about a stored notification, and a created batch has one for
\* each of its items: for any batches, sizes and keys, and any failures.
THEOREM SuccessIsStoredCorrect == BatchSpec => []SuccessIsStored
<1>1. BatchAssumption /\ Api => SuccessIsStored
    <2>. SUFFICES ASSUME BatchAssumption, Api PROVE SuccessIsStored OBVIOUS
    <2>1. ASSUME NEW n \in Notif, outcome[n] = "ok" PROVE answer[n] # None /\ Exists(answer[n])
        BY <2>1, ConstantsAssumption DEF Api, KeysKept, AnswerStored
    <2>2. \A n \in Singles : reply[n] = 201 => outcome[n] = "ok"
        BY DEF Api, Ending, Singles
    <2>3. \A b \in Batches : \A n \in Items(b) : n \in Notif BY ItemFacts
    <2>4. \A n \in Singles : n \in Notif BY DEF Singles
    <2>. QED BY <2>1, <2>2, <2>3, <2>4 DEF SuccessIsStored, Api, Ending
<1>. QED BY <1>1, BatchAssumption, ApiInvariant, PTL

\* A batch leaves a prefix of its items, wherever it stops.
THEOREM BatchIsPrefixCorrect == BatchSpec => []BatchIsPrefix
<1>1. Api => BatchIsPrefix BY DEF Api, InTurn, BatchIsPrefix, Began
<1>. QED BY <1>1, ApiInvariant, PTL

-----------------------------------------------------------------------------
(* What is stored                                                            *)

Fits(n) ==
    /\ request[n].channel \in Channels /\ request[n].recipient
    /\ ContentLength(request[n]) <= MaxLength[request[n].channel]
    /\ ContentLength(request[n]) > 0 \/ request[n].template \in templates

\* A request that got past Build was found to fit, with the templates of then.
Checked ==
    \A n \in Notif : Exists(n) \/ cpc[n] \notin {"lookup", "build", "done"} => Fits(n)

LEMMA ValidFits ==
    ASSUME NEW n \in Notif, Verdict(request[n], templates) = "valid" PROVE Fits(n)
BY DEF Verdict, Found, Valid, Fits

LEMMA CheckedCall ==
    ASSUME TypeOK, KeysKept, Ending, Checked, NEW n \in Notif, CreateCalls(n)
    PROVE  /\ Exists(n)' \/ cpc'[n] \notin {"lookup", "build", "done"} => Fits(n)
           /\ \A m \in Notif \ {n} : cpc'[m] = cpc[m] /\ (Exists(m)' <=> Exists(m))
<1>1. \A m \in Notif \ {n} : cpc'[m] = cpc[m] /\ (Exists(m)' <=> Exists(m))
    BY CallIsCreate, OneCall
<1>2. Exists(n)' \/ cpc'[n] \notin {"lookup", "build", "done"} => Fits(n)
    <2>. USE DEF TypeOK, CreateTypes, RowTypes, Goto, Return, rowVars, Exists, Checked
    <2>1. CASE Lookup(n) BY <2>1 DEF Lookup, RowsWithKey
    <2>2. CASE Build(n, Verdict(request[n], templates))
        <3>1. CASE Verdict(request[n], templates) = "valid" BY <3>1, ValidFits
        <3>2. CASE Verdict(request[n], templates) # "valid" BY <2>2, <3>2 DEF Build
        <3>. QED BY <3>1, <3>2
    <2>3. CASE Claim(n) \/ Recall(n) \/ Fetch(n) \/ Insert(n) \/ PlaceItem(n) \/ Confirm(n)
        <3>. cpc[n] \notin {"lookup", "build", "done"}
            BY <2>3 DEF Claim, Recall, Fetch, Insert, PlaceItem, Finish, Confirm
        <3>. QED OBVIOUS
    <2>4. CASE CreateAbort(n) BY <2>4 DEF CreateAbort
    <2>. QED BY <2>1, <2>2, <2>3, <2>4 DEF CreateCalls, CreateCall
<1>. QED BY <1>1, <1>2

LEMMA CheckedStep ==
    ASSUME Api, Checked, BatchAssumption, [BatchNext]_batchVars PROVE Checked'
<1>. USE DEF Api
<1>1. UNCHANGED request /\ templates \subseteq templates'
    BY DEF BatchNext, SingleStep, SingleReply, BatchStart, BatchRow, BatchItem, BatchReply,
           CreateTemplate, batchVars, apiVars
<1>2. \A n \in Notif : Fits(n) => Fits(n)' BY <1>1 DEF Fits
<1>3. ASSUME NEW n \in Notif, CreateCalls(n) PROVE Checked'
    BY <1>2, <1>3, CheckedCall DEF Checked
<1>4. CASE Backend \/ UNCHANGED vars
    BY <1>2, <1>4, BackendCalls DEF Checked, createVars
<1>5. CASE \E n \in Notif : SingleStep(n) BY <1>3, <1>5 DEF SingleStep
<1>6. CASE \E b \in Batches : BatchItem(b) BY <1>3, <1>6, ItemFacts DEF BatchItem
<1>. QED BY <1>4, <1>5, <1>6
     DEF BatchNext, SingleReply, BatchStart, BatchRow, BatchReply, CreateTemplate, batchVars

\* Whatever templates, values and limits there are, no notification is stored
\* that its channel would refuse.
THEOREM StoredFitsCorrect == BatchSpec => []StoredFits
<1>1. BatchInit => Checked BY DEF BatchInit, Init, Checked, Exists
<1>2. BatchAssumption /\ Api /\ Checked /\ [BatchNext]_batchVars => Checked' BY CheckedStep
<1>3. Checked => StoredFits BY DEF Checked, Fits, StoredFits
<1>. QED BY <1>1, <1>2, <1>3, BatchAssumption, ApiInvariant, PTL DEF BatchSpec

-----------------------------------------------------------------------------
(* What a refused request leaves behind                                      *)

Refused(n) == outcome[n] \in {"invalid", "notemplate"}

\* Before Build, and after a refusal, a request has no claim on its key and no
\* row; a refused one has ended, and its work item with it.
Clean ==
    \A n \in Notif :
        /\ cpc[n] \in {"lookup", "build"} \/ Refused(n) =>
               ~Exists(n) /\ \A k \in Keys : idem[k] # n
        /\ Refused(n) => cpc[n] = "done" /\ ~Near(n)

\* Only Build refuses, and the item of the request it refuses is nowhere else.
LEMMA OnlyBuildRefuses ==
    ASSUME TypeOK, AllApart, [Next]_vars, NEW n \in Notif, Refused(n)'
    PROVE  Refused(n) \/ (cpc[n] = "build" /\ cpc'[n] = "done" /\ ~Near(n)' /\ UNCHANGED idem)
<1>1. ASSUME NEW m \in Notif, CreateStep(m) \/ CreateAbort(m)
      PROVE  Refused(n) \/ \E verdict \in Verdicts : Build(n, verdict)
    BY <1>1 DEF CreateStep, CreateCall, CreateAbort, Lookup, Claim, Recall, Fetch, Insert,
                PlaceItem, Finish, Confirm, Build, Goto, Return, Refused, TypeOK, CreateTypes
<1>2. CASE Backend \/ UNCHANGED vars
    BY <1>2, BackendKeys DEF Refused, createVars
<1>3. ASSUME NEW verdict \in Verdicts, Build(n, verdict)
      PROVE  Refused(n) \/ (cpc[n] = "build" /\ cpc'[n] = "done" /\ ~Near(n)' /\ UNCHANGED idem)
    <2>1. cpc[n] = "build" /\ UNCHANGED <<redisVars, workerVars, promoterVars>>
        BY <1>3 DEF Build, CreateFrame
    <2>2. CASE verdict = "valid" BY <1>3, <2>2 DEF Build, Goto, Refused
    <2>3. CASE verdict # "valid"
        <3>1. cpc'[n] = "done" BY <1>3, <2>3 DEF Build, Return, TypeOK, CreateTypes
        <3>2. Apart(n) /\ Unplaced(n) BY <2>1 DEF AllApart, Unplaced
        <3>. QED
            BY <2>1, <3>1, <3>2
            DEF Near, Elsewhere, Unplaced, Apart, NotQueued, NotSet, NotHeld, NotWorked, Stores,
                redisVars, workerVars, promoterVars, TypeOK, RedisTypes
    <2>. QED BY <2>2, <2>3
<1>. QED BY <1>1, <1>2, <1>3 DEF Next

\* A request that is not yet at Build came there by its lookup alone.
LEMMA NotBuiltBefore ==
    ASSUME TypeOK, [Next]_vars, NEW n \in Notif, cpc'[n] \in {"lookup", "build"}
    PROVE  cpc[n] \in {"lookup", "build"}
<1>1. ASSUME NEW m \in Notif, CreateStep(m) \/ CreateAbort(m)
      PROVE  cpc[n] \in {"lookup", "build"}
    BY <1>1 DEF CreateStep, CreateCall, CreateAbort, Lookup, Claim, Recall, Fetch, Insert,
                PlaceItem, Finish, Confirm, Build, Goto, Return, TypeOK, CreateTypes
<1>2. CASE Backend \/ UNCHANGED vars BY <1>2, BackendKeys DEF createVars
<1>. QED BY <1>1, <1>2 DEF Next

LEMMA DoneStays ==
    ASSUME TypeOK, [Next]_vars, NEW n \in Notif, cpc[n] = "done"
    PROVE  cpc'[n] = "done"
<1>1. ASSUME NEW m \in Notif, CreateStep(m) \/ CreateAbort(m) PROVE cpc'[n] = "done"
    BY <1>1 DEF CreateStep, CreateCall, CreateAbort, Lookup, Claim, Recall, Fetch, Insert,
                PlaceItem, Finish, Confirm, Build, Goto, Return, TypeOK, CreateTypes
<1>2. CASE Backend \/ UNCHANGED vars BY <1>2, BackendKeys DEF createVars
<1>. QED BY <1>1, <1>2 DEF Next

\* Only Claim takes a key, and only for its own request.
LEMMA OnlyClaimTakes ==
    ASSUME TypeOK, [Next]_vars, NEW n \in Notif, NEW k \in Keys, idem'[k] = n
    PROVE  idem[k] = n \/ Claim(n)
<1>1. ASSUME NEW m \in Notif, CreateStep(m) \/ CreateAbort(m) PROVE idem[k] = n \/ Claim(n)
    BY <1>1 DEF CreateStep, CreateCall, CreateAbort, Lookup, Claim, Recall, Fetch, Insert,
                PlaceItem, Finish, Confirm, Build, redisVars, TypeOK, RedisTypes
<1>2. CASE Backend \/ UNCHANGED vars
    BY <1>2, BackendKeys, ConstantsAssumption DEF TypeOK, RedisTypes
<1>. QED BY <1>1, <1>2 DEF Next

LEMMA CleanStep == TypeOK /\ AllApart /\ KeysKept /\ Clean /\ [Next]_vars => Clean'
<1>. SUFFICES ASSUME TypeOK, AllApart, KeysKept, Clean, [Next]_vars, NEW n \in Notif
              PROVE  /\ cpc'[n] \in {"lookup", "build"} \/ Refused(n)' =>
                            ~Exists(n)' /\ \A k \in Keys : idem'[k] # n
                     /\ Refused(n)' => cpc'[n] = "done" /\ ~Near(n)'
    BY DEF Clean
<1>1. CASE Refused(n)
    <2>1. cpc[n] = "done" /\ ~Near(n) /\ ~Exists(n) /\ \A k \in Keys : idem[k] # n
        BY <1>1 DEF Clean
    <2>2. ~Claim(n) /\ ~Insert(n) BY <2>1 DEF Claim, Insert
    <2>3. ~Exists(n)' /\ \A k \in Keys : idem'[k] # n
        BY <2>1, <2>2, RowsStay, OnlyClaimTakes
    <2>4. cpc'[n] = "done" BY <2>1, DoneStays
    <2>. QED BY <2>1, <2>3, <2>4, NearShrinks
<1>2. CASE ~Refused(n) /\ cpc[n] \in {"lookup", "build"}
    <2>1. ~Exists(n) /\ \A k \in Keys : idem[k] # n BY <1>2 DEF Clean
    <2>2. ~Claim(n) /\ ~Insert(n) BY <1>2 DEF Claim, Insert
    <2>. QED BY <1>2, <2>1, <2>2, RowsStay, OnlyClaimTakes, OnlyBuildRefuses
<1>3. CASE ~Refused(n) /\ cpc[n] \notin {"lookup", "build"}
    BY <1>3, NotBuiltBefore, OnlyBuildRefuses
<1>. QED BY <1>1, <1>2, <1>3

\* Whatever keys, batches, workers and failures there are, a refused request
\* can be corrected and sent again under its key.
THEOREM RefusedLeavesNothingCorrect == BatchSpec => []RefusedLeavesNothing
<1>. DEFINE Inv == TypeOK /\ AllApart /\ KeysKept /\ Clean
<1>1. Init => Inv
    <2>1. Init => Clean BY ConstantsAssumption DEF Init, Clean, Refused, Exists
    <2>. QED BY <2>1, TypeInit, ApartInit, KeysInit
<1>2. Inv /\ [Next]_vars => Inv' BY TypeStep, ApartStep, KeysStep, CleanStep
<1>3. Inv => RefusedLeavesNothing BY NearIsLive DEF Clean, Refused, RefusedLeavesNothing
<1>4. Spec => []Inv
    <2>. HIDE DEF Inv
    <2>. QED BY <1>1, <1>2, PTL DEF Spec
<1>. QED BY <1>3, <1>4, BatchImplements, PTL

-----------------------------------------------------------------------------
(* BatchTypeOK and BatchAccounted                                            *)

CodeSet == {0, 201, 400, 404, 409, 500}

\* What the API keeps: the requests as they came, the steps and the answers.
LEMMA ApiTypeStep ==
    ASSUME Api, BatchAssumption, [BatchNext]_batchVars,
           BatchTypeOK
    PROVE  BatchTypeOK'
<1>1. TypeOK' BY BatchStep, TypeStep DEF Api
<1>2. /\ UNCHANGED request
      /\ (bpc \in [Batches -> {"start", "row", "items", "done"}])'
      /\ batches' \subseteq Batches /\ templates' \subseteq Templates
    <2>. DEFINE Goal == /\ UNCHANGED request
                        /\ (bpc \in [Batches -> {"start", "row", "items", "done"}])'
                        /\ batches' \subseteq Batches /\ templates' \subseteq Templates
    <2>. USE DEF BatchTypeOK
    <2>1. ASSUME NEW n \in Notif, SingleStep(n) \/ SingleReply(n) PROVE Goal
        BY <2>1 DEF SingleStep, SingleReply, apiVars
    <2>2. ASSUME NEW b \in Batches, BatchStart(b) PROVE Goal
        <3>1. UNCHANGED <<request, batches, templates>> BY <2>2 DEF BatchStart
        <3>2. \E st \in {"row", "done"} : bpc' = [bpc EXCEPT ![b] = st]
            BY <2>2 DEF BatchStart
        <3>. QED BY <3>1, <3>2
    <2>3. ASSUME NEW b \in Batches, BatchRow(b) PROVE Goal
        <3>1. UNCHANGED <<request, templates>> BY <2>3 DEF BatchRow
        <3>2. batches' \subseteq Batches BY <2>3 DEF BatchRow
        <3>3. \E st \in {"items", "done"} : bpc' = [bpc EXCEPT ![b] = st]
            BY <2>3 DEF BatchRow
        <3>. QED BY <3>1, <3>2, <3>3
    <2>4. ASSUME NEW b \in Batches, BatchItem(b) PROVE Goal BY <2>4 DEF BatchItem, apiVars
    <2>5. ASSUME NEW b \in Batches, BatchReply(b) PROVE Goal BY <2>5 DEF BatchReply
    <2>6. ASSUME NEW t \in Templates, CreateTemplate(t) PROVE Goal BY <2>6 DEF CreateTemplate
    <2>7. CASE UNCHANGED apiVars BY <2>7 DEF apiVars
    <2>. QED BY <2>1, <2>2, <2>3, <2>4, <2>5, <2>6, <2>7 DEF BatchNext, batchVars, apiVars
<1>3. (reply \in [Batches \cup Notif -> CodeSet])'
    <2>. USE DEF BatchTypeOK, Answer, CodeSet
    <2>1. ASSUME NEW n \in Notif, SingleReply(n) PROVE (reply \in [Batches \cup Notif -> CodeSet])'
        <3>1. CASE Answer(n, 400) BY <3>1
        <3>2. CASE cpc[n] = "done" /\ Answer(n, Code(outcome[n]))
            <4>1. outcome[n] \in {"ok", "notfound", "duplicate", "invalid", "notemplate", "error"}
                BY <3>2 DEF Api, Ending, TypeOK, CreateTypes
            <4>2. Code(outcome[n]) \in CodeSet BY <4>1 DEF Code
            <4>. QED BY <3>2, <4>2
        <3>. QED BY <2>1, <3>1, <3>2 DEF SingleReply
    <2>2. ASSUME NEW b \in Batches, BatchStart(b) \/ BatchRow(b)
          PROVE  (reply \in [Batches \cup Notif -> CodeSet])'
        BY <2>2 DEF BatchStart, BatchRow
    <2>3. ASSUME NEW b \in Batches, BatchReply(b)
          PROVE  (reply \in [Batches \cup Notif -> CodeSet])'
        <3>1. Ended(b) # "none" /\ Answer(b, Code(Ended(b))) BY <2>3 DEF BatchReply
        <3>2. Code(Ended(b)) \in CodeSet BY <3>1, EndedCode DEF Api
        <3>. QED BY <3>1, <3>2
    <2>4. CASE UNCHANGED reply BY <2>4
    <2>. QED BY <2>1, <2>2, <2>3, <2>4
         DEF BatchNext, SingleStep, BatchItem, CreateTemplate, apiVars, batchVars
<1>. QED BY <1>1, <1>2, <1>3 DEF BatchTypeOK, CodeSet

\* The types of the API, for every instance.
THEOREM BatchTypeCorrect == BatchSpec => []BatchTypeOK
<1>1. BatchAssumption /\ BatchInit => BatchTypeOK
    BY ApiInit DEF BatchInit, BatchTypeOK, Api
<1>2. BatchAssumption /\ Api /\ BatchTypeOK /\ [BatchNext]_batchVars => BatchTypeOK'
    BY ApiTypeStep
<1>. QED BY <1>1, <1>2, BatchAssumption, ApiInvariant, PTL DEF BatchSpec

\* A request without a key is never answered with the notification of another.
OwnAnswer == \A n \in Notif : KeyOf[n] = None =>
                 cpc[n] # "fetch" /\ (outcome[n] = "ok" => answer[n] = n)

LEMMA OwnStep == TypeOK /\ OwnAnswer /\ [Next]_vars => OwnAnswer'
<1>. SUFFICES ASSUME TypeOK, OwnAnswer, [Next]_vars, NEW n \in Notif, KeyOf[n] = None
              PROVE  cpc'[n] # "fetch" /\ (outcome'[n] = "ok" => answer'[n] = n)
    BY DEF OwnAnswer
<1>1. ASSUME NEW m \in Notif, CreateStep(m) \/ CreateAbort(m)
      PROVE  cpc'[n] # "fetch" /\ (outcome'[n] = "ok" => answer'[n] = n)
    BY <1>1 DEF CreateStep, CreateCall, CreateAbort, Lookup, Claim, Recall, Fetch, Insert,
                PlaceItem, Finish, Confirm, Build, Goto, Return, OwnAnswer, TypeOK, CreateTypes, Verdicts
<1>2. CASE Backend \/ UNCHANGED vars BY <1>2, BackendKeys DEF createVars, OwnAnswer
<1>. QED BY <1>1, <1>2 DEF Next

LEMMA OwnInvariant == BatchSpec => []OwnAnswer
<1>1. Init => TypeOK /\ OwnAnswer
    BY TypeInit DEF Init, OwnAnswer
<1>2. TypeOK /\ OwnAnswer /\ [Next]_vars => (TypeOK /\ OwnAnswer)' BY TypeStep, OwnStep
<1>3. Spec => []OwnAnswer BY <1>1, <1>2, PTL DEF Spec
<1>. QED BY <1>3, BatchImplements, PTL

\* A batch has as many items as it has requests, finitely many.
LEMMA ItemsCounted ==
    ASSUME BatchAssumption, NEW b \in Batches
    PROVE  IsFiniteSet(Items(b)) /\ Cardinality(Items(b)) = Len(ItemsOf[b])
<1>. DEFINE f == [i \in 1..Len(ItemsOf[b]) |-> ItemsOf[b][i]]
<1>1. /\ ItemsOf[b] \in Seq(Notif)
      /\ DOMAIN ItemsOf[b] = 1..Len(ItemsOf[b]) /\ Len(ItemsOf[b]) \in Nat
      /\ \A i, j \in 1..Len(ItemsOf[b]) : ItemsOf[b][i] = ItemsOf[b][j] => i = j
    <2>1. ItemsOf[b] \in Seq(Notif) BY DEF BatchAssumption
    <2>2. DOMAIN ItemsOf[b] = 1..Len(ItemsOf[b]) /\ Len(ItemsOf[b]) \in Nat BY <2>1
    <2>. QED BY <2>1, <2>2 DEF BatchAssumption
<1>2. f \in Bijection(1..Len(ItemsOf[b]), Items(b))
    <2>1. f \in [1..Len(ItemsOf[b]) -> Items(b)] BY <1>1 DEF Items
    <2>2. \A i, j \in 1..Len(ItemsOf[b]) : f[i] = f[j] => i = j BY <1>1
    <2>3. \A n \in Items(b) : \E i \in 1..Len(ItemsOf[b]) : f[i] = n BY <1>1 DEF Items
    <2>. QED BY <2>1, <2>2, <2>3, Fun_IsBij
<1>3. IsFiniteSet(1..Len(ItemsOf[b])) /\ Cardinality(1..Len(ItemsOf[b])) = Len(ItemsOf[b])
    <2>1. 1 \in Int /\ Len(ItemsOf[b]) \in Int BY <1>1
    <2>2. /\ IsFiniteSet(1..Len(ItemsOf[b]))
          /\ Cardinality(1..Len(ItemsOf[b])) =
                 IF 1 > Len(ItemsOf[b]) THEN 0 ELSE Len(ItemsOf[b]) - 1 + 1
        BY <2>1, FS_Interval
    <2>. QED BY <1>1, <2>2
<1>. QED BY <1>2, <1>3, FS_Bijection DEF ExistsBijection

LEMMA DisjointCount ==
    ASSUME NEW S, NEW T, IsFiniteSet(S), IsFiniteSet(T), S \cap T = {}
    PROVE  IsFiniteSet(S \cup T) /\ Cardinality(S \cup T) = Cardinality(S) + Cardinality(T)
<1>1. Cardinality(S) \in Nat /\ Cardinality(T) \in Nat /\ Cardinality(S \cap T) = 0
    BY FS_CardinalityType, FS_EmptySet
<1>2. /\ IsFiniteSet(S \cup T)
      /\ Cardinality(S \cup T) = Cardinality(S) + Cardinality(T) - Cardinality(S \cap T)
    BY FS_Union
<1>. QED BY <1>1, <1>2

\* The items of a batch that have a row are those counted under some status.
LEMMA StatusesCounted ==
    ASSUME TypeOK, NEW S, S \subseteq Notif, IsFiniteSet(S)
    PROVE  Cardinality({n \in S : Exists(n)}) =
               Cardinality({n \in S : status[n] = "pending"})
             + Cardinality({n \in S : status[n] = "queued"})
             + Cardinality({n \in S : status[n] = "sending"})
             + Cardinality({n \in S : status[n] = "delivered"})
             + Cardinality({n \in S : status[n] = "failed"})
             + Cardinality({n \in S : status[n] = "cancelled"})
<1>. DEFINE P(s) == {n \in S : status[n] = s}
            two   == P("pending") \cup P("queued")
            three == two \cup P("sending")
            four  == three \cup P("delivered")
            five  == four \cup P("failed")
            six   == five \cup P("cancelled")
<1>1. ASSUME NEW s PROVE IsFiniteSet(P(s))
    <2>1. P(s) \in SUBSET S OBVIOUS
    <2>. QED BY <2>1, FS_Subset
<1>2. IsFiniteSet(two) /\ Cardinality(two) = Cardinality(P("pending")) + Cardinality(P("queued"))
    <2>1. P("pending") \cap P("queued") = {} OBVIOUS
    <2>. QED BY <1>1, <2>1, DisjointCount
<1>3. IsFiniteSet(three) /\ Cardinality(three) = Cardinality(two) + Cardinality(P("sending"))
    <2>1. two \cap P("sending") = {} OBVIOUS
    <2>. HIDE DEF two
    <2>. QED BY <1>1, <1>2, <2>1, DisjointCount
<1>4. IsFiniteSet(four) /\ Cardinality(four) = Cardinality(three) + Cardinality(P("delivered"))
    <2>1. three \cap P("delivered") = {} OBVIOUS
    <2>. HIDE DEF three
    <2>. QED BY <1>1, <1>3, <2>1, DisjointCount
<1>5. IsFiniteSet(five) /\ Cardinality(five) = Cardinality(four) + Cardinality(P("failed"))
    <2>1. four \cap P("failed") = {} OBVIOUS
    <2>. HIDE DEF four
    <2>. QED BY <1>1, <1>4, <2>1, DisjointCount
<1>6. IsFiniteSet(six) /\ Cardinality(six) = Cardinality(five) + Cardinality(P("cancelled"))
    <2>1. five \cap P("cancelled") = {} OBVIOUS
    <2>. HIDE DEF five
    <2>. QED BY <1>1, <1>5, <2>1, DisjointCount
<1>7. {n \in S : Exists(n)} = six
    BY DEF Exists, TypeOK, RowTypes, Statuses
<1>8. \A s : Cardinality(P(s)) \in Nat BY <1>1, FS_CardinalityType
<1>. HIDE DEF P, two, three, four, five, six
<1>9. Cardinality(six) = Cardinality(P("pending")) + Cardinality(P("queued"))
          + Cardinality(P("sending")) + Cardinality(P("delivered"))
          + Cardinality(P("failed")) + Cardinality(P("cancelled"))
    BY <1>2, <1>3, <1>4, <1>5, <1>6
<1>. QED BY <1>7, <1>9 DEF P

\* The counts of a created batch fall short of its total by the items that were
\* answered with an older notification: for any batches, keys and failures, and
\* whatever workers and cancel requests make of the notifications.
THEOREM BatchAccountedCorrect == BatchSpec => []BatchAccounted
<1>1. BatchAssumption /\ Api /\ OwnAnswer => BatchAccounted
    <2>. SUFFICES ASSUME BatchAssumption, Api, OwnAnswer, NEW b \in Batches, reply[b] = 201
                  PROVE  Len(ItemsOf[b]) =
                             Cardinality({n \in Items(b) : status[n] = "pending"})
                           + Cardinality({n \in Items(b) : status[n] = "queued"})
                           + Cardinality({n \in Items(b) : status[n] = "sending"})
                           + Cardinality({n \in Items(b) : status[n] = "delivered"})
                           + Cardinality({n \in Items(b) : status[n] = "failed"})
                           + Cardinality({n \in Items(b) : status[n] = "cancelled"})
                           + Cardinality({n \in Items(b) : answer[n] \in Notif \ {n}})
        BY DEF BatchAccounted, StatusCounts, Statuses
    <2>. DEFINE Stored == {n \in Items(b) : Exists(n)}
                Older  == {n \in Items(b) : answer[n] \in Notif \ {n}}
    <2>1. Items(b) \subseteq Notif BY ItemFacts
    <2>2. ASSUME NEW n \in Items(b) PROVE Exists(n) <=> answer[n] \notin Notif \ {n}
        <3>1. n \in Notif /\ outcome[n] = "ok" BY <2>1 DEF Api, Ending
        <3>2. answer[n] \in Notif /\ Exists(answer[n]) /\ KeyOf[answer[n]] = KeyOf[n]
            BY <3>1 DEF Api, KeysKept, AnswerStored
        <3>3. CASE KeyOf[n] = None BY <3>1, <3>2, <3>3 DEF OwnAnswer
        <3>4. CASE KeyOf[n] # None BY <3>1, <3>2, <3>4 DEF Api, KeysKept, OneRowPerKey
        <3>. QED BY <3>3, <3>4
    <2>3. Stored \cap Older = {} /\ Items(b) = Stored \cup Older BY <2>2
    <2>4. IsFiniteSet(Items(b)) /\ Cardinality(Items(b)) = Len(ItemsOf[b]) BY ItemsCounted
    <2>5. IsFiniteSet(Stored) /\ IsFiniteSet(Older)
        <3>1. Stored \in SUBSET Items(b) /\ Older \in SUBSET Items(b) OBVIOUS
        <3>. QED BY <2>4, <3>1, FS_Subset
    <2>6. Len(ItemsOf[b]) = Cardinality(Stored) + Cardinality(Older)
        BY <2>3, <2>4, <2>5, DisjointCount
    <2>7. TypeOK BY DEF Api
    <2>. QED BY <2>1, <2>4, <2>6, <2>7, StatusesCounted
<1>. QED BY <1>1, BatchAssumption, ApiInvariant, OwnInvariant, PTL
=============================================================================
