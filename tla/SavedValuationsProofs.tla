------------------------ MODULE SavedValuationsProofs ------------------------
(***************************************************************************)
(* The saved valuations: callers cannot touch each other's, and the flag   *)
(* for manual edits is right unless two PATCHes overlap on a row, for any  *)
(* users, values and number of requests at the same time. A list that is   *)
(* read page by page misses no row but through the two races that the      *)
(* model names, for any page size and any number of rows.                  *)
(***************************************************************************)
EXTENDS ProcessedValuations, RowLists, FiniteSetTheorems, TLAPS

Truthful(row) == row.edited <=> row.final # row.extracted

\* A request has a row of its user's, and a PATCH that nobody has raced leaves
\* the row with a flag that is right.
RequestSound(c) ==
    request[c].kind # "none" =>
        /\ request[c].id \in DOMAIN rows
        /\ request[c].user = rows[request[c].id].owner
        /\ request[c].kind = "patch" /\ request[c].id \notin raced =>
              Truthful(Write(rows[request[c].id], request[c]))

IInv ==
    /\ TypeOK
    /\ \A i \in DOMAIN rows \ raced : Truthful(rows[i])
    /\ \A c \in Client : RequestSound(c)

-----------------------------------------------------------------------------

LEMMA Shape ==
    ASSUME IInv, NEW c \in Client
    PROVE  request[c] \in Request /\ RequestSound(c)
  BY DEF IInv, TypeOK

LEMMA RowShape ==
    ASSUME IInv, NEW i \in DOMAIN rows
    PROVE  rows[i] \in Row /\ (i \notin raced => Truthful(rows[i]))
  BY DEF IInv, TypeOK

LEMMA RequestEffect ==
    ASSUME TypeOK, NEW c \in Client, NEW r \in Request,
           request' = [request EXCEPT ![c] = r]
    PROVE  /\ request' \in [Client -> Request] /\ request'[c] = r
           /\ \A d \in Client \ {c} : request'[d] = request[d]
  BY DEF TypeOK

LEMMA RowEffect ==
    ASSUME IInv, NEW i \in DOMAIN rows, NEW row \in Row,
           rows' = [rows EXCEPT ![i] = row]
    PROVE  /\ rows' \in Seq(Row) /\ DOMAIN rows' = DOMAIN rows
           /\ rows'[i] = row
           /\ \A j \in DOMAIN rows \ {i} : rows'[j] = rows[j]
  BY DEF IInv, TypeOK

LEMMA NoRequestIs == NoRequest \in Request /\ NoRequest.kind = "none"
  BY DEF NoRequest, Request

\* A request that takes up a row or lets go of it, while the rows stay.
LEMMA RequestStepKeeps ==
    ASSUME IInv, NEW c \in Client, NEW r \in Request,
           request' = [request EXCEPT ![c] = r], UNCHANGED <<rows, raced>>,
           RequestSound(c)'
    PROVE  IInv'
<1>1. /\ request' \in [Client -> Request]
      /\ \A d \in Client \ {c} : request'[d] = request[d]
  BY RequestEffect DEF IInv
<1>2. TypeOK' /\ \A i \in DOMAIN rows' \ raced' : Truthful(rows'[i])
  BY <1>1 DEF IInv, TypeOK
<1>3. ASSUME NEW d \in Client, d # c PROVE RequestSound(d)'
  <2>1. request'[d] = request[d] /\ RequestSound(d)
    BY <1>1, <1>3, Shape
  <2> QED
    BY <2>1 DEF RequestSound
<1> QED
  BY <1>2, <1>3 DEF IInv

-----------------------------------------------------------------------------
\* What an UPDATE does to a row.

\* The columns a PATCH names, written on the row it loaded, give that row the
\* values that were sent, and the flag that goes with them.
LEMMA PatchIsTruthful ==
    ASSUME NEW row \in Row, Truthful(row), NEW r \in Request,
           NEW extracted \in Value \cup {None}, NEW final \in Value \cup {None},
           r.extracted = Changed(extracted, row.extracted),
           r.final = Changed(final, row.final),
           r.edited = FlagAfter(row, extracted, final)
    PROVE  Truthful(Write(row, r))
<1>1. /\ row.extracted \in Value /\ row.final \in Value /\ row.edited \in BOOLEAN
  BY DEF Row
<1>2. Given(r.extracted, row.extracted) = Given(extracted, row.extracted)
  BY DEF Changed, Given
<1>3. Given(r.final, row.final) = Given(final, row.final)
  BY DEF Changed, Given
<1> DEFINE w == Write(row, r)
<1>4. /\ w.extracted = Given(extracted, row.extracted)
      /\ w.final = Given(final, row.final)
      /\ w.edited = IF r.edited = "kept" THEN row.edited ELSE r.edited = "yes"
  BY <1>2, <1>3 DEF Write, Row
<1>5. w.edited <=> Given(final, row.final) # Given(extracted, row.extracted)
  BY <1>1, <1>4 DEF FlagAfter
<1> QED
  BY <1>4, <1>5 DEF Truthful

LEMMA WriteIsRow ==
    ASSUME NEW row \in Row, NEW r \in Request
    PROVE  Write(row, r) \in Row /\ Write(row, r).owner = row.owner
<1>1. /\ Given(r.extracted, row.extracted) \in Value
      /\ Given(r.final, row.final) \in Value
  BY DEF Given, Row, Request
<1>2. (IF r.edited = "kept" THEN row.edited ELSE r.edited = "yes") \in BOOLEAN
  BY DEF Row
<1> QED
  BY <1>1, <1>2 DEF Write, Row

\* DELETE takes nothing but the row's presence.
LEMMA DeadRow ==
    ASSUME NEW row \in Row
    PROVE  /\ [row EXCEPT !.live = FALSE] \in Row
           /\ [row EXCEPT !.live = FALSE].owner = row.owner
           /\ Truthful(row) => Truthful([row EXCEPT !.live = FALSE])
           /\ \A r \in Request : Truthful(Write(row, r)) =>
                                     Truthful(Write([row EXCEPT !.live = FALSE], r))
  BY DEF Row, Truthful, Write

-----------------------------------------------------------------------------
\* The requests.

LEMMA CreateValuationKeeps ==
    ASSUME IInv, NEW u \in User, NEW extracted \in Value, NEW final \in Value,
           CreateValuation(u, extracted, final)
    PROVE  IInv'
<1> DEFINE row == [owner |-> u, extracted |-> extracted, final |-> final,
                   edited |-> final # extracted, live |-> TRUE]
<1>1. row \in Row /\ Truthful(row)
  BY DEF Row, Truthful
<1>2. rows \in Seq(Row) /\ rows' = Append(rows, row)
  BY DEF IInv, TypeOK, CreateValuation
<1> HIDE DEF row
<1>3. /\ rows' \in Seq(Row) /\ DOMAIN rows \subseteq DOMAIN rows'
      /\ \A i \in DOMAIN rows : rows'[i] = rows[i]
      /\ \A i \in DOMAIN rows' : i \in DOMAIN rows \/ rows'[i] = row
  BY <1>1, <1>2
<1>4. TypeOK'
  BY <1>3 DEF IInv, TypeOK, CreateValuation
<1>5. ASSUME NEW i \in DOMAIN rows' \ raced' PROVE Truthful(rows'[i])
  BY <1>1, <1>3, RowShape DEF CreateValuation
<1>6. ASSUME NEW c \in Client PROVE RequestSound(c)'
  BY <1>3, Shape DEF RequestSound, CreateValuation
<1> QED
  BY <1>4, <1>5, <1>6 DEF IInv

LEMMA LoadForUpdateKeeps ==
    ASSUME IInv, NEW c \in Client, NEW u \in User, NEW i \in DOMAIN rows,
           NEW extracted \in Value \cup {None}, NEW final \in Value \cup {None},
           LoadForUpdate(c, u, i, extracted, final)
    PROVE  IInv'
<1> DEFINE r == [kind |-> "patch", user |-> u, id |-> i,
                 extracted |-> Changed(extracted, rows[i].extracted),
                 final |-> Changed(final, rows[i].final),
                 edited |-> FlagAfter(rows[i], extracted, final)]
<1>1. rows[i] \in Row /\ (i \notin raced => Truthful(rows[i])) /\ rows[i].owner = u
  BY RowShape DEF LoadForUpdate, Owned
<1>2. i \in Nat
  BY DEF IInv, TypeOK
<1>3. /\ Changed(extracted, rows[i].extracted) \in Value \cup {None}
      /\ Changed(final, rows[i].final) \in Value \cup {None}
      /\ FlagAfter(rows[i], extracted, final) \in {"kept", "yes", "no"}
  BY DEF Changed, FlagAfter
<1>4. r \in Request
  BY <1>2, <1>3 DEF Request
<1>5. i \notin raced => Truthful(Write(rows[i], r))
  BY <1>1, <1>4, PatchIsTruthful
<1>6. /\ r.kind = "patch" /\ r.user = u /\ r.id = i
      /\ request' = [request EXCEPT ![c] = r] /\ UNCHANGED <<rows, raced>>
  BY DEF LoadForUpdate
<1> HIDE DEF r
<1>7. request'[c] = r
  BY <1>4, <1>6, RequestEffect DEF IInv
<1>8. RequestSound(c)'
  BY <1>1, <1>5, <1>6, <1>7 DEF RequestSound
<1> QED
  BY <1>4, <1>6, <1>8, RequestStepKeeps

LEMMA LoadForDeleteKeeps ==
    ASSUME IInv, NEW c \in Client, NEW u \in User, NEW i \in DOMAIN rows,
           LoadForDelete(c, u, i)
    PROVE  IInv'
<1> DEFINE r == [NoRequest EXCEPT !.kind = "delete", !.user = u, !.id = i]
<1>1. i \in Nat /\ rows[i].owner = u
  BY DEF IInv, TypeOK, LoadForDelete, Owned
<1>2. r \in Request /\ r.kind = "delete" /\ r.user = u /\ r.id = i
  BY <1>1 DEF NoRequest, Request
<1>3. request' = [request EXCEPT ![c] = r] /\ UNCHANGED <<rows, raced>>
  BY DEF LoadForDelete
<1> HIDE DEF r
<1>4. request'[c] = r
  BY <1>2, <1>3, RequestEffect DEF IInv
<1>5. RequestSound(c)'
  BY <1>1, <1>2, <1>3, <1>4 DEF RequestSound
<1> QED
  BY <1>2, <1>3, <1>5, RequestStepKeeps

\* A second PATCH that has the row loaded makes it a raced one, and a second
\* DELETE writes what is there.
LEMMA CommitUpdateKeeps ==
    ASSUME IInv, NEW c \in Client, CommitUpdate(c)
    PROVE  IInv'
<1> DEFINE i == request[c].id
<1>1. /\ request[c] \in Request /\ request[c].kind = "patch" /\ i \in DOMAIN rows
      /\ i \notin raced => Truthful(Write(rows[i], request[c]))
  BY Shape DEF CommitUpdate, RequestSound
<1>2. rows[i] \in Row /\ (i \notin raced => Truthful(rows[i]))
  BY <1>1, RowShape
<1>3. /\ request' \in [Client -> Request] /\ request'[c].kind = "none"
      /\ \A d \in Client \ {c} : request'[d] = request[d]
  BY NoRequestIs, RequestEffect DEF IInv, CommitUpdate
<1>4. /\ rows' \in Seq(Row) /\ DOMAIN rows' = DOMAIN rows
      /\ rows'[i] \in {rows[i], Write(rows[i], request[c])}
      /\ \A j \in DOMAIN rows \ {i} : rows'[j] = rows[j]
      /\ rows'[i].owner = rows[i].owner
  <2>1. CASE rows[i].live
    <3>1. rows' = [rows EXCEPT ![i] = Write(rows[i], request[c])]
      BY <2>1 DEF CommitUpdate
    <3> QED
      BY <1>1, <1>2, <3>1, WriteIsRow, RowEffect
  <2>2. CASE ~rows[i].live
    BY <2>2 DEF CommitUpdate, IInv, TypeOK
  <2> QED
    BY <2>1, <2>2
<1>5. /\ raced' \in SUBSET DOMAIN rows /\ raced \subseteq raced'
      /\ \A d \in Client \ {c} : request[d].kind = "patch" /\ request[d].id = i =>
                                    i \in raced'
  BY <1>1 DEF IInv, TypeOK, CommitUpdate
<1>6. TypeOK'
  BY <1>3, <1>4, <1>5 DEF IInv, TypeOK
<1>7. ASSUME NEW j \in DOMAIN rows' \ raced' PROVE Truthful(rows'[j])
  BY <1>1, <1>2, <1>4, <1>5, RowShape
<1>8. ASSUME NEW d \in Client PROVE RequestSound(d)'
  <2>1. CASE d = c
    BY <1>3, <2>1 DEF RequestSound
  <2>2. CASE d # c
    <3>1. request'[d] = request[d] /\ RequestSound(d) /\ request[d] \in Request
      BY <1>3, <2>2, Shape
    <3> QED
      BY <1>4, <1>5, <2>2, <3>1 DEF RequestSound
  <2> QED
    BY <2>1, <2>2
<1> QED
  BY <1>6, <1>7, <1>8 DEF IInv

LEMMA CommitDeleteKeeps ==
    ASSUME IInv, NEW c \in Client, CommitDelete(c)
    PROVE  IInv'
<1> DEFINE i == request[c].id
           row == [rows[i] EXCEPT !.live = FALSE]
<1>1. request[c].kind = "delete" /\ i \in DOMAIN rows
  BY Shape DEF CommitDelete, RequestSound
<1>2. rows[i] \in Row /\ (i \notin raced => Truthful(rows[i]))
  BY <1>1, RowShape
<1>3. /\ row \in Row /\ row.owner = rows[i].owner
      /\ Truthful(rows[i]) => Truthful(row)
      /\ \A r \in Request : Truthful(Write(rows[i], r)) => Truthful(Write(row, r))
  BY <1>2, DeadRow
<1>4. /\ request' \in [Client -> Request] /\ request'[c].kind = "none"
      /\ \A d \in Client \ {c} : request'[d] = request[d]
  BY NoRequestIs, RequestEffect DEF IInv, CommitDelete
<1>5. rows' = [rows EXCEPT ![i] = row] /\ raced' = raced
  BY DEF CommitDelete
<1> HIDE DEF row
<1>6. /\ rows' \in Seq(Row) /\ DOMAIN rows' = DOMAIN rows
      /\ rows'[i] = row
      /\ \A j \in DOMAIN rows \ {i} : rows'[j] = rows[j]
  BY <1>1, <1>3, <1>5, RowEffect
<1>7. TypeOK'
  BY <1>4, <1>5, <1>6 DEF IInv, TypeOK
<1>8. ASSUME NEW j \in DOMAIN rows' \ raced' PROVE Truthful(rows'[j])
  BY <1>2, <1>3, <1>5, <1>6, RowShape
<1>9. ASSUME NEW d \in Client PROVE RequestSound(d)'
  <2>1. CASE d = c
    BY <1>4, <2>1 DEF RequestSound
  <2>2. CASE d # c
    <3>1. request'[d] = request[d] /\ RequestSound(d) /\ request[d] \in Request
      BY <1>4, <2>2, Shape
    <3> QED
      BY <1>3, <1>5, <1>6, <3>1 DEF RequestSound
  <2> QED
    BY <2>1, <2>2
<1> QED
  BY <1>7, <1>8, <1>9 DEF IInv

LEMMA AbandonKeeps ==
    ASSUME IInv, NEW c \in Client, Abandon(c)
    PROVE  IInv'
<1>1. request'[c].kind = "none"
  BY NoRequestIs, RequestEffect DEF IInv, Abandon
<1>2. RequestSound(c)'
  BY <1>1 DEF RequestSound
<1> QED
  BY <1>2, NoRequestIs, RequestStepKeeps DEF Abandon

LEMMA Initially == Init => IInv
  BY NoRequestIs DEF Init, IInv, TypeOK, RequestSound

LEMMA Inductive == IInv /\ [Next]_vars => IInv'
<1> SUFFICES ASSUME IInv, [Next]_vars PROVE IInv'
  OBVIOUS
<1>1. CASE Next
  BY <1>1, CreateValuationKeeps, LoadForUpdateKeeps, LoadForDeleteKeeps,
     CommitUpdateKeeps, CommitDeleteKeeps, AbandonKeeps DEF Next
<1>2. CASE UNCHANGED vars
  BY <1>2 DEF vars, IInv, TypeOK, RequestSound
<1> QED
  BY <1>1, <1>2

LEMMA Invariance == Spec => []IInv
  BY Initially, Inductive, PTL DEF Spec

-----------------------------------------------------------------------------

\* Rows have a value for every column, whatever a PATCH leaves out, and requests
\* name columns of rows (ProcessedValuation, update_processed_valuation).
THEOREM TypeCorrect == Spec => []TypeOK
<1>1. IInv => TypeOK
  BY DEF IInv
<1> QED
  BY <1>1, Invariance, PTL

\* was_manually_edited says whether the committed values diverge, unless two
\* PATCHes overlap on the row (update_processed_valuation).
THEOREM FlagTheorem == Spec => []FlagTruthfulUnlessRaced
<1>1. IInv => FlagTruthfulUnlessRaced
  BY DEF IInv, Truthful, FlagTruthfulUnlessRaced
<1> QED
  BY <1>1, Invariance, PTL

\* A row changes or goes away by a request of its owner only, and keeps its owner
\* (the queries of PATCH and DELETE name the caller).
THEOREM OwnersTheorem == Spec => OwnersOnly
<1> DEFINE Owners ==
             \A i \in DOMAIN rows : rows'[i] # rows[i] =>
                /\ rows'[i].owner = rows[i].owner
                /\ \E c \in Client : /\ request[c].user = rows[i].owner
                                     /\ request[c].id = i
                                     /\ request'[c] # request[c]
<1>1. IInv /\ [Next]_vars => [Owners]_vars
  <2> SUFFICES ASSUME IInv, Next, NEW i \in DOMAIN rows, rows'[i] # rows[i]
               PROVE  /\ rows'[i].owner = rows[i].owner
                      /\ \E c \in Client : /\ request[c].user = rows[i].owner
                                           /\ request[c].id = i
                                           /\ request'[c] # request[c]
    OBVIOUS
  <2>1. ASSUME NEW c \in Client, CommitUpdate(c) \/ CommitDelete(c)
        PROVE  /\ request[c].user = rows[i].owner
               /\ request[c].id = i
               /\ request'[c] # request[c]
               /\ rows'[i].owner = rows[i].owner
    <3>1. /\ request[c] \in Request /\ request[c].kind # "none"
          /\ request[c].id \in DOMAIN rows
          /\ request[c].user = rows[request[c].id].owner
      BY <2>1, Shape DEF CommitUpdate, CommitDelete, RequestSound
    <3>2. request[c].id = i
      BY <2>1, <3>1 DEF CommitUpdate, CommitDelete, IInv, TypeOK
    <3>3. request'[c] = NoRequest
      BY <2>1 DEF CommitUpdate, CommitDelete, IInv, TypeOK
    <3>4. rows[i] \in Row
      BY RowShape
    <3>5. rows'[i].owner = rows[i].owner
      <4>1. CASE CommitUpdate(c)
        BY <3>1, <3>2, <3>4, <4>1, WriteIsRow, RowEffect DEF CommitUpdate
      <4>2. CASE CommitDelete(c)
        <5>1. rows' = [rows EXCEPT ![i] = [rows[i] EXCEPT !.live = FALSE]]
          BY <3>2, <4>2 DEF CommitDelete
        <5> QED
          BY <3>4, <5>1, DeadRow, RowEffect
      <4> QED
        BY <2>1, <4>1, <4>2
    <3> QED
      BY <3>1, <3>2, <3>3, <3>5, NoRequestIs
  <2>2. ASSUME NEW u \in User, NEW extracted \in Value, NEW final \in Value
        PROVE  ~CreateValuation(u, extracted, final)
    BY DEF CreateValuation, IInv, TypeOK
  <2>3. \E c \in Client : CommitUpdate(c) \/ CommitDelete(c)
    BY <2>2 DEF Next, LoadForUpdate, LoadForDelete, Abandon
  <2> QED
    BY <2>1, <2>3
<1> QED
  BY <1>1, Invariance, PTL DEF Spec, OwnersOnly


-----------------------------------------------------------------------------
\* Reading a list.  The rows before a page are those with fewer newer rows than
\* the pages before it hold.

ListTypeOK ==
    /\ listed \in Seq({"pending", "on", "off"})
    /\ at \in {"count", "query", "through"}
    /\ pageNo \in Nat \ {0} /\ total \in Nat
    /\ owed \subseteq OnList

\* Rows that are owed and on earlier pages have been shown.
EarlierShown ==
    \A i \in owed : Cardinality(Newer(i)) < (pageNo - 1) * PageSize => i \in shown

\* Between a count and its query no row enters while any is owed.
TotalBounds == at = "query" /\ owed # {} => Cardinality(OnList) <= total

ListInv == ListTypeOK /\ EarlierShown /\ TotalBounds /\ ListShowsAll

LEMMA Smaller ==
    ASSUME NEW T, IsFiniteSet(T), NEW S \in SUBSET T
    PROVE  /\ IsFiniteSet(S) /\ Cardinality(S) \in Nat /\ Cardinality(T) \in Nat
           /\ Cardinality(S) <= Cardinality(T)
  BY FS_Subset, FS_CardinalityType

LEMMA FiniteList ==
    ASSUME NEW l \in Seq({"pending", "on", "off"})
    PROVE  IsFiniteSet({i \in DOMAIN l : l[i] = "on"})
<1>1. IsFiniteSet(1 .. Len(l))
  BY FS_Interval
<1>2. {i \in DOMAIN l : l[i] = "on"} \in SUBSET (1 .. Len(l))
  OBVIOUS
<1> QED
  BY <1>1, <1>2, Smaller

LEMMA NewerIs ==
    ASSUME ListTypeOK
    PROVE  /\ IsFiniteSet(OnList) /\ Cardinality(OnList) \in Nat
           /\ \A i : /\ Newer(i) \subseteq OnList
                     /\ IsFiniteSet(Newer(i)) /\ Cardinality(Newer(i)) \in Nat
<1>1. IsFiniteSet(OnList)
  BY FiniteList DEF ListTypeOK, OnList
<1>2. \A i : Newer(i) \subseteq OnList
  BY DEF Newer
<1> QED
  BY <1>1, <1>2, Smaller

\* A row on the list has fewer rows before it than the list has.
LEMMA NewerIsLess ==
    ASSUME ListTypeOK, NEW i \in OnList
    PROVE  Cardinality(Newer(i)) < Cardinality(OnList)
<1>1. IsFiniteSet(OnList) /\ Newer(i) \subseteq OnList
  BY NewerIs
<1>2. i \in Nat /\ i \notin Newer(i)
  BY DEF ListTypeOK, OnList, Newer
<1>3. Newer(i) # OnList
  BY <1>2
<1> QED
  BY <1>1, <1>3, FS_Subset, FS_CardinalityType

\* Where pages begin and end.
LEMMA Pages ==
    ASSUME NEW n \in Nat \ {0}
    PROVE  /\ n * PageSize \in Nat /\ (n - 1) * PageSize \in Nat
           /\ (n + 1) - 1 = n
  BY ListBounds

LEMMA FlushRowKeeps ==
    ASSUME ListInv, FlushRow
    PROVE  ListInv'
<1>1. /\ listed' \in Seq({"pending", "on", "off"})
      /\ OnList' = OnList
  <2>1. listed \in Seq({"pending", "on", "off"}) /\ listed' = Append(listed, "pending")
    BY DEF ListInv, ListTypeOK, FlushRow
  <2> QED
    BY <2>1 DEF OnList
<1>2. \A i : Newer(i)' = Newer(i)
  BY <1>1 DEF Newer
<1> QED
  BY <1>1, <1>2 DEF ListInv, ListTypeOK, EarlierShown, TotalBounds, ListShowsAll,
                    FlushRow

LEMMA EnterKeeps ==
    ASSUME ListInv, NEW i \in DOMAIN listed, Enter(i)
    PROVE  ListInv'
<1>1. /\ listed' \in Seq({"pending", "on", "off"})
      /\ OnList' = OnList \cup {i}
  <2>1. /\ listed \in Seq({"pending", "on", "off"})
        /\ listed' = [listed EXCEPT ![i] = "on"]
    BY DEF ListInv, ListTypeOK, Enter
  <2> QED
    BY <2>1 DEF OnList
<1>2. ListTypeOK'
  BY <1>1 DEF ListInv, ListTypeOK, Enter
<1>3. EarlierShown'
  <2> SUFFICES ASSUME NEW k \in owed',
                      Cardinality(Newer(k)') < (pageNo - 1) * PageSize
               PROVE  k \in shown
    BY DEF EarlierShown, Enter
  <2>1. k \in owed
    BY DEF Enter
  <2>2. Newer(k) \subseteq Newer(k)'
    BY <1>1 DEF Newer
  <2>3. /\ Cardinality(Newer(k)) \in Nat /\ Cardinality(Newer(k)') \in Nat
        /\ Cardinality(Newer(k)) <= Cardinality(Newer(k)')
    <3>1. IsFiniteSet(OnList') /\ Newer(k)' \in SUBSET OnList'
      BY <1>2, FiniteList DEF ListTypeOK, OnList, Newer
    <3> QED
      BY <2>2, <3>1, Smaller
  <2>4. (pageNo - 1) * PageSize \in Nat
    BY Pages DEF ListInv, ListTypeOK
  <2> QED
    BY <2>1, <2>3, <2>4 DEF ListInv, EarlierShown
<1>4. TotalBounds' /\ ListShowsAll'
  BY DEF ListInv, TotalBounds, ListShowsAll, Enter
<1> QED
  BY <1>2, <1>3, <1>4 DEF ListInv

\* Rows before one that leaves stay where they are; those after it stay behind
\* the rows that it had before it.
LEMMA LeaveKeeps ==
    ASSUME ListInv, NEW i \in DOMAIN listed, Leave(i)
    PROVE  ListInv'
<1>1. /\ listed' \in Seq({"pending", "on", "off"})
      /\ OnList' = OnList \ {i}
  <2>1. /\ listed \in Seq({"pending", "on", "off"})
        /\ listed' = [listed EXCEPT ![i] = "off"]
    BY DEF ListInv, ListTypeOK, Leave
  <2> QED
    BY <2>1 DEF OnList
<1>2. owed' \subseteq owed \ {i}
  BY DEF Leave
<1>3. ListTypeOK'
  BY <1>1, <1>2 DEF ListInv, ListTypeOK, Leave
<1>4. EarlierShown'
  <2> SUFFICES ASSUME NEW k \in owed',
                      Cardinality(Newer(k)') < (pageNo - 1) * PageSize
               PROVE  k \in shown
    BY DEF EarlierShown, Leave
  <2>1. k \in owed /\ k # i /\ ~(Cardinality(Newer(i)) < (pageNo - 1) * PageSize)
    BY <1>2 DEF Leave
  <2>2. i \in Nat /\ k \in Nat
    BY <2>1 DEF ListInv, ListTypeOK, OnList
  <2>3. CASE k < i
    <3>1. Newer(i) \subseteq Newer(k)'
      BY <1>1, <2>2, <2>3 DEF Newer, ListInv, ListTypeOK, OnList
    <3>2. /\ Cardinality(Newer(i)) \in Nat /\ Cardinality(Newer(k)') \in Nat
          /\ Cardinality(Newer(i)) <= Cardinality(Newer(k)')
      <4>1. IsFiniteSet(OnList') /\ Newer(k)' \in SUBSET OnList'
        BY <1>3, FiniteList DEF ListTypeOK, OnList, Newer
      <4> QED
        BY <3>1, <4>1, Smaller
    <3>3. (pageNo - 1) * PageSize \in Nat
      BY Pages DEF ListInv, ListTypeOK
    <3> QED
      BY <2>1, <3>2, <3>3
  <2>4. CASE i < k
    <3>1. Newer(k)' = Newer(k)
      BY <1>1, <2>2, <2>4 DEF Newer
    <3> QED
      BY <2>1, <3>1 DEF ListInv, EarlierShown
  <2> QED
    BY <2>1, <2>2, <2>3, <2>4
<1>5. TotalBounds'
  <2>1. /\ Cardinality(OnList) \in Nat /\ Cardinality(OnList') \in Nat
        /\ Cardinality(OnList') <= Cardinality(OnList)
    BY <1>1, NewerIs, Smaller DEF ListInv
  <2> QED
    BY <1>2, <2>1 DEF ListInv, ListTypeOK, TotalBounds, Leave
<1>6. ListShowsAll'
  BY <1>2 DEF ListInv, ListShowsAll, Leave
<1> QED
  BY <1>3, <1>4, <1>5, <1>6 DEF ListInv

LEMMA CountRowsKeeps ==
    ASSUME ListInv, CountRows
    PROVE  ListInv'
<1>1. OnList' = OnList /\ \A i : Newer(i)' = Newer(i)
  BY DEF OnList, Newer, CountRows
<1>2. Cardinality(OnList) \in Nat
  BY NewerIs DEF ListInv
<1> QED
  BY <1>1, <1>2 DEF ListInv, ListTypeOK, EarlierShown, TotalBounds, ListShowsAll,
                    CountRows

LEMMA QueryPageKeeps ==
    ASSUME ListInv, QueryPage
    PROVE  ListInv'
<1>1. OnList' = OnList /\ \A i : Newer(i)' = Newer(i)
  BY DEF OnList, Newer, QueryPage
<1>2. ListTypeOK' /\ TotalBounds'
  BY <1>1 DEF ListInv, ListTypeOK, TotalBounds, QueryPage
\* After the query, the rows of this page have been shown as well.
<1>3. ASSUME NEW k \in owed, Cardinality(Newer(k)) < pageNo * PageSize
      PROVE  k \in shown'
  <2>1. /\ Cardinality(Newer(k)) \in Nat /\ k \in OnList
        /\ pageNo * PageSize \in Nat /\ (pageNo - 1) * PageSize \in Nat
    BY NewerIs, Pages DEF ListInv, ListTypeOK
  <2>2. CASE Cardinality(Newer(k)) < (pageNo - 1) * PageSize
    BY <2>2 DEF ListInv, EarlierShown, QueryPage
  <2>3. CASE ~(Cardinality(Newer(k)) < (pageNo - 1) * PageSize)
    <3>1. Cardinality(Newer(k)) \in (pageNo - 1) * PageSize .. pageNo * PageSize - 1
      BY <1>3, <2>1, <2>3
    <3> QED
      BY <2>1, <3>1 DEF PageRows, QueryPage
  <2> QED
    BY <2>2, <2>3
<1>4. CASE pageNo * PageSize < total
  <2>1. pageNo' - 1 = pageNo /\ at' = "count" /\ owed' = owed
    BY <1>4, Pages DEF ListInv, ListTypeOK, QueryPage
  <2>2. EarlierShown'
    BY <1>1, <1>3, <2>1 DEF EarlierShown
  <2>3. ListShowsAll'
    BY <2>1 DEF ListShowsAll
  <2> QED
    BY <1>2, <2>2, <2>3 DEF ListInv
<1>5. CASE ~(pageNo * PageSize < total)
  <2>1. pageNo' = pageNo /\ owed' = owed /\ shown \subseteq shown' /\ at = "query"
    BY <1>5 DEF QueryPage
  <2>2. EarlierShown'
    BY <1>1, <2>1 DEF ListInv, EarlierShown
  <2>3. ASSUME NEW k \in owed PROVE k \in shown'
    <3>1. /\ Cardinality(Newer(k)) < Cardinality(OnList)
          /\ Cardinality(OnList) <= total
      BY <2>1, NewerIsLess DEF ListInv, ListTypeOK, TotalBounds
    <3>2. Cardinality(Newer(k)) \in Nat /\ Cardinality(OnList) \in Nat
      BY NewerIs DEF ListInv
    <3>3. pageNo * PageSize \in Nat /\ total \in Nat
      BY Pages DEF ListInv, ListTypeOK
    <3> QED
      BY <1>3, <1>5, <3>1, <3>2, <3>3
  <2> QED
    BY <1>2, <2>1, <2>2, <2>3 DEF ListInv, ListShowsAll
<1> QED
  BY <1>4, <1>5

LEMMA ListInitially == ListInit => ListInv
<1> SUFFICES ASSUME ListInit PROVE ListInv
  OBVIOUS
<1>1. PICK n \in 0 .. MaxListed : listed \in [1 .. n -> {"on", "off"}]
  BY DEF ListInit
<1>2. listed \in Seq({"pending", "on", "off"})
  BY <1>1, ListBounds
<1>3. ListTypeOK
  BY <1>2 DEF ListInit, ListTypeOK
<1>4. (pageNo - 1) * PageSize = 0
  BY ListBounds DEF ListInit
<1>5. EarlierShown
  BY <1>3, <1>4, NewerIs DEF EarlierShown
<1> QED
  BY <1>3, <1>5 DEF ListInit, ListInv, TotalBounds, ListShowsAll

LEMMA ListInductive == ListInv /\ [ListNext]_listVars => ListInv'
<1> SUFFICES ASSUME ListInv, [ListNext]_listVars PROVE ListInv'
  OBVIOUS
<1>1. CASE ListNext
  BY <1>1, FlushRowKeeps, EnterKeeps, LeaveKeeps, CountRowsKeeps, QueryPageKeeps
     DEF ListNext
<1>2. CASE UNCHANGED listVars
  BY <1>2 DEF listVars, ListInv, ListTypeOK, EarlierShown, TotalBounds,
              ListShowsAll, OnList, Newer
<1> QED
  BY <1>1, <1>2

\* A caller who reads a list to its end misses no row that was on it all the
\* time, however rows come and go, unless one of a page that was read leaves or
\* one enters between a count and its query (list_tasks, list_notes,
\* list_processed_valuations).
THEOREM ListTheorem == ListSpec => []ListShowsAll
<1>1. ListInv => ListShowsAll
  BY DEF ListInv
<1> QED
  BY <1>1, ListInitially, ListInductive, PTL DEF ListSpec
=============================================================================
