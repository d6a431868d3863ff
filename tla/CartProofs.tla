----------------------------- MODULE CartProofs -----------------------------
(***************************************************************************)
(* Proofs about Cart, for every set of titles and prices, every discount   *)
(* and every bound.                                                        *)
(*                                                                         *)
(* The index a tap uses is the index of a ROW; that it is an index into    *)
(* the LINES follows only from RowsAreLines, and that in turn is kept by + *)
(* and - only because the lines stay aligned (LinesOK).  The inductive     *)
(* invariant is their conjunction; the refinement of Basket rests on it,   *)
(* and so does the bill: what was billed last are rows of the lines, of    *)
(* which swipes can only take away (BillCoversRows).                       *)
(*                                                                         *)
(* That a sum of prices is a number needs the function that FoldSeq takes: *)
(* its existence is proved by the size of the sets of indices.  A discount *)
(* needs a code because the alert says "valid" of served codes only, and   *)
(* the field does not change while the alert is up (PromoInv).             *)
(***************************************************************************)
EXTENDS Cart, ArrayLemmas

IInv == LinesOK /\ RowsAreLines

RowType == [itemName : Titles, itemPrice : Nat, itemNumber : Nat]

\* An index of a row is an index of a line.
LEMMA RowIsALine ==
  ASSUME IInv, NEW r \in 1..Len(cartItems)
  PROVE  /\ r \in 1..Len(cartPrice)
         /\ cartTitles[r] \in Titles /\ cartPrice[r] \in Prices
         /\ cartNumber[r] \in Nat \ {0}
<1>1. Len(cartItems) \in Nat /\ Len(cartPrice) \in Nat /\ Len(cartItems) <= Len(cartPrice)
  BY LenProperties DEF IInv, LinesOK, RowsAreLines
<1>2. r \in 1..Len(cartPrice)
  BY <1>1
<1>3. QED
  BY <1>2, ElementOfSeq DEF IInv, LinesOK

\* The rows derived afresh are the lines one by one.
LEMMA DerivedProperties ==
  ASSUME LinesOK
  PROVE  /\ Derived \in Seq(RowType)
         /\ Len(Derived) = Len(cartPrice)
         /\ \A i \in 1..Len(cartPrice) : Derived[i] = Row(i)
<1> DEFINE n == Len(cartPrice)
<1>1. n \in Nat
  BY LenProperties DEF LinesOK
<1>2. ASSUME NEW i \in 1..n
      PROVE  Row(i) \in RowType
  <2>1. cartTitles[i] \in Titles /\ cartPrice[i] \in Nat /\ cartNumber[i] \in Nat
    BY ElementOfSeq, PricesAssumption DEF LinesOK
  <2>2. cartPrice[i] * cartNumber[i] \in Nat
    BY <2>1
  <2>3. QED
    BY <2>1, <2>2 DEF Row, RowType
<1>3. Derived \in [1..n -> RowType]
  BY <1>2 DEF Derived
<1>4. Derived \in Seq(RowType) /\ Len(Derived) = n
  BY <1>1, <1>3
<1>5. QED
  BY <1>4 DEF Derived

\* Rows derived afresh are lines, each at its own place.
RowsFresh == cartItems = Derived

LEMMA FreshRowsAreLines == LinesOK /\ RowsFresh => RowsAreLines
<1> SUFFICES ASSUME LinesOK, RowsFresh PROVE RowsAreLines
  OBVIOUS
<1> DEFINE n == Len(cartPrice)
           place == [i \in 1..n |-> i]
<1>1. n \in Nat
  BY LenProperties DEF LinesOK
<1>2. /\ cartItems \in Seq(RowType) /\ Len(cartItems) = n
      /\ \A i \in 1..n : cartItems[i] = Row(i)
  BY DerivedProperties DEF RowsFresh
<1>3. place \in [1..Len(cartItems) -> 1..n] /\ \A i \in 1..n : place[i] = i
  BY <1>2
<1> HIDE DEF place
<1>4. Embeds(place)
  BY <1>1, <1>2, <1>3 DEF Embeds
<1>5. QED
  BY <1>1, <1>2, <1>3, <1>4 DEF RowsAreLines, RowType

\* The same, after a step.
LEMMA FreshRowsAreLinesNext == LinesOK' /\ RowsFresh' => RowsAreLines'
BY FreshRowsAreLines, PTL

\* The same of any rows and lines: each row shows the line at its place.
Increasing(place, n) == \A k, m \in 1..n : k < m => place[k] < place[m]
ShowsLines(items, lines, place) ==
  /\ \A r \in 1..Len(items) : items[r] = lines[place[r]]
  /\ Increasing(place, Len(items))

LEMMA EmbedsShows ==
  LinesOK => \A place \in [1..Len(cartItems) -> 1..Len(cartPrice)] :
               Embeds(place) <=> ShowsLines(cartItems, Derived, place)
BY DerivedProperties DEF Embeds, ShowsLines, Increasing

RowsShow ==
  /\ cartItems \in Seq(RowType) /\ Len(cartItems) <= Len(cartPrice)
  /\ \E place \in [1..Len(cartItems) -> 1..Len(cartPrice)] :
       ShowsLines(cartItems, Derived, place)

LEMMA RowsShowIs ==
  /\ LinesOK => (RowsAreLines <=> RowsShow)
  /\ LinesOK' => (RowsAreLines' <=> RowsShow')
<1>1. LinesOK => (RowsAreLines <=> RowsShow)
  BY EmbedsShows DEF RowsAreLines, RowsShow, RowType
<1>2. LinesOK' => (RowsAreLines' <=> RowsShow')
  BY <1>1, PTL
<1>3. QED
  BY <1>1, <1>2

-----------------------------------------------------------------------------
(***************************************************************************)
(* The inductive invariant                                                 *)
(***************************************************************************)
LEMMA IInvInit == Init => IInv
<1> SUFFICES ASSUME Init PROVE IInv
  OBVIOUS
<1>1. PICK n \in 0..MaxLines :
        /\ cartTitles \in [1..n -> Titles] /\ cartPrice \in [1..n -> Prices]
        /\ cartNumber = [i \in 1..n |-> 1]
  BY DEF Init
<1>2. n \in Nat /\ cartNumber \in [1..n -> Nat \ {0}]
  BY <1>1, BoundsAssumption
<1>3. LinesOK
  BY <1>1, <1>2 DEF LinesOK
<1>4. RowsFresh
  BY DEF Init, RowsFresh, Rederived
<1>5. QED
  BY <1>3, <1>4, FreshRowsAreLines DEF IInv

LEMMA PlusKeeps ==
  ASSUME IInv, NEW r \in 1..Len(cartItems), plusTapped(r)
  PROVE  IInv'
<1>1. r \in 1..Len(cartPrice) /\ cartNumber[r] \in Nat \ {0}
  BY RowIsALine
<1>2. cartNumber \in Seq(Nat \ {0}) /\ cartNumber[r] + 1 \in Nat \ {0}
  BY <1>1 DEF IInv, LinesOK
<1>3. cartNumber' = [cartNumber EXCEPT ![r] = cartNumber[r] + 1]
  BY DEF plusTapped
<1>4. cartNumber' \in Seq(Nat \ {0}) /\ Len(cartNumber') = Len(cartNumber)
  BY <1>1, <1>2, <1>3, ExceptSeq DEF IInv, LinesOK
<1>5. LinesOK'
  BY <1>4 DEF IInv, LinesOK, plusTapped
<1>6. RowsFresh'
  BY DEF plusTapped, reloadCart, NewRows, Rederived, RowsFresh
<1>7. QED
  BY <1>5, <1>6, FreshRowsAreLinesNext DEF IInv

LEMMA MinusKeeps ==
  ASSUME IInv, NEW r \in 1..Len(cartItems), minusTapped(r)
  PROVE  IInv'
<1>1. r \in 1..Len(cartPrice) /\ cartNumber[r] \in Nat \ {0}
  BY RowIsALine
<1>2. ASSUME cartNumber[r] > 1, StepDownOnly(r)
      PROVE  LinesOK'
  <2>1. cartNumber[r] - 1 \in Nat \ {0}
    BY <1>1, <1>2
  <2>2. cartNumber' = [cartNumber EXCEPT ![r] = cartNumber[r] - 1]
    BY <1>2 DEF StepDownOnly
  <2>3. cartNumber' \in Seq(Nat \ {0}) /\ Len(cartNumber') = Len(cartNumber)
    BY <1>1, <2>1, <2>2, ExceptSeq DEF IInv, LinesOK
  <2>4. QED
    BY <1>2, <2>3 DEF IInv, LinesOK, StepDownOnly
<1>3. ASSUME DropLine(r)
      PROVE  LinesOK'
  <2>1. cartNumber' \in Seq(Nat \ {0}) /\ Len(cartNumber') = Len(cartNumber) - 1
    BY <1>1, <1>3, RemoveAtProperties DEF IInv, LinesOK, DropLine
  <2>2. cartPrice' \in Seq(Prices) /\ Len(cartPrice') = Len(cartPrice) - 1
    BY <1>1, <1>3, RemoveAtProperties DEF IInv, LinesOK, DropLine
  <2>3. cartTitles' \in Seq(Titles) /\ Len(cartTitles') = Len(cartTitles) - 1
    BY <1>1, <1>3, RemoveAtProperties DEF IInv, LinesOK, DropLine
  <2>4. QED
    BY <2>1, <2>2, <2>3 DEF IInv, LinesOK
<1>4. LinesOK'
  BY <1>2, <1>3 DEF minusTapped, StepDown
<1>5. RowsFresh'
  BY DEF minusTapped, reloadCart, NewRows, Rederived, RowsFresh
<1>6. QED
  BY <1>4, <1>5, FreshRowsAreLinesNext DEF IInv

\* A row less: the places of the rows that are left are still in order.
LEMMA ShowsRest ==
  ASSUME NEW S, NEW items \in Seq(S), NEW r \in 1..Len(items),
         NEW lines, NEW place, ShowsLines(items, lines, place),
         NEW rest, \A i \in 1..(Len(items) - 1) :
                     rest[i] = IF i < r THEN place[i] ELSE place[i + 1]
  PROVE  ShowsLines(RemoveAt(items, r), lines, rest)
<1> DEFINE m == Len(items)
           left == RemoveAt(items, r)
<1>1. m \in Nat /\ \A i \in 1..(m - 1) : i \in 1..m /\ i + 1 \in 1..m
  BY LenProperties
<1>2. /\ Len(left) = m - 1
      /\ \A i \in 1..(m - 1) : left[i] = IF i < r THEN items[i] ELSE items[i + 1]
  BY RemoveAtProperties
<1> HIDE DEF left
<1>3. ASSUME NEW i \in 1..(m - 1) PROVE left[i] = lines[rest[i]]
  BY <1>1, <1>2 DEF ShowsLines
<1>4. ASSUME NEW i \in 1..(m - 1), NEW j \in 1..(m - 1), i < j PROVE rest[i] < rest[j]
  <2>1. i \in 1..m /\ i + 1 \in 1..m /\ j \in 1..m /\ j + 1 \in 1..m
    BY <1>1
  <2>2. \A x, y \in 1..m : x < y => place[x] < place[y]
    BY DEF ShowsLines, Increasing
  <2>3. CASE j < r
    BY <2>1, <2>2, <2>3, <1>4
  <2>4. CASE ~(j < r) /\ i < r
    <3>1. rest[i] = place[i] /\ rest[j] = place[j + 1] /\ i < j + 1
      BY <2>1, <2>4, <1>4
    <3>2. QED
      BY <2>1, <2>2, <3>1
  <2>5. CASE ~(j < r) /\ ~(i < r)
    <3>1. rest[i] = place[i + 1] /\ rest[j] = place[j + 1] /\ i + 1 < j + 1
      BY <2>1, <2>5, <1>4
    <3>2. QED
      BY <2>1, <2>2, <3>1
  <2>6. QED
    BY <2>3, <2>4, <2>5
<1>5. QED
  BY <1>2, <1>3, <1>4 DEF ShowsLines, Increasing, left

\* What is left of a map from the rows.
Rest(f, r, m) == [i \in 1..(m - 1) |-> IF i < r THEN f[i] ELSE f[i + 1]]

LEMMA RestType ==
  ASSUME NEW m \in Nat, NEW r \in 1..m, NEW S, NEW f \in [1..m -> S]
  PROVE  Rest(f, r, m) \in [1..(m - 1) -> S]
BY DEF Rest

LEMMA SwipeKeeps ==
  ASSUME IInv, NEW r \in 1..Len(cartItems), swipeDelete(r)
  PROVE  IInv'
<1> DEFINE m == Len(cartItems)
           n == Len(cartPrice)
<1>1. m \in Nat /\ n \in Nat /\ m <= n
  BY LenProperties DEF IInv, LinesOK, RowsAreLines
<1>2. PICK place \in [1..m -> 1..n] : ShowsLines(cartItems, Derived, place)
  BY EmbedsShows DEF IInv, RowsAreLines
<1>3. Rest(place, r, m) \in [1..(m - 1) -> 1..n]
  <2> HIDE DEF m, n
  <2>1. r \in 1..m
    BY DEF m
  <2>2. QED
    BY <1>1, <1>2, <2>1, RestType
<1>4. cartItems' = RemoveAt(cartItems, r) /\ cartPrice' = cartPrice /\ Derived' = Derived
  BY DEF swipeDelete, lineVars, Derived, Row
<1>5. cartItems' \in Seq(RowType) /\ Len(cartItems') = m - 1
  BY <1>4, RemoveAtProperties DEF IInv, RowsAreLines, RowType
<1>6. ShowsLines(cartItems', Derived, Rest(place, r, m))
  <2>1. \A i \in 1..(m - 1) :
          Rest(place, r, m)[i] = IF i < r THEN place[i] ELSE place[i + 1]
    BY DEF Rest
  <2>2. QED
    BY <1>2, <1>4, <2>1, ShowsRest DEF IInv, RowsAreLines
<1>7. LinesOK'
  BY DEF IInv, LinesOK, lineVars, swipeDelete
<1>8. RowsShow'
  BY <1>1, <1>3, <1>4, <1>5, <1>6 DEF RowsShow
<1>9. QED
  BY <1>7, <1>8, RowsShowIs DEF IInv

LEMMA AlertClosedKeeps == IInv /\ alertClosed => IInv'
<1> SUFFICES ASSUME IInv, alertClosed PROVE IInv'
  OBVIOUS
<1>1. LinesOK' /\ UNCHANGED lineVars
  BY DEF IInv, LinesOK, alertClosed, lineVars
<1>2. CASE UNCHANGED cartItems
  BY <1>1, <1>2 DEF IInv, RowsAreLines, Embeds, Row, lineVars
<1>3. CASE reloadCartWithDiscount
  <2>1. cartItems' = Derived
    BY <1>3 DEF reloadCartWithDiscount, Rederived
  <2>2. Derived' = Derived
    BY <1>1 DEF Derived, Row, lineVars
  <2>3. RowsFresh'
    BY <2>1, <2>2 DEF RowsFresh
  <2>4. QED
    BY <1>1, <2>3, FreshRowsAreLinesNext DEF IInv
<1>4. QED
  BY <1>2, <1>3 DEF alertClosed

LEMMA IInvStep == IInv /\ [Next]_vars => IInv'
<1> SUFFICES ASSUME IInv, [Next]_vars PROVE IInv'
  OBVIOUS
<1>1. CASE UNCHANGED <<lineVars, cartItems>>
  BY <1>1 DEF IInv, LinesOK, RowsAreLines, Embeds, Row, lineVars
<1>2. CASE UNCHANGED vars
  BY <1>1, <1>2 DEF vars
<1>3. CASE viewDidAppear \/ fetchCompleted \/ promoBtnPressed \/ continueButtonPressed
  BY <1>1, <1>3 DEF viewDidAppear, fetchCompleted, promoBtnPressed, continueButtonPressed
<1>4. CASE \E t \in Texts : typeCode(t)
  BY <1>1, <1>4 DEF typeCode
<1>5. QED
  BY <1>2, <1>3, <1>4, PlusKeeps, MinusKeeps, SwipeKeeps, AlertClosedKeeps DEF Next

\* Every row of the Cart shows a line as it is now, whatever was tapped and
\* swiped before.
THEOREM RowsCorrect == Spec => []RowsAreLines
<1>1. IInv => RowsAreLines
  BY DEF IInv
<1>2. QED
  BY <1>1, IInvInit, IInvStep, PTL DEF Spec

-----------------------------------------------------------------------------
(***************************************************************************)
(* The Cart implements Basket                                              *)
(***************************************************************************)
LEMMA BasketLinesProperties ==
  ASSUME LinesOK
  PROVE  /\ BasketLines \in Seq(TheBasket!Line)
         /\ Len(BasketLines) = Len(cartPrice)
<1>1. Len(cartPrice) \in Nat
  BY LenProperties DEF LinesOK
<1>2. BasketLines \in [1..Len(cartPrice) -> TheBasket!Line]
  BY ElementOfSeq DEF BasketLines, TheBasket!Line, LinesOK
<1>3. QED
  BY <1>1, <1>2

LEMMA BasketInit == Init => TheBasket!Init
<1> SUFFICES ASSUME Init PROVE TheBasket!Init
  OBVIOUS
<1>1. LinesOK
  BY IInvInit DEF IInv
<1>2. BasketLines \in Seq(TheBasket!Line) /\ Len(BasketLines) = Len(cartPrice)
  BY <1>1, BasketLinesProperties
<1>3. PICK n \in 0..MaxLines :
        cartPrice \in [1..n -> Prices] /\ cartNumber = [i \in 1..n |-> 1]
  BY DEF Init
<1>4. Len(cartPrice) = n
  BY <1>3, BoundsAssumption
<1>5. \A i \in DOMAIN BasketLines : BasketLines[i].number = 1
  BY <1>3, <1>4 DEF BasketLines
<1>6. QED
  BY <1>2, <1>5 DEF TheBasket!Init

LEMMA BasketPlus ==
  ASSUME IInv, NEW r \in 1..Len(cartItems), plusTapped(r)
  PROVE  TheBasket!More(r)
<1>1. r \in 1..Len(cartPrice)
  BY RowIsALine
<1>2. cartTitles' = cartTitles /\ cartPrice' = cartPrice
      /\ cartNumber' = [cartNumber EXCEPT ![r] = cartNumber[r] + 1]
  BY DEF plusTapped
<1>3. DOMAIN cartNumber = 1..Len(cartPrice)
  BY LenProperties DEF IInv, LinesOK
<1>4. QED
  BY <1>1, <1>2, <1>3 DEF TheBasket!More, BasketLines

LEMMA BasketMinus ==
  ASSUME IInv, NEW r \in 1..Len(cartItems), minusTapped(r)
  PROVE  TheBasket!Less(r)
<1>0. LinesOK
  BY DEF IInv
<1>1. r \in 1..Len(cartPrice) /\ cartNumber[r] \in Nat \ {0}
  BY RowIsALine
<1>2. DOMAIN cartNumber = 1..Len(cartPrice) /\ Len(cartPrice) \in Nat
  BY <1>0, LenProperties DEF LinesOK
<1>3. BasketLines[r].number = cartNumber[r]
  BY <1>1 DEF BasketLines
<1>4. ASSUME cartNumber[r] > 1, StepDownOnly(r)
      PROVE  TheBasket!Less(r)
  <2>1. cartTitles' = cartTitles /\ cartPrice' = cartPrice
        /\ cartNumber' = [cartNumber EXCEPT ![r] = cartNumber[r] - 1]
    BY <1>4 DEF StepDownOnly
  <2>2. BasketLines' = [BasketLines EXCEPT ![r].number = @ - 1]
    BY <1>1, <1>2, <2>1 DEF BasketLines
  <2>3. BasketLines[r].number # 1
    BY <1>1, <1>3, <1>4
  <2>4. QED
    BY <2>2, <2>3 DEF TheBasket!Less
<1>5. ASSUME cartNumber[r] = 1, DropLine(r)
      PROVE  TheBasket!Less(r)
  <2> DEFINE n == Len(cartPrice)
             left == RemoveAt(BasketLines, r)
  <2>1. /\ Len(cartNumber') = n - 1
        /\ \A i \in 1..(n - 1) :
             cartNumber'[i] = IF i < r THEN cartNumber[i] ELSE cartNumber[i + 1]
    <3>1. /\ cartNumber \in Seq(Nat \ {0}) /\ Len(cartNumber) = n
          /\ cartNumber' = RemoveAt(cartNumber, r)
      BY <1>0, <1>5 DEF LinesOK, DropLine
    <3>2. /\ Len(cartNumber') = Len(cartNumber) - 1
          /\ \A i \in 1..(Len(cartNumber) - 1) :
               cartNumber'[i] = IF i < r THEN cartNumber[i] ELSE cartNumber[i + 1]
      BY <1>1, <3>1, RemoveAtProperties
    <3>3. QED
      BY <3>1, <3>2
  <2>2. /\ Len(cartPrice') = n - 1
        /\ \A i \in 1..(n - 1) :
             cartPrice'[i] = IF i < r THEN cartPrice[i] ELSE cartPrice[i + 1]
    BY <1>0, <1>1, <1>5, RemoveAtProperties DEF LinesOK, DropLine
  <2>3. \A i \in 1..(n - 1) :
             cartTitles'[i] = IF i < r THEN cartTitles[i] ELSE cartTitles[i + 1]
    BY <1>0, <1>1, <1>5, RemoveAtProperties DEF LinesOK, DropLine
  <2>4. /\ left \in Seq(TheBasket!Line) /\ Len(left) = n - 1
        /\ \A i \in 1..(n - 1) :
             left[i] = IF i < r THEN BasketLines[i] ELSE BasketLines[i + 1]
    BY <1>0, <1>1, BasketLinesProperties, RemoveAtProperties
  <2> HIDE DEF left
  <2>5. ASSUME NEW i \in 1..(n - 1)
        PROVE  left[i] = [title |-> cartTitles'[i], price |-> cartPrice'[i],
                          number |-> cartNumber'[i]]
    <3>1. i \in 1..n /\ i + 1 \in 1..n
      BY <1>2
    <3>2. CASE i < r
      BY <3>1, <3>2, <2>1, <2>2, <2>3, <2>4 DEF BasketLines
    <3>3. CASE ~(i < r)
      BY <3>1, <3>3, <2>1, <2>2, <2>3, <2>4 DEF BasketLines
    <3>4. QED
      BY <3>2, <3>3
  <2>6. left = [i \in 1..(n - 1) |-> left[i]]
    BY <1>2, <2>4, LenProperties
  <2>7. BasketLines' = left
    BY <2>2, <2>5, <2>6 DEF BasketLines
  <2>8. QED
    BY <1>3, <1>5, <2>7 DEF TheBasket!Less, TheBasket!RemoveAt, RemoveAt, left
<1>6. QED
  BY <1>4, <1>5 DEF minusTapped, StepDown

LEMMA BasketStep == IInv /\ [Next]_vars => [TheBasket!Next]_BasketLines
<1> SUFFICES ASSUME IInv, [Next]_vars PROVE [TheBasket!Next]_BasketLines
  OBVIOUS
<1>1. UNCHANGED lineVars => UNCHANGED BasketLines
  BY DEF BasketLines, lineVars
<1>2. ASSUME NEW r \in 1..Len(cartItems), plusTapped(r) \/ minusTapped(r)
      PROVE  TheBasket!Next
  <2>1. r \in 1..Len(BasketLines)
    BY RowIsALine, BasketLinesProperties DEF IInv
  <2>2. QED
    BY <1>2, <2>1, BasketPlus, BasketMinus DEF TheBasket!Next
<1>3. CASE UNCHANGED vars
  BY <1>1, <1>3 DEF vars
<1>4. CASE \/ viewDidAppear \/ fetchCompleted \/ promoBtnPressed \/ alertClosed
           \/ continueButtonPressed
  BY <1>1, <1>4 DEF viewDidAppear, fetchCompleted, promoBtnPressed, alertClosed,
                    continueButtonPressed
<1>5. CASE \E t \in Texts : typeCode(t)
  BY <1>1, <1>5 DEF typeCode
<1>6. CASE \E r \in 1..Len(cartItems) : swipeDelete(r)
  BY <1>1, <1>6 DEF swipeDelete
<1>7. QED
  BY <1>2, <1>3, <1>4, <1>5, <1>6 DEF Next

\* The Cart keeps the promise of Basket: nothing but + and - touches a line,
\* each by one item, and a line leaves at zero and not before.
THEOREM CartImplementsBasket == Spec => ImplementsBasket
<1>1. Spec => TheBasket!Init /\ [][TheBasket!Next]_BasketLines
  BY IInvInit, IInvStep, BasketInit, BasketStep, PTL DEF Spec
<1>2. QED
  BY <1>1 DEF ImplementsBasket, TheBasket!Spec
-----------------------------------------------------------------------------
(***************************************************************************)
(* The bill covers the rows                                                *)
(***************************************************************************)
BillFor(items, discount) == <<Sum(items), Tax(items), Due(items, discount)>>
Covers(lines, items, bill, discount) ==
  \E n \in 0..Len(lines) : \E place \in [1..n -> 1..Len(lines)] :
    /\ Increasing(place, n)
    /\ bill = BillFor([k \in 1..n |-> lines[place[k]]], discount)
    /\ \E at \in [1..Len(items) -> 1..n] :
         ShowsLines(items, lines, [r \in 1..Len(items) |-> place[at[r]]])

TheBill == <<itemsTotal, taxAmt, finalAmt>>
BillCovers == Covers(Derived, cartItems, TheBill, totalDiscount)

LEMMA BillIs == \A items : BillOf(items) <=> TheBill = BillFor(items, totalDiscount)
BY DEF BillOf, TheBill, BillFor

\* A selection of the lines, as the property and as BillCovers have it.
LEMMA SelectionIs ==
  ASSUME LinesOK, NEW n \in 0..Len(cartPrice), NEW place \in [1..n -> 1..Len(cartPrice)]
  PROVE  /\ place \in Selections(n) <=> Increasing(place, n)
         /\ [k \in 1..n |-> Row(place[k])] = [k \in 1..n |-> Derived[place[k]]]
         /\ \A at \in [1..Len(cartItems) -> 1..n] :
              Embeds([r \in 1..Len(cartItems) |-> place[at[r]]])
                <=> ShowsLines(cartItems, Derived, [r \in 1..Len(cartItems) |-> place[at[r]]])
<1>1. place \in Selections(n) <=> Increasing(place, n)
  BY DEF Selections, Increasing
<1>2. \A k \in 1..n : Row(place[k]) = Derived[place[k]]
  BY DerivedProperties
<1>3. ASSUME NEW at \in [1..Len(cartItems) -> 1..n]
      PROVE  Embeds([r \in 1..Len(cartItems) |-> place[at[r]]])
               <=> ShowsLines(cartItems, Derived, [r \in 1..Len(cartItems) |-> place[at[r]]])
  <2> DEFINE shown == [r \in 1..Len(cartItems) |-> place[at[r]]]
  <2>1. shown \in [1..Len(cartItems) -> 1..Len(cartPrice)]
    OBVIOUS
  <2> HIDE DEF shown
  <2>2. Embeds(shown) <=> ShowsLines(cartItems, Derived, shown)
    BY <2>1, EmbedsShows
  <2>3. QED
    BY <2>2 DEF shown
<1>4. QED
  BY <1>1, <1>2, <1>3

LEMMA BillCoversIs ==
  /\ LinesOK => (BillCoversRows <=> BillCovers)
  /\ LinesOK' => (BillCoversRows' <=> BillCovers')
<1>1. LinesOK /\ BillCoversRows => BillCovers
  <2> SUFFICES ASSUME LinesOK, BillCoversRows PROVE BillCovers
    OBVIOUS
  <2>1. PICK n \in 0..Len(cartPrice) : \E place \in Selections(n) :
          /\ BillOf([k \in 1..n |-> Row(place[k])])
          /\ \E at \in [1..Len(cartItems) -> 1..n] :
               Embeds([r \in 1..Len(cartItems) |-> place[at[r]]])
    BY DEF BillCoversRows
  <2>2. PICK place \in Selections(n) :
          /\ BillOf([k \in 1..n |-> Row(place[k])])
          /\ \E at \in [1..Len(cartItems) -> 1..n] :
               Embeds([r \in 1..Len(cartItems) |-> place[at[r]]])
    BY <2>1
  <2>3. place \in [1..n -> 1..Len(cartPrice)]
    BY DEF Selections
  <2>4. /\ Increasing(place, n)
        /\ TheBill = BillFor([k \in 1..n |-> Derived[place[k]]], totalDiscount)
        /\ \E at \in [1..Len(cartItems) -> 1..n] :
             ShowsLines(cartItems, Derived, [r \in 1..Len(cartItems) |-> place[at[r]]])
    BY <2>2, <2>3, SelectionIs, BillIs
  <2>5. Len(Derived) = Len(cartPrice)
    BY DerivedProperties
  <2>6. QED
    BY <2>3, <2>4, <2>5 DEF BillCovers, Covers
<1>2. LinesOK /\ BillCovers => BillCoversRows
  <2> SUFFICES ASSUME LinesOK, BillCovers PROVE BillCoversRows
    OBVIOUS
  <2>1. Len(Derived) = Len(cartPrice)
    BY DerivedProperties
  <2>2. PICK n \in 0..Len(cartPrice) : \E place \in [1..n -> 1..Len(cartPrice)] :
          /\ Increasing(place, n)
          /\ TheBill = BillFor([k \in 1..n |-> Derived[place[k]]], totalDiscount)
          /\ \E at \in [1..Len(cartItems) -> 1..n] :
               ShowsLines(cartItems, Derived, [r \in 1..Len(cartItems) |-> place[at[r]]])
    BY <2>1 DEF BillCovers, Covers
  <2>3. PICK place \in [1..n -> 1..Len(cartPrice)] :
          /\ Increasing(place, n)
          /\ TheBill = BillFor([k \in 1..n |-> Derived[place[k]]], totalDiscount)
          /\ \E at \in [1..Len(cartItems) -> 1..n] :
               ShowsLines(cartItems, Derived, [r \in 1..Len(cartItems) |-> place[at[r]]])
    BY <2>2
  <2>4. /\ place \in Selections(n) /\ BillOf([k \in 1..n |-> Row(place[k])])
        /\ \E at \in [1..Len(cartItems) -> 1..n] :
             Embeds([r \in 1..Len(cartItems) |-> place[at[r]]])
    BY <2>3, SelectionIs, BillIs
  <2>5. QED
    BY <2>4 DEF BillCoversRows
<1>3. LinesOK => (BillCoversRows <=> BillCovers)
  BY <1>1, <1>2
<1>4. LinesOK' => (BillCoversRows' <=> BillCovers')
  BY <1>3, PTL
<1>5. QED
  BY <1>3, <1>4

\* A bill of the rows is one of the lines they show.
RowsBilled == IInv /\ BillOf(cartItems)

LEMMA RowsBillCovers == RowsBilled => BillCoversRows
<1> SUFFICES ASSUME IInv, BillOf(cartItems) PROVE BillCovers
  BY BillCoversIs DEF RowsBilled, IInv
<1> DEFINE m == Len(cartItems)
           at == [r \in 1..m |-> r]
<1>1. m \in Nat /\ Len(cartPrice) \in Nat /\ m <= Len(cartPrice) /\ Len(Derived) = Len(cartPrice)
  BY LenProperties, DerivedProperties DEF IInv, LinesOK, RowsAreLines
<1>2. cartItems \in [1..m -> RowType]
  BY LenProperties DEF IInv, RowsAreLines, RowType
<1>3. PICK place \in [1..m -> 1..Len(cartPrice)] : ShowsLines(cartItems, Derived, place)
  BY EmbedsShows DEF IInv, RowsAreLines
<1>4. Increasing(place, m) /\ [k \in 1..m |-> Derived[place[k]]] = cartItems
  BY <1>2, <1>3 DEF ShowsLines
<1>5. at \in [1..m -> 1..m] /\ [r \in 1..m |-> place[at[r]]] = place
  BY <1>3
<1>6. TheBill = BillFor([k \in 1..m |-> Derived[place[k]]], totalDiscount)
  BY <1>4, BillIs
<1> HIDE DEF at
<1>7. \E f \in [1..m -> 1..m] : ShowsLines(cartItems, Derived, [r \in 1..m |-> place[f[r]]])
  BY <1>3, <1>5
<1>8. m \in 0..Len(Derived)
  BY <1>1
<1>9. QED
  BY <1>1, <1>3, <1>4, <1>6, <1>7, <1>8 DEF BillCovers, Covers

LEMMA RowsBillCoversNext == RowsBilled' => BillCoversRows'
BY RowsBillCovers, PTL

\* A row less, and still no row that the bill leaves out.
LEMMA CoversRest ==
  ASSUME NEW S, NEW items \in Seq(S), NEW r \in 1..Len(items),
         NEW lines, NEW bill, NEW discount, Covers(lines, items, bill, discount)
  PROVE  Covers(lines, RemoveAt(items, r), bill, discount)
<1> DEFINE m == Len(items)
           left == RemoveAt(items, r)
<1>1. m \in Nat /\ r \in 1..m /\ Len(left) = m - 1
  BY LenProperties, RemoveAtProperties
<1>2. PICK n \in 0..Len(lines) : \E place \in [1..n -> 1..Len(lines)] :
        /\ Increasing(place, n)
        /\ bill = BillFor([k \in 1..n |-> lines[place[k]]], discount)
        /\ \E at \in [1..m -> 1..n] : ShowsLines(items, lines, [q \in 1..m |-> place[at[q]]])
  BY DEF Covers
<1>3. PICK place \in [1..n -> 1..Len(lines)] :
        /\ Increasing(place, n)
        /\ bill = BillFor([k \in 1..n |-> lines[place[k]]], discount)
        /\ \E at \in [1..m -> 1..n] : ShowsLines(items, lines, [q \in 1..m |-> place[at[q]]])
  BY <1>2
<1>4. PICK at \in [1..m -> 1..n] : ShowsLines(items, lines, [q \in 1..m |-> place[at[q]]])
  BY <1>3
<1> DEFINE before == [q \in 1..m |-> place[at[q]]]
           rest == Rest(at, r, m)
           after == [q \in 1..(m - 1) |-> place[rest[q]]]
<1>5. rest \in [1..(m - 1) -> 1..n]
  <2> HIDE DEF m
  <2>1. QED
    BY <1>1, <1>4, RestType
<1>6. \A i \in 1..(m - 1) : after[i] = IF i < r THEN before[i] ELSE before[i + 1]
  <2>1. \A i \in 1..(m - 1) : i \in 1..m /\ i + 1 \in 1..m
    BY <1>1
  <2>2. \A i \in 1..(m - 1) : rest[i] = IF i < r THEN at[i] ELSE at[i + 1]
    BY DEF Rest
  <2> HIDE DEF rest
  <2>3. QED
    BY <2>1, <2>2
<1>7. ShowsLines(items, lines, before)
  BY <1>4
<1> HIDE DEF before, after, rest
<1>8. ShowsLines(left, lines, after)
  BY <1>6, <1>7, ShowsRest
<1> HIDE DEF left, m
<1>9. \E f \in [1..Len(left) -> 1..n] : ShowsLines(left, lines, [q \in 1..Len(left) |-> place[f[q]]])
  BY <1>1, <1>5, <1>8 DEF after
<1>10. Covers(lines, left, bill, discount)
  BY <1>3, <1>9 DEF Covers
<1>11. QED
  BY <1>10 DEF left

LEMMA SwipeCovers ==
  ASSUME IInv, IInv', BillCoversRows, NEW r \in 1..Len(cartItems), swipeDelete(r)
  PROVE  BillCoversRows'
<1>1. /\ cartItems' = RemoveAt(cartItems, r) /\ Derived' = Derived
      /\ TheBill' = TheBill /\ totalDiscount' = totalDiscount
  BY DEF swipeDelete, lineVars, billVars, TheBill, Derived, Row
<1>2. cartItems \in Seq(RowType) /\ Covers(Derived, cartItems, TheBill, totalDiscount)
  BY BillCoversIs DEF IInv, RowsAreLines, RowType, BillCovers
<1>3. Covers(Derived, RemoveAt(cartItems, r), TheBill, totalDiscount)
  BY <1>2, CoversRest
<1>4. BillCovers'
  BY <1>1, <1>3 DEF BillCovers
<1>5. QED
  BY <1>4, BillCoversIs DEF IInv

\* The steps that make out the bill afresh make it out for the rows.
BillAfresh == \E discount : totalDiscount' = discount /\ SetBill(cartItems', discount)

LEMMA AfreshCovers == IInv' /\ BillAfresh => BillCoversRows'
<1>1. BillAfresh => BillOf(cartItems)'
  BY DEF BillAfresh, SetBill, BillOf
<1>2. QED
  BY <1>1, RowsBillCoversNext DEF RowsBilled

LEMMA BillStep == IInv /\ IInv' /\ BillCoversRows /\ [Next]_vars => BillCoversRows'
<1> SUFFICES ASSUME IInv, IInv', BillCoversRows, [Next]_vars PROVE BillCoversRows'
  OBVIOUS
<1>1. CASE UNCHANGED <<lineVars, cartItems, totalDiscount, billVars>>
  <2>1. UNCHANGED <<Derived, cartItems, TheBill, totalDiscount>>
    BY <1>1 DEF Derived, Row, TheBill, lineVars, billVars
  <2>2. BillCovers'
    BY <2>1, BillCoversIs DEF IInv, BillCovers
  <2>3. QED
    BY <2>2, BillCoversIs DEF IInv
<1>2. CASE viewDidAppear
  <2>1. BillAfresh
    BY <1>2 DEF viewDidAppear, totalAmount, BillAfresh
  <2>2. QED
    BY <2>1, AfreshCovers
<1>3. ASSUME NEW r \in 1..Len(cartItems), plusTapped(r) \/ minusTapped(r) PROVE BillCoversRows'
  <2>1. reloadCart
    BY <1>3 DEF plusTapped, minusTapped
  <2>2. BillAfresh
    BY <2>1 DEF reloadCart, totalAmount, BillAfresh
  <2>3. QED
    BY <2>2, AfreshCovers
<1>4. CASE alertClosed
  <2>1. CASE alert = "valid" /\ reloadCartWithDiscount
    <3>1. BillAfresh
      BY <2>1 DEF reloadCartWithDiscount, totalAmountWithDiscount, BillAfresh
    <3>2. QED
      BY <3>1, AfreshCovers
  <2>2. CASE UNCHANGED <<cartItems, totalDiscount, billVars>>
    BY <1>1, <1>4, <2>2 DEF alertClosed
  <2>3. QED
    BY <1>4, <2>1, <2>2 DEF alertClosed
<1>5. CASE fetchCompleted \/ promoBtnPressed \/ continueButtonPressed
  BY <1>1, <1>5 DEF fetchCompleted, promoBtnPressed, continueButtonPressed
<1>6. CASE \E t \in Texts : typeCode(t)
  BY <1>1, <1>6 DEF typeCode
<1>7. CASE UNCHANGED vars
  BY <1>1, <1>7 DEF vars
<1>8. QED
  BY <1>2, <1>3, <1>4, <1>5, <1>6, <1>7, SwipeCovers DEF Next

\* The labels of the bill say what a selection of the lines as they are now
\* costs, with the discount that was accepted last, and no row on the screen is
\* missing from it: + and - make it out again for every line, a swipe leaves it
\* as it was, and viewDidAppear makes it out for the rows that are left.
THEOREM BillCorrect == Spec => []BillCoversRows
<1>1. Init => IInv /\ BillCoversRows
  <2>1. Init => BillOf(cartItems)
    BY DEF Init, BillOf
  <2>2. QED
    BY <2>1, IInvInit, RowsBillCovers DEF RowsBilled
<1>2. IInv /\ BillCoversRows /\ [Next]_vars => (IInv /\ BillCoversRows)'
  BY IInvStep, BillStep
<1>3. QED
  BY <1>1, <1>2, PTL DEF Spec
-----------------------------------------------------------------------------
(***************************************************************************)
(* What the rows cost                                                      *)
(*                                                                         *)
(* FoldSeq folds over the set of the indices: it takes a function of the   *)
(* subsets of that set which satisfies the recursion (Recursion below).    *)
(* There is one, level by level of the subsets' sizes, and it has natural  *)
(* numbers for values.                                                     *)
(***************************************************************************)
Choice(s) == CHOOSE x \in s : TRUE
Added(items, f, s) == IF s = {} THEN 0 ELSE f[s \ {Choice(s)}] + items[Choice(s)].itemPrice
Recursion(items, f) == f = [s \in SUBSET DOMAIN items |-> Added(items, f, s)]

LEMMA SumIsRecursive == \A items : Sum(items) = (CHOOSE f : Recursion(items, f))[DOMAIN items]
BY Zenon DEF Sum, FoldSeq, FoldFunction, FoldFunctionOnSet, MapThenFoldSet, Recursion, Added, Choice

\* The subsets of up to that many elements, and the recursion on them.
Level(D, n) == {s \in SUBSET D : Cardinality(s) <= n}
UpTo(items, n, f) == f = [s \in Level(DOMAIN items, n) |-> Added(items, f, s)]

LEMMA ChoiceGone ==
  ASSUME NEW s, IsFiniteSet(s), s # {}
  PROVE  /\ s \ {Choice(s)} \subseteq s /\ IsFiniteSet(s \ {Choice(s)})
         /\ Cardinality(s) \in Nat /\ Cardinality(s \ {Choice(s)}) \in Nat
         /\ Cardinality(s \ {Choice(s)}) = Cardinality(s) - 1
         /\ Choice(s) \in s
<1>1. Choice(s) \in s
  BY DEF Choice
<1>2. QED
  BY <1>1, FS_RemoveElement, FS_CardinalityType, FS_Subset

LEMMA NextLevel ==
  ASSUME NEW items, IsFiniteSet(DOMAIN items), NEW n \in Nat, NEW f, UpTo(items, n, f)
  PROVE  \E g : UpTo(items, n + 1, g)
<1> DEFINE D == DOMAIN items
           g == [s \in Level(D, n + 1) |-> Added(items, f, s)]
<1>1. ASSUME NEW s \in Level(D, n + 1) PROVE Added(items, f, s) = Added(items, g, s)
  <2>1. CASE s = {}
    BY <2>1 DEF Added
  <2>2. CASE s # {}
    <3> DEFINE t == s \ {Choice(s)}
    <3>1. IsFiniteSet(s) /\ s \subseteq D
      BY FS_Subset DEF Level
    <3>2. t \subseteq D /\ Cardinality(t) = Cardinality(s) - 1 /\ Cardinality(s) \in Nat
      BY <2>2, <3>1, ChoiceGone
    <3>3. t \in Level(D, n) /\ t \in Level(D, n + 1)
      BY <3>2 DEF Level
    <3> HIDE DEF t
    <3>4. f[t] = Added(items, f, t) /\ g[t] = Added(items, f, t)
      BY <3>3 DEF UpTo
    <3> HIDE DEF g
    <3>5. Added(items, f, s) = f[t] + items[Choice(s)].itemPrice
          /\ Added(items, g, s) = g[t] + items[Choice(s)].itemPrice
      BY <2>2 DEF Added, t
    <3>6. QED
      BY <3>4, <3>5
  <2>3. QED
    BY <2>1, <2>2
<1>2. g = [s \in Level(D, n + 1) |-> Added(items, g, s)]
  BY <1>1
<1> HIDE DEF g
<1>3. QED
  BY <1>2 DEF UpTo

LEMMA EveryLevel ==
  ASSUME NEW items, IsFiniteSet(DOMAIN items)
  PROVE  \A n \in Nat : \E f : UpTo(items, n, f)
<1> DEFINE D == DOMAIN items
           Bad == {n \in Nat : ~\E f : UpTo(items, n, f)}
<1>1. SUFFICES ASSUME Bad # {} PROVE FALSE
  OBVIOUS
<1>2. Min(Bad) \in Bad /\ \A n \in Bad : Min(Bad) <= n
  BY <1>1, MinProperty
<1>3. PICK n \in Bad : \A k \in Bad : n <= k
  BY <1>2
<1>4. CASE n = 0
  <2> DEFINE f == [s \in Level(D, 0) |-> 0]
  <2>1. ASSUME NEW s \in Level(D, 0) PROVE s = {}
    <3>1. IsFiniteSet(s) /\ Cardinality(s) <= 0
      BY FS_Subset DEF Level
    <3>2. Cardinality(s) = 0
      BY <3>1, FS_CardinalityType
    <3>3. QED
      BY <3>1, <3>2, FS_EmptySet
  <2>2. f = [s \in Level(D, 0) |-> Added(items, f, s)]
    BY <2>1 DEF Added
  <2> HIDE DEF f
  <2>3. QED
    BY <1>4, <2>2 DEF UpTo
<1>5. CASE n # 0
  <2>1. n - 1 \in Nat /\ ~(n <= n - 1)
    BY <1>5
  <2>2. \E f : UpTo(items, n - 1, f)
    BY <1>3, <2>1
  <2>3. \E f : UpTo(items, (n - 1) + 1, f)
    BY <2>1, <2>2, NextLevel
  <2>4. (n - 1) + 1 = n
    OBVIOUS
  <2>5. \E f : UpTo(items, n, f)
    BY <2>3, <2>4
  <2>6. QED
    BY <2>5
<1>6. QED
  BY <1>4, <1>5

LEMMA RecursionHolds ==
  ASSUME NEW items, IsFiniteSet(DOMAIN items)
  PROVE  Recursion(items, CHOOSE f : Recursion(items, f))
<1> DEFINE n == Cardinality(DOMAIN items)
<1>1. n \in Nat
  BY FS_CardinalityType
<1>2. Level(DOMAIN items, n) = SUBSET DOMAIN items
  BY FS_Subset DEF Level
<1>3. PICK f : UpTo(items, n, f)
  BY <1>1, EveryLevel
<1>4. Recursion(items, f)
  BY <1>2, <1>3 DEF UpTo, Recursion
<1>5. QED
  BY <1>4

\* Rows that cost natural numbers cost one together.
LEMMA SumType ==
  ASSUME NEW items \in Seq(RowType)
  PROVE  Sum(items) \in Nat
<1> DEFINE D == DOMAIN items
           f == CHOOSE g : Recursion(items, g)
<1>1. Len(items) \in Nat /\ D = 1..Len(items) /\ \A i \in D : items[i].itemPrice \in Nat
  <2>1. Len(items) \in Nat /\ D = 1..Len(items)
    BY LenProperties
  <2>2. \A i \in D : items[i] \in RowType
    BY <2>1, ElementOfSeq
  <2>3. QED
    BY <2>1, <2>2 DEF RowType
<1>2. IsFiniteSet(D)
  BY <1>1, FS_Interval
<1>3. Recursion(items, f)
  BY <1>2, RecursionHolds
<1> HIDE DEF f
<1> DEFINE Bad == {n \in Nat : \E s \in SUBSET D : Cardinality(s) = n /\ f[s] \notin Nat}
<1>4. ASSUME NEW n \in Bad, \A k \in Bad : n <= k PROVE FALSE
  <2>1. PICK s \in SUBSET D : Cardinality(s) = n /\ f[s] \notin Nat
    OBVIOUS
  <2>2. f[s] = Added(items, f, s)
    BY <1>3 DEF Recursion
  <2>3. s # {}
    BY <2>1, <2>2 DEF Added
  <2> DEFINE t == s \ {Choice(s)}
  <2>4. t \in SUBSET D /\ Cardinality(t) \in Nat /\ Cardinality(t) = n - 1 /\ Choice(s) \in D
    BY <1>2, <2>1, <2>3, ChoiceGone, FS_Subset
  <2>5. f[t] \notin Nat
    BY <1>1, <2>1, <2>2, <2>3, <2>4 DEF Added
  <2>6. Cardinality(t) \in Bad
    BY <2>4, <2>5
  <2> HIDE DEF t, Bad
  <2>7. n \in Nat /\ n <= n - 1
    BY <1>4, <2>4, <2>6 DEF Bad
  <2>8. QED
    BY <2>7
<1>5. Bad = {}
  <2>1. Bad # {} => Min(Bad) \in Bad /\ \A k \in Bad : Min(Bad) <= k
    BY MinProperty
  <2> HIDE DEF Bad
  <2>2. QED
    BY <1>4, <2>1
<1>6. f[D] \in Nat
  <2>1. Cardinality(D) \in Nat
    BY <1>2, FS_CardinalityType
  <2>2. QED
    BY <1>5, <2>1
<1>7. QED
  BY <1>6, SumIsRecursive DEF f
-----------------------------------------------------------------------------
(***************************************************************************)
(* Promo codes, and the types                                              *)
(***************************************************************************)
\* The alert that comes first is the one that stays.
LEMMA FirstAlert ==
  \A t, none, codes :
    Head((IF t = none THEN <<"blank">> ELSE <<>>)
           \o (IF t \in codes THEN <<"valid">> ELSE <<"invalid">>))
      = IF t = none THEN "blank" ELSE IF t \in codes THEN "valid" ELSE "invalid"
<1> SUFFICES ASSUME NEW t, NEW none, NEW codes
             PROVE  Head((IF t = none THEN <<"blank">> ELSE <<>>)
                           \o (IF t \in codes THEN <<"valid">> ELSE <<"invalid">>))
                      = IF t = none THEN "blank" ELSE IF t \in codes THEN "valid" ELSE "invalid"
  OBVIOUS
<1>1. CASE t = none
  BY <1>1
<1>2. CASE t # none
  BY <1>2
<1>3. QED
  BY <1>1, <1>2

LEMMA Verdict ==
  promoBtnPressed =>
    alert' = IF promoCodeTextField = "" THEN "blank"
             ELSE IF promoCodeTextField \in promoCodes THEN "valid" ELSE "invalid"
BY FirstAlert, Zenon DEF promoBtnPressed, PresentFirst, validatePromoCode

\* The field holds a code that was served, if the alert says so.
GoodCode == promoCodeTextField # "" /\ promoCodeTextField \in Codes
PromoTyped ==
  /\ promoCodes \in {{""}, Codes} /\ promoCodeTextField \in Texts \cup {""}
  /\ alert \in {"none", "blank", "invalid", "valid"}
PromoInv == PromoTyped /\ (alert = "valid" => GoodCode)

LEMMA PromoInit == Init => PromoInv
<1>1. Init => promoCodes = {""} /\ promoCodeTextField = "" /\ alert = "none"
  BY Zenon DEF Init
<1>2. "none" # "valid"
  OBVIOUS
<1>3. QED
  BY <1>1, <1>2, Zenon DEF PromoInv, PromoTyped

LEMMA PressedPromo == PromoInv /\ promoBtnPressed => PromoInv'
<1> SUFFICES ASSUME PromoInv, promoBtnPressed PROVE PromoInv'
  OBVIOUS
<1>1. promoCodes' = promoCodes /\ promoCodeTextField' = promoCodeTextField
  BY Zenon DEF promoBtnPressed
<1>2. "blank" # "valid" /\ "invalid" # "valid"
  OBVIOUS
<1>3. CASE promoCodeTextField = ""
  <2>1. alert' = "blank"
    BY <1>3, Verdict, Zenon
  <2>2. QED
    BY <1>1, <1>2, <2>1, Zenon DEF PromoInv, PromoTyped
<1>4. CASE promoCodeTextField # "" /\ promoCodeTextField \in promoCodes
  <2>1. alert' = "valid"
    BY <1>4, Verdict, Zenon
  <2>2. promoCodeTextField \in Codes
    BY <1>4, Zenon DEF PromoInv, PromoTyped
  <2>3. QED
    BY <1>1, <1>4, <2>1, <2>2, Zenon DEF PromoInv, PromoTyped, GoodCode
<1>5. CASE promoCodeTextField # "" /\ promoCodeTextField \notin promoCodes
  <2>1. alert' = "invalid"
    BY <1>5, Verdict, Zenon
  <2>2. QED
    BY <1>1, <1>2, <2>1, Zenon DEF PromoInv, PromoTyped
<1>6. QED
  BY <1>3, <1>4, <1>5

LEMMA PromoStep == PromoInv /\ [Next]_vars => PromoInv'
<1> SUFFICES ASSUME PromoInv, [Next]_vars PROVE PromoInv'
  OBVIOUS
<1>1. CASE UNCHANGED promoVars
  BY <1>1, Zenon DEF PromoInv, PromoTyped, GoodCode, promoVars
<1>2. CASE UNCHANGED vars
  BY <1>1, <1>2 DEF vars
<1>3. CASE viewDidAppear \/ continueButtonPressed
  BY <1>1, <1>3, Zenon DEF viewDidAppear, continueButtonPressed
<1>4. ASSUME NEW r \in 1..Len(cartItems), plusTapped(r) \/ minusTapped(r) \/ swipeDelete(r)
      PROVE  PromoInv'
  BY <1>1, <1>4 DEF plusTapped, minusTapped, swipeDelete
<1>5. CASE fetchCompleted
  BY <1>5, Zenon DEF fetchCompleted, PromoInv, PromoTyped, GoodCode
<1>6. ASSUME NEW t \in Texts, typeCode(t) PROVE PromoInv'
  <2>1. alert = "none" /\ alert' = alert /\ promoCodeTextField' = t /\ promoCodes' = promoCodes
    BY <1>6, Zenon DEF typeCode, UserAtCart
  <2>2. "none" # "valid"
    OBVIOUS
  <2>3. QED
    BY <2>1, <2>2, Zenon DEF PromoInv, PromoTyped
<1>7. CASE alertClosed
  <2>1. alert' = "none" /\ promoCodes' = promoCodes /\ promoCodeTextField' = promoCodeTextField
    BY <1>7, Zenon DEF alertClosed
  <2>2. "none" # "valid"
    OBVIOUS
  <2>3. QED
    BY <2>1, <2>2, Zenon DEF PromoInv, PromoTyped
<1>8. QED
  BY <1>2, <1>3, <1>4, <1>5, <1>6, <1>7, PressedPromo, Zenon DEF Next

\* A discount is granted only for a code that Remote Config has served, and
\* never for an empty field: validatePromoCode says yes to it until the answer
\* comes, but the alert that complains of it was presented first.
THEOREM DiscountCorrect == Spec => DiscountNeedsCode
<1>1. PromoInv /\ [Next]_vars =>
        [totalDiscount' # totalDiscount => promoCodeTextField # "" /\ promoCodeTextField \in Codes]_vars
  <2> SUFFICES ASSUME PromoInv, [Next]_vars, totalDiscount' # totalDiscount PROVE GoodCode
    BY Zenon DEF GoodCode
  <2>1. CASE viewDidAppear \/ continueButtonPressed \/ fetchCompleted \/ promoBtnPressed
    BY <2>1, Zenon DEF viewDidAppear, totalAmount, continueButtonPressed, fetchCompleted,
                       promoBtnPressed
  <2>2. ASSUME NEW r \in 1..Len(cartItems), plusTapped(r) \/ minusTapped(r) \/ swipeDelete(r)
        PROVE  FALSE
    BY <2>2 DEF plusTapped, minusTapped, swipeDelete, reloadCart, totalAmount
  <2>3. ASSUME NEW t \in Texts, typeCode(t) PROVE FALSE
    BY <2>3 DEF typeCode
  <2>4. CASE alertClosed
    <3>1. alert = "valid"
      BY <2>4, Zenon DEF alertClosed
    <3>2. QED
      BY <3>1, Zenon DEF PromoInv
  <2>5. CASE UNCHANGED vars
    BY <2>5 DEF vars
  <2>6. QED
    BY <2>1, <2>2, <2>3, <2>4, <2>5, Zenon DEF Next
<1>2. QED
  BY <1>1, PromoInit, PromoStep, PTL DEF Spec, DiscountNeedsCode

-----------------------------------------------------------------------------
Amounts == totalDiscount \in Nat /\ itemsTotal \in Nat /\ taxAmt \in Nat /\ finalAmt \in Int
OrdersTyped ==
  /\ screen \in {"loading", "shown", "confirmation"}
  /\ orders \in Seq([price : Int, items : Nat]) /\ Len(orders) <= MaxOrders

LEMMA CentsType ==
  /\ \A x \in Nat : Cents(x) \in Nat
  /\ \A x \in Int : Cents(x) \in Int
BY DEF Cents

LEMMA BillType ==
  ASSUME NEW items \in Seq(RowType), NEW discount \in Nat
  PROVE  Sum(items) \in Nat /\ Tax(items) \in Nat /\ Due(items, discount) \in Int
<1>1. Sum(items) \in Nat
  BY SumType
<1> DEFINE sum == Sum(items)
<1>2. 5 * sum \in Nat
  BY <1>1
<1>3. Tax(items) \in Nat
  BY <1>2, CentsType DEF Tax
<1> DEFINE tax == Tax(items)
<1>4. 100 * sum - discount + 100 * tax \in Int
  <2> HIDE DEF sum, tax
  <2>1. sum \in Nat /\ tax \in Nat
    BY <1>1, <1>3 DEF sum, tax
  <2>2. QED
    BY <2>1
<1>5. Due(items, discount) \in Int
  BY <1>4, CentsType DEF Due
<1>6. QED
  BY <1>1, <1>3, <1>5

LEMMA AfreshTyped == IInv' /\ BillAfresh /\ totalDiscount' \in Nat => Amounts'
<1> SUFFICES ASSUME IInv', BillAfresh, totalDiscount' \in Nat PROVE Amounts'
  OBVIOUS
<1>1. cartItems' \in Seq(RowType)
  BY DEF IInv, RowsAreLines, RowType
<1>2. SetBill(cartItems', totalDiscount')
  BY DEF BillAfresh
<1>3. QED
  BY <1>1, <1>2, BillType DEF SetBill, Amounts

LEMMA AmountsStep == IInv /\ IInv' /\ Amounts /\ [Next]_vars => Amounts'
<1> SUFFICES ASSUME IInv, IInv', Amounts, [Next]_vars PROVE Amounts'
  OBVIOUS
<1>1. CASE UNCHANGED <<totalDiscount, billVars>>
  BY <1>1 DEF Amounts, billVars
<1>2. CASE viewDidAppear
  BY <1>2, AfreshTyped DEF viewDidAppear, totalAmount, BillAfresh, Amounts
<1>3. ASSUME NEW r \in 1..Len(cartItems), plusTapped(r) \/ minusTapped(r) PROVE Amounts'
  BY <1>3, AfreshTyped DEF plusTapped, minusTapped, reloadCart, totalAmount, BillAfresh, Amounts
<1>4. ASSUME NEW r \in 1..Len(cartItems), swipeDelete(r) PROVE Amounts'
  BY <1>1, <1>4 DEF swipeDelete
<1>5. CASE alertClosed
  <2>1. CASE reloadCartWithDiscount
    <3>1. BillAfresh /\ totalDiscount' = DiscountPercent * Sum(cartItems')
      BY <2>1 DEF reloadCartWithDiscount, totalAmountWithDiscount, BillAfresh
    <3>2. cartItems' \in Seq(RowType)
      BY DEF IInv, RowsAreLines, RowType
    <3>3. Sum(cartItems') \in Nat
      BY <3>2, SumType
    <3> DEFINE sum == Sum(cartItems')
    <3>4. DiscountPercent * sum \in Nat
      <4> HIDE DEF sum
      <4>1. sum \in Nat
        BY <3>3 DEF sum
      <4>2. QED
        BY <4>1, DiscountAssumption
    <3>5. QED
      BY <3>1, <3>4, AfreshTyped
  <2>2. CASE UNCHANGED <<cartItems, totalDiscount, billVars>>
    BY <1>1, <2>2
  <2>3. QED
    BY <1>5, <2>1, <2>2, Zenon DEF alertClosed
<1>6. CASE fetchCompleted \/ promoBtnPressed \/ continueButtonPressed
  BY <1>1, <1>6, Zenon DEF fetchCompleted, promoBtnPressed, continueButtonPressed
<1>7. ASSUME NEW t \in Texts, typeCode(t) PROVE Amounts'
  BY <1>1, <1>7 DEF typeCode
<1>8. CASE UNCHANGED vars
  BY <1>1, <1>8 DEF vars
<1>9. QED
  BY <1>2, <1>3, <1>4, <1>5, <1>6, <1>7, <1>8 DEF Next

LEMMA OrdersStep == IInv /\ Amounts /\ OrdersTyped /\ [Next]_vars => OrdersTyped'
<1> SUFFICES ASSUME IInv, Amounts, OrdersTyped, [Next]_vars PROVE OrdersTyped'
  OBVIOUS
<1>1. CASE UNCHANGED <<screen, orders>>
  BY <1>1 DEF OrdersTyped
<1>2. CASE viewDidAppear
  BY <1>2 DEF viewDidAppear, OrdersTyped
<1>3. CASE continueButtonPressed
  <2>1. Len(cartNumber) \in Nat
    BY LenProperties DEF IInv, LinesOK
  <2>2. [price |-> finalAmt, items |-> Len(cartNumber)] \in [price : Int, items : Nat]
    BY <2>1 DEF Amounts
  <2>3. /\ orders' \in Seq([price : Int, items : Nat])
        /\ Len(orders') = Len(orders) + 1 /\ Len(orders) \in Nat
    BY <1>3, <2>2, AppendProperties, LenProperties DEF continueButtonPressed, OrdersTyped
  <2>4. QED
    BY <1>3, <2>3, BoundsAssumption DEF continueButtonPressed, OrdersTyped
<1>4. ASSUME NEW r \in 1..Len(cartItems), plusTapped(r) \/ minusTapped(r) \/ swipeDelete(r)
      PROVE  OrdersTyped'
  BY <1>1, <1>4 DEF plusTapped, minusTapped, swipeDelete
<1>5. CASE fetchCompleted \/ promoBtnPressed \/ alertClosed
  BY <1>1, <1>5, Zenon DEF fetchCompleted, promoBtnPressed, alertClosed
<1>6. ASSUME NEW t \in Texts, typeCode(t) PROVE OrdersTyped'
  BY <1>1, <1>6 DEF typeCode
<1>7. CASE UNCHANGED vars
  BY <1>1, <1>7 DEF vars
<1>8. QED
  BY <1>2, <1>3, <1>4, <1>5, <1>6, <1>7 DEF Next

TypeInv == IInv /\ Amounts /\ PromoInv /\ OrdersTyped

LEMMA TypeInit == Init => TypeInv
<1> SUFFICES ASSUME Init PROVE TypeInv
  OBVIOUS
<1>1. IInv /\ PromoInv
  BY IInvInit, PromoInit
<1>2. /\ totalDiscount = 0 /\ itemsTotal = Sum(cartItems) /\ taxAmt = Tax(cartItems)
      /\ finalAmt = Due(cartItems, 0) /\ screen = "loading" /\ orders = <<>>
  BY Zenon DEF Init
<1>3. cartItems \in Seq(RowType)
  BY <1>1 DEF IInv, RowsAreLines, RowType
<1>4. Amounts
  BY <1>2, <1>3, BillType DEF Amounts
<1>5. OrdersTyped
  BY <1>2, EmptySeq, BoundsAssumption DEF OrdersTyped
<1>6. QED
  BY <1>1, <1>4, <1>5 DEF TypeInv

\* Type correctness of the Cart: the three arrays stay aligned, no line is of
\* no item, and the bill consists of whole cents.
THEOREM TypeCorrect == Spec => []TypeOK
<1>1. TypeInv /\ [Next]_vars => TypeInv'
  BY IInvStep, AmountsStep, PromoStep, OrdersStep DEF TypeInv
<1>2. TypeInv => TypeOK
  BY Zenon DEF TypeInv, IInv, Amounts, PromoInv, PromoTyped, OrdersTyped, TypeOK
<1>3. QED
  BY <1>1, <1>2, TypeInit, PTL DEF Spec
=============================================================================
