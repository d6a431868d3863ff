-------------------------------- MODULE Cart --------------------------------
(***************************************************************************)
(* The Cart screen: CartsViewController with its CartViewModel and the     *)
(* promo codes of RemoteConfigPromoCodes.                                  *)
(*                                                                         *)
(* The view model holds the order twice: as parallel arrays (cartTitles,   *)
(* cartPrice, cartNumber; cartImage always moves with cartTitles and is    *)
(* left out) and as the rows derived from them (cartItems).  + and - change*)
(* the arrays and derive the rows afresh; a swipe deletes a row only.      *)
(*                                                                         *)
(* Amounts are in cents; totalDiscount, which the code keeps unrounded, is *)
(* in hundredths of a cent.                                                *)
(***************************************************************************)
EXTENDS Integers, SequencesExt

CONSTANTS
  Titles, Prices,  \* of the lines the menu may hand over
  Codes,           \* the words of the promoCode value that Remote Config serves
  Texts,           \* what may stand in the promo code field
  DiscountPercent, \* restDiscountValue
  MaxLines,        \* bound: lines handed over
  MaxNumber,       \* bound: quantity of a line
  MaxOrders        \* bound: presses of Continue

ASSUME PricesAssumption == Prices \subseteq Nat
ASSUME DiscountAssumption == DiscountPercent \in Nat
ASSUME BoundsAssumption == MaxLines \in Nat /\ MaxNumber \in Nat /\ MaxOrders \in Nat

VARIABLES
  cartTitles, cartPrice, cartNumber,  \* the lines
  cartItems,                          \* the rows of the table
  totalDiscount,
  itemsTotal, taxAmt, finalAmt,       \* the labels of the bill
  promoCodes,                         \* the words of promoCodes
  promoCodeTextField,
  alert,                              \* the alert on the screen, or "none"
  screen,                             \* "loading", "shown" or "confirmation"
  orders                              \* the orders handed to OrderService

lineVars == <<cartTitles, cartPrice, cartNumber>>
billVars == <<itemsTotal, taxAmt, finalAmt>>
promoVars == <<promoCodes, promoCodeTextField, alert>>
vars == <<lineVars, cartItems, totalDiscount, billVars, promoVars, screen, orders>>

-----------------------------------------------------------------------------
(***************************************************************************)
(* The bill                                                                *)
(***************************************************************************)
\* %.2f of an amount given in hundredths of a cent
Cents(x) == (x + 50) \div 100

Sum(items) == FoldSeq(LAMBDA item, sum : sum + item.itemPrice, 0, items)
Tax(items) == Cents(5 * Sum(items))
Due(items, discount) == Cents(100 * Sum(items) - discount + 100 * Tax(items))

\* the labels that totalAmount and totalAmountWithDiscount set
SetBill(items, discount) ==
  /\ itemsTotal' = Sum(items)
  /\ taxAmt' = Tax(items)
  /\ finalAmt' = Due(items, discount)

totalAmount(items) == SetBill(items, totalDiscount) /\ UNCHANGED totalDiscount

totalAmountWithDiscount(items) ==
  /\ totalDiscount' = DiscountPercent * Sum(items)
  /\ SetBill(items, DiscountPercent * Sum(items))

(***************************************************************************)
(* The rows derived from the lines                                         *)
(***************************************************************************)
Row(i) == [itemName |-> cartTitles[i], itemPrice |-> cartPrice[i] * cartNumber[i],
           itemNumber |-> cartNumber[i]]
Derived == [i \in 1..Len(cartPrice) |-> Row(i)]

\* a slip: totalItems appends to rows that were not emptied first
AppendedRows(rows, derived) == rows \o derived
\* cartItems.removeAll(), then totalItems()
Rederived(rows, derived) == derived

NewRows == Rederived(cartItems, Derived')

\* a slip: the labels keep what they said
ReloadRowsOnly == cartItems' = NewRows /\ UNCHANGED <<billVars, totalDiscount>>
reloadCart == cartItems' = NewRows /\ totalAmount(NewRows)

\* The lines stay as they are here, so the rows are derived from them.
reloadCartWithDiscount ==
  LET rows == Rederived(cartItems, Derived)
  IN cartItems' = rows /\ totalAmountWithDiscount(rows)

(***************************************************************************)
(* Opening the screen (viewDidLoad), with the lines the menu handed over;  *)
(* every line starts with the quantity one                                 *)
(***************************************************************************)
Init ==
  /\ \E n \in 0..MaxLines :
       /\ cartTitles \in [1..n -> Titles] /\ cartPrice \in [1..n -> Prices]
       /\ cartNumber = [i \in 1..n |-> 1]
  /\ cartItems = Rederived(<<>>, Derived)
  /\ totalDiscount = 0
  /\ itemsTotal = Sum(cartItems) /\ taxAmt = Tax(cartItems)
  /\ finalAmt = Due(cartItems, 0)
  /\ promoCodes = {""} /\ promoCodeTextField = "" /\ alert = "none"
  /\ screen = "loading" /\ orders = <<>>

\* viewDidAppear, first and after each return from the Confirmation screen
viewDidAppear ==
  /\ screen # "shown"
  /\ screen' = "shown"
  /\ totalAmount(cartItems)
  /\ UNCHANGED <<lineVars, cartItems, promoVars, orders>>

\* An alert is modal: while one is up the screen below takes no touches.
UserAtCart == screen = "shown" /\ alert = "none"

(***************************************************************************)
(* + and - on a row (addBtnTapped): the row's index is used as an index    *)
(* into the lines                                                          *)
(***************************************************************************)
plusTapped(r) ==
  /\ UserAtCart
  /\ cartNumber[r] < MaxNumber
  /\ cartNumber' = [cartNumber EXCEPT ![r] = @ + 1]
  /\ UNCHANGED <<cartTitles, cartPrice>>
  /\ reloadCart
  /\ UNCHANGED <<promoVars, screen, orders>>

\* a slip: a line that reaches zero stays
StepDownOnly(r) ==
  cartNumber' = [cartNumber EXCEPT ![r] = @ - 1] /\ UNCHANGED <<cartTitles, cartPrice>>
\* a slip: the title of a line that goes stays
DropPriceAndNumber(r) ==
  /\ cartNumber' = RemoveAt(cartNumber, r) /\ cartPrice' = RemoveAt(cartPrice, r)
  /\ UNCHANGED cartTitles
DropLine(r) ==
  /\ cartNumber' = RemoveAt(cartNumber, r) /\ cartPrice' = RemoveAt(cartPrice, r)
  /\ cartTitles' = RemoveAt(cartTitles, r)

StepDown(r) ==
  \/ cartNumber[r] > 1 /\ StepDownOnly(r)
  \/ cartNumber[r] = 1 /\ DropLine(r)

minusTapped(r) ==
  /\ UserAtCart
  /\ StepDown(r)
  /\ reloadCart
  /\ UNCHANGED <<promoVars, screen, orders>>

\* commit editingStyle: .delete takes the row out of cartItems only
swipeDelete(r) ==
  /\ UserAtCart
  /\ cartItems' = RemoveAt(cartItems, r)
  /\ UNCHANGED <<lineVars, totalDiscount, billVars, promoVars, screen, orders>>

(***************************************************************************)
(* Promo codes.  fetchValue's answer may come at any time, or never; until *)
(* then the list of codes is the one empty word.                           *)
(***************************************************************************)
fetchCompleted ==
  /\ promoCodes' = Codes
  /\ UNCHANGED <<lineVars, cartItems, totalDiscount, billVars, promoCodeTextField,
                 alert, screen, orders>>

typeCode(t) ==
  /\ UserAtCart /\ promoCodeTextField' = t
  /\ UNCHANGED <<lineVars, cartItems, totalDiscount, billVars, promoCodes, alert,
                 screen, orders>>

\* UIKit presents nothing on a controller that is presenting already.
PresentFirst(alerts) == alert' = Head(alerts)

\* a slip: every non-empty text is valid
NotBlank(t) == t # ""
\* validatePromoCode's answer
validatePromoCode(t) == t \in promoCodes

promoBtnPressed ==
  /\ UserAtCart
  /\ LET blank == IF promoCodeTextField = "" THEN <<"blank">> ELSE <<>>
         verdict == IF validatePromoCode(promoCodeTextField)
                    THEN <<"valid">> ELSE <<"invalid">>
     IN PresentFirst(blank \o verdict)
  /\ UNCHANGED <<lineVars, cartItems, totalDiscount, billVars, promoCodes,
                 promoCodeTextField, screen, orders>>

\* the button of the alert: Accept applies the discount, OK does nothing
alertClosed ==
  /\ alert # "none" /\ alert' = "none"
  /\ \/ alert = "valid" /\ reloadCartWithDiscount
     \/ alert # "valid" /\ UNCHANGED <<cartItems, totalDiscount, billVars>>
  /\ UNCHANGED <<lineVars, promoCodes, promoCodeTextField, screen, orders>>

(***************************************************************************)
(* Continue hands the order over and moves on whatever becomes of it       *)
(***************************************************************************)
continueButtonPressed ==
  /\ UserAtCart /\ Len(orders) < MaxOrders
  /\ orders' = Append(orders, [price |-> finalAmt, items |-> Len(cartNumber)])
  /\ screen' = "confirmation"
  /\ UNCHANGED <<lineVars, cartItems, totalDiscount, billVars, promoVars>>

Next ==
  \/ viewDidAppear
  \/ \E r \in 1..Len(cartItems) : plusTapped(r) \/ minusTapped(r) \/ swipeDelete(r)
  \/ fetchCompleted
  \/ \E t \in Texts : typeCode(t)
  \/ promoBtnPressed
  \/ alertClosed
  \/ continueButtonPressed

Spec == Init /\ [][Next]_vars

-----------------------------------------------------------------------------
(***************************************************************************)
(* Properties                                                              *)
(***************************************************************************)
\* Type invariant: the three arrays are one list of lines, and every line is
\* of at least one item.
LinesOK ==
  /\ cartTitles \in Seq(Titles) /\ cartPrice \in Seq(Prices)
  /\ cartNumber \in Seq(Nat \ {0})
  /\ Len(cartTitles) = Len(cartPrice) /\ Len(cartNumber) = Len(cartPrice)
TypeOK ==
  /\ LinesOK
  /\ totalDiscount \in Nat
  /\ itemsTotal \in Nat /\ taxAmt \in Nat /\ finalAmt \in Int
  /\ promoCodes \in {{""}, Codes} /\ promoCodeTextField \in Texts \cup {""}
  /\ alert \in {"none", "blank", "invalid", "valid"}
  /\ screen \in {"loading", "shown", "confirmation"}
  /\ Len(orders) <= MaxOrders

\* Every row shows a line as it is now, in the order of the lines, whatever
\* was swiped away before: no row shows an old quantity, no row a line that
\* has gone, and the index of a row is always an index into the lines.
Embeds(place) ==
  /\ \A r \in 1..Len(cartItems) : cartItems[r] = Row(place[r])
  /\ \A r, q \in 1..Len(cartItems) : r < q => place[r] < place[q]
RowsAreLines ==
  /\ cartItems \in Seq([itemName : Titles, itemPrice : Nat, itemNumber : Nat])
  /\ Len(cartItems) <= Len(cartPrice)
  /\ \E place \in [1..Len(cartItems) -> 1..Len(cartPrice)] : Embeds(place)

\* The bill is, with the discount that was accepted last, that of a selection
\* of the lines as they are now which leaves out no row: never of an old
\* quantity, and of all lines while no row is swiped away; across + and -,
\* swipes, alerts, and visits to the Confirmation screen.
Selections(n) ==
  {place \in [1..n -> 1..Len(cartPrice)] : \A k, m \in 1..n : k < m => place[k] < place[m]}
BillOf(items) ==
  /\ itemsTotal = Sum(items) /\ taxAmt = Tax(items)
  /\ finalAmt = Due(items, totalDiscount)
BillCoversRows ==
  \E n \in 0..Len(cartPrice) : \E place \in Selections(n) :
    /\ BillOf([k \in 1..n |-> Row(place[k])])
    /\ \E at \in [1..Len(cartItems) -> 1..n] :
         Embeds([r \in 1..Len(cartItems) |-> place[at[r]]])

\* A discount is granted only for a code that Remote Config has served: not
\* for a blank field, although until the answer comes the blank word is in
\* the list of codes and validatePromoCode says yes to it.
DiscountNeedsCode ==
  [][totalDiscount' # totalDiscount =>
       promoCodeTextField # "" /\ promoCodeTextField \in Codes]_vars

\* The Cart implements Basket: its lines change by one item at a time, and
\* neither a swipe nor an alert nor an order touches them.
BasketLines ==
  [i \in 1..Len(cartPrice) |->
     [title |-> cartTitles[i], price |-> cartPrice[i], number |-> cartNumber[i]]]
TheBasket == INSTANCE Basket WITH lines <- BasketLines
ImplementsBasket == TheBasket!Spec

\* "Your discount is N% off": an accepted discount is N percent of the items.
DiscountIsPercent ==
  totalDiscount # 0 => totalDiscount = DiscountPercent * Sum(cartItems)
=============================================================================
