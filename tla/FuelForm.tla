------------------------------ MODULE FuelForm ------------------------------
(***************************************************************************)
(* The fill-up form with FuelService behind it: three figures of which the *)
(* form works one out and the API checks all.  Litres are centilitres,     *)
(* amounts and prices millimes; zero is a box that holds no figure.        *)
(***************************************************************************)
EXTENDS Desk, Sequences

CONSTANTS
  Litres, Totals,   \* what a person reads off the pump
  Prices,           \* what a person may type for a price
  Official,         \* the state's prices, a sequence: the pump's usual grade first
  MaxSaves,         \* bound: fills saved
  NoFill

ASSUME FuelFormAssumption ==
  /\ Litres \cup Totals \cup Prices \subseteq Nat /\ MaxSaves \in Nat
  /\ Official \in Seq(Nat \ {0})

Blank == 0

-----------------------------------------------------------------------------
(* pump-math.ts.  Without both of its figures the third stays what it was. *)

TotalFor(litres, price, was) ==
  IF litres = Blank \/ price = Blank THEN was ELSE Rounded(litres * price, 100)

LitresFor(total, price, was) ==
  IF total = Blank \/ price = Blank THEN was ELSE Rounded(total * 100, price)

\* derivePriceMillimes.
DerivedPrice(total, litres) == Rounded(total * 100, litres)

\* PRICE_TOLERANCE is two per cent of the total.
PriceIsConsistent(price, total, litres) ==
  LET off == price * litres - 100 * total IN
  (IF off < 0 THEN -off ELSE off) * 100 <= 2 * 100 * total

-----------------------------------------------------------------------------
(* The form. *)

\* lastPrice: what the last fill cost per litre.
LastPrice == IF desk.stored = NoFill THEN Blank ELSE desk.stored.price

\* The official price of the grade asked for, else of the one last paid for,
\* else of the usual one; the last price paid where the state sets none.
DefaultPrice(grade) ==
  IF grade # Blank THEN Official[grade]
  ELSE IF Official = <<>> \/ \E g \in DOMAIN Official : Official[g] = LastPrice THEN LastPrice
  ELSE Official[1]

\* Mutant: the amount is worked out from the price it was typed with.
DeriveKept(form) == form

\* Recomputes whichever figure was worked out, after one of the three moved.
Derive(form) ==
  IF form.typedLitres /\ ~form.typedTotal
  THEN [form EXCEPT !.total = TotalFor(form.litres, form.price, @)]
  ELSE IF form.typedTotal /\ ~form.typedLitres
  THEN [form EXCEPT !.litres = LitresFor(form.total, form.price, @)]
  ELSE form

BothTyped == desk.typedLitres /\ desk.typedTotal

\* A form on a table where a fill may already be stored.
FuelDesk(stored, saves) ==
  [kind |-> "fuel", stored |-> stored, saves |-> saves, open |-> FALSE, says |-> "saved"]

FuelInit == desk = FuelDesk(NoFill, 0)

\* With an entry its figures came off a pump, and its price is nobody's guess.
FuelBoxes(edits, figures) ==
  [kind |-> "fuel", stored |-> desk.stored, saves |-> desk.saves, open |-> TRUE,
   says |-> "nothing", edits |-> edits, litres |-> figures.litres, total |-> figures.total,
   price |-> figures.price, typedLitres |-> edits, typedTotal |-> edits, touched |-> edits,
   grade |-> Blank]

OpenFuel ==
  /\ ~desk.open
  /\ desk.saves < MaxSaves
  /\ desk' = FuelBoxes(FALSE, [litres |-> Blank, total |-> Blank, price |-> Blank])

EditFuel ==
  /\ ~desk.open
  /\ desk.saves < MaxSaves
  /\ desk.stored # NoFill
  /\ desk' = FuelBoxes(TRUE, desk.stored)

TypeLitres(v) ==
  /\ desk.open
  /\ desk' = Derive([desk EXCEPT !.says = "nothing", !.litres = v, !.typedLitres = v # Blank])

TypeTotal(v) ==
  /\ desk.open
  /\ desk' = Derive([desk EXCEPT !.says = "nothing", !.total = v, !.typedTotal = v # Blank])

\* The price has a box only while it is not worked out from the other two.
SetPrice(v) ==
  /\ desk.open
  /\ ~BothTyped
  /\ desk' = Derive([desk EXCEPT !.says = "nothing", !.price = v, !.touched = TRUE])

\* The usual amount: the total drives.
ChooseAmount(v) ==
  /\ desk.open
  /\ desk' = Derive([desk EXCEPT !.says = "nothing", !.total = v, !.typedLitres = FALSE, !.typedTotal = TRUE])

ChooseGrade(g) ==
  /\ desk.open
  /\ desk' = [desk EXCEPT !.says = "nothing", !.grade = g, !.touched = FALSE]

\* During a render, once the suggestions are there and nobody chose a price.
PriceArrives ==
  /\ desk.open
  /\ ~desk.touched
  /\ DefaultPrice(desk.grade) \notin {Blank, desk.price}
  /\ desk' = Derive([desk EXCEPT !.says = "nothing", !.price = DefaultPrice(desk.grade)])

\* validate.
FuelValid ==
  /\ desk.litres # Blank
  /\ desk.total # Blank
  /\ BothTyped \/ desk.price # Blank

-----------------------------------------------------------------------------
(* What is sent, and what is made of it. *)

Sends(sent, price) == [sent |-> sent, price |-> price]

\* buildCreate: with both figures typed the price is left to the API.
CreatesFuel == IF BothTyped THEN Sends(FALSE, Blank) ELSE Sends(TRUE, desk.price)

\* buildUpdate: litres and total always; the price if it was set, a null to
\* have it derived again if they moved.
UpdatesFuel ==
  IF desk.price # Blank /\ desk.price # desk.stored.price /\ ~BothTyped
  THEN Sends(TRUE, desk.price)
  ELSE IF <<desk.litres, desk.total>> # <<desk.stored.litres, desk.stored.total>>
  THEN Sends(TRUE, Blank) ELSE Sends(FALSE, Blank)

\* FuelService.update: a body that names a figure has moved it, and a price
\* that is not sent with it is derived again.
PriceTaken(body) == IF body.sent THEN body.price ELSE Blank

\* resolveFigures.
Resolve(price) ==
  IF price # Blank /\ ~PriceIsConsistent(price, desk.total, desk.litres)
  THEN [desk EXCEPT !.says = "refused"]
  ELSE FuelDesk([litres |-> desk.litres, total |-> desk.total,
                 price |-> IF price = Blank THEN DerivedPrice(desk.total, desk.litres) ELSE price],
                desk.saves + 1)

SubmitFuel ==
  /\ desk.open
  /\ FuelValid
  /\ desk' = Resolve(PriceTaken(IF desk.edits THEN UpdatesFuel ELSE CreatesFuel))

FuelNext ==
  \/ OpenFuel
  \/ EditFuel
  \/ \E v \in Litres : TypeLitres(v)
  \/ \E v \in Totals : TypeTotal(v) \/ ChooseAmount(v)
  \/ \E v \in Prices : SetPrice(v)
  \/ \E g \in DOMAIN Official : ChooseGrade(g)
  \/ PriceArrives
  \/ SubmitFuel

FuelSpec == FuelInit /\ [][FuelNext]_desk

-----------------------------------------------------------------------------
\* A figure the form worked out is one the API accepts: however the boxes were
\* filled, cleared and filled again, and whenever the prices arrived, what
\* passes the form's own checks does not come back as three figures that
\* contradict each other, unless the fill is so small that rounding alone takes
\* more than the tolerance: under 25 millimes, or under a quarter of a litre.
\* (fuel-form.tsx derive; fuel.service.ts resolveFigures)
WorkedOutIsAccepted ==
  On("fuel") /\ desk.says = "refused" => desk.total < 25 \/ 4 * desk.total < desk.price

\* An edit that leaves litres and amount alone leaves the price alone.
\* (fuel-form.tsx:227, "Changed figures re-derive the price unless one was
\* deliberately set")
UntouchedKeepsPrice ==
  [][On("fuel") /\ desk.open /\ desk.edits /\ ~desk'.open
       /\ desk.litres = desk.stored.litres /\ desk.total = desk.stored.total
       /\ desk.price = desk.stored.price
     => desk'.stored.price = desk.stored.price]_desk
=============================================================================
