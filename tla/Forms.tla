------------------------------- MODULE Forms -------------------------------
(***************************************************************************)
(* One form, the API's rules behind it and the table behind those: three   *)
(* statements of what a record may hold, written in three places.  A text  *)
(* is its length, a number its whole part and its decimal places, a moment *)
(* its day and a time in it; Null is an empty box, a null in a payload and *)
(* a null in a row.                                                        *)
(***************************************************************************)
EXTENDS Desk

CONSTANTS
  MaxTouched,   \* bound: boxes touched while a form is open
  MaxSent       \* bound: requests sent

\* No limit of the code's: longer than anything typed, later than any time.
Unlimited == 1000000000

ASSUME FormsAssumption == MaxTouched \in Nat /\ MaxSent \in 0 .. Unlimited

-----------------------------------------------------------------------------
(* Rules.  may: "need" a value, may be "absent", may be absent or "null".  *)

Text(least, most) ==
  [is |-> "text", least |-> least, most |-> most, places |-> 0, zero |-> TRUE, may |-> "need"]

Number(least, most, places, zero) ==
  [is |-> "number", least |-> least, most |-> most, places |-> places, zero |-> zero, may |-> "need"]

Whole(least, most) == Number(least, most, 0, TRUE)

\* IsOptional lets null through, the project's IsOptionalProperty does not.
OrNull(rule) == [rule EXCEPT !.may = "null"]
OrAbsent(rule) == [rule EXCEPT !.may = "absent"]

\* An update's body: these of a new record's fields may be left out as well.
LeavingOut(fields, dto) ==
  [f \in DOMAIN dto |-> IF f \in fields THEN OrAbsent(dto[f]) ELSE dto[f]]

Null == [is |-> "nothing", value |-> 0, places |-> 0]

\* A box that reads "00" or "0.0", which is not the text "0".
Zeros == [is |-> "zeros", value |-> 0, places |-> 0]

Content(rule, value, places) == [is |-> rule.is, value |-> value, places |-> places]

\* The value itself against a rule; a number with decimals is never zero.
Fits(rule, content) ==
  /\ content.is = rule.is
  /\ content.value \in rule.least .. rule.most
  /\ content.places <= rule.places
  /\ rule.zero \/ content.value > 0 \/ content.places > 0

BillionLess == 999999999
MaxOdometer == 5000000
KmRule == Whole(0, MaxOdometer)
\* Day 1 is today, which does not end here, and 2 any other.
Today == 1
\* A calendar day: a date column, and all a form's picker offers.
Day == [Text(1, 2) EXCEPT !.is = "day"]
\* A date and time: 0 is midday of another day, the others are not.
Instant == [Text(1, 2) EXCEPT !.is = "instant", !.places = Unlimited]

-----------------------------------------------------------------------------
(* What the API admits. *)

AmountRule == Number(0, BillionLess, 3, FALSE)
Cost == Number(0, BillionLess, 3, TRUE)
Volume == Number(0, 99999, 2, FALSE)
Price == Number(0, 99999, 3, FALSE)

CreateExpense ==
  [amount |-> AmountRule, incurredAt |-> OrNull(Instant), odometerKm |-> OrNull(KmRule),
   description |-> OrNull(Text(1, 200)), vendor |-> OrNull(Text(1, 120)), notes |-> OrNull(Text(1, 2000))]
\* Mutant: PartialType(CreateExpenseDto), which the code writes out to avoid.
UpdateExpensePartial == [f \in DOMAIN CreateExpense |-> OrNull(CreateExpense[f])]
UpdateExpense == LeavingOut({"amount", "incurredAt"}, CreateExpense)

CreateFuel ==
  [filledAt |-> OrNull(Instant), odometerKm |-> KmRule, volumeLiters |-> Volume,
   totalCost |-> AmountRule, pricePerLiter |-> OrNull(Price), stationName |-> OrNull(Text(1, 120)),
   notes |-> OrNull(Text(1, 2000))]
UpdateFuel == LeavingOut({"filledAt", "odometerKm", "volumeLiters", "totalCost"}, CreateFuel)

CreateRecord ==
  [performedAt |-> OrNull(Instant), odometerKm |-> KmRule, partsCost |-> OrNull(Cost),
   laborCost |-> OrNull(Cost), totalCost |-> OrNull(Cost), serviceProvider |-> OrNull(Text(1, 120)),
   description |-> OrNull(Text(1, 200)), notes |-> OrNull(Text(1, 2000))]
UpdateRecord == LeavingOut({"performedAt", "odometerKm", "totalCost"}, CreateRecord)

CreateSchedule ==
  [name |-> OrNull(Text(1, 120)), intervalKm |-> OrNull(Whole(1, 1000000)),
   intervalMonths |-> OrNull(Whole(1, 240)), lastServiceOdometerKm |-> OrNull(KmRule),
   lastServiceAt |-> OrNull(Instant), notifyBeforeKm |-> OrNull(Whole(0, 100000)),
   notifyBeforeDays |-> OrNull(Whole(0, 365))]
UpdateSchedule == LeavingOut({"name", "notifyBeforeKm", "notifyBeforeDays"}, CreateSchedule)

CreateReminder ==
  [title |-> Text(1, 120), description |-> OrNull(Text(1, 500)), dueDate |-> OrNull(Day),
   dueOdometerKm |-> OrNull(KmRule), notifyBeforeDays |-> OrNull(Whole(0, 365)),
   notifyBeforeKm |-> OrNull(Whole(0, 100000)), repeatEveryMonths |-> OrNull(Whole(1, 120))]
UpdateReminder == LeavingOut({"title", "notifyBeforeDays", "notifyBeforeKm"}, CreateReminder)

CreateVehicleDto ==
  [make |-> Text(1, 64), model |-> Text(1, 64), year |-> Whole(1886, 2027),
   licensePlate |-> Text(1, 32), engineSize |-> OrNull(Number(0, 20, 1, FALSE)),
   initialOdometerKm |-> OrNull(KmRule), purchasePrice |-> OrNull(Cost), color |-> OrNull(Text(1, 32))]
\* PartialType: IsOptional on every field.
UpdateVehicle == [f \in DOMAIN CreateVehicleDto \ {"initialOdometerKm"} |-> OrNull(CreateVehicleDto[f])]

RegisterDto == [displayName |-> Text(1, 120), email |-> Text(3, 320), password |-> Text(12, 128)]
UpdateProfile == [displayName |-> OrAbsent(Text(1, 120))]
LoginDto == [email |-> Text(3, 320), password |-> Text(0, 128)]
ResetPasswordDto == [password |-> Text(12, 128)]
RecordReading == [odometerKm |-> KmRule]
RequestUpload == [fileName |-> Text(1, 255), sizeBytes |-> Whole(1, 10485760)]

-----------------------------------------------------------------------------
(* What the forms accept. *)

ExpenseForm ==
  [amount |-> AmountRule, incurredAt |-> Day, odometerKm |-> OrNull(KmRule),
   vendor |-> OrNull(Text(1, 120)), description |-> OrNull(Text(1, 200)), notes |-> OrNull(Text(1, 2000))]

\* normaliseDecimal takes nine digits of anything.  The price is FuelForm's.
FuelBoxRules ==
  [filledAt |-> Day, odometerKm |-> KmRule,
   volumeLiters |-> Number(0, BillionLess, 2, FALSE), totalCost |-> AmountRule,
   stationName |-> OrNull(Text(1, 120)), notes |-> OrNull(Text(1, 2000))]

\* The split into parts and labour is ServiceForm's.
RecordForm ==
  [performedAt |-> Day, odometerKm |-> KmRule, totalCost |-> Cost, serviceProvider |-> OrNull(Text(1, 120)),
   description |-> OrNull(Text(1, 200)), notes |-> OrNull(Text(1, 2000))]

\* Of a number's text, only "0" is refused as an interval: see TakesZeros.
ScheduleForm ==
  [name |-> Text(1, 120), intervalKm |-> OrNull(Whole(1, 1000000)),
   intervalMonths |-> OrNull(Whole(1, 240)), lastServiceOdometerKm |-> OrNull(KmRule),
   lastServiceAt |-> OrNull(Day), notifyBeforeKm |-> OrNull(Whole(0, 100000)),
   notifyBeforeDays |-> OrNull(Whole(0, 365))]

\* The mileage has no upper limit; what chips give is not checked.
ReminderForm ==
  [title |-> Text(1, 120), description |-> OrNull(Text(1, 500)), dueDate |-> OrNull(Day),
   dueOdometerKm |-> OrNull(Whole(0, Unlimited)), repeatEveryMonths |-> OrNull(Whole(1, Unlimited)),
   notifyBeforeDays |-> Whole(0, Unlimited)]

\* The engine size may have any number of decimals.
VehicleForm ==
  [make |-> Text(1, 64), model |-> Text(1, 64), year |-> Whole(1886, 2027),
   licensePlate |-> Text(1, 32), engineSize |-> OrNull(Number(0, 20, 3, FALSE)),
   initialOdometerKm |-> OrNull(KmRule), purchasePrice |-> OrNull(Cost), color |-> OrNull(Text(1, 32))]

RegisterForm == [displayName |-> Text(1, 120), email |-> Text(3, 320), password |-> Text(12, 128)]
ProfileForm == [displayName |-> Text(1, 120)]
LoginForm == [email |-> Text(3, Unlimited), password |-> Text(1, Unlimited)]
ResetPasswordForm == [password |-> Text(12, Unlimited)]
ReadingForm == [odometerKm |-> Whole(0, Unlimited)]
AttachmentForm == [fileName |-> Text(1, 255), sizeBytes |-> Whole(1, 10485760)]

-----------------------------------------------------------------------------
(* The forms, and the tables' columns: NOT NULL, NOT NULL with a default,  *)
(* or nullable.                                                            *)

None == [f \in {} |-> Null]

\* A form for a new record, one for a stored one, the API's two rules.
Form ==
  [expense  |-> [new |-> ExpenseForm, edit |-> ExpenseForm, create |-> CreateExpense, update |-> UpdateExpense],
   fuel     |-> [new |-> FuelBoxRules, edit |-> FuelBoxRules, create |-> CreateFuel, update |-> UpdateFuel],
   service  |-> [new |-> RecordForm, edit |-> RecordForm, create |-> CreateRecord, update |-> UpdateRecord],
   schedule |-> [new |-> ScheduleForm, edit |-> ScheduleForm, create |-> CreateSchedule, update |-> UpdateSchedule],
   reminder |-> [new |-> ReminderForm, edit |-> ReminderForm, create |-> CreateReminder, update |-> UpdateReminder],
   vehicle  |-> [new |-> VehicleForm, edit |-> None, create |-> CreateVehicleDto, update |-> UpdateVehicle],
   account  |-> [new |-> RegisterForm, edit |-> ProfileForm, create |-> RegisterDto, update |-> UpdateProfile],
   login    |-> [new |-> LoginForm, edit |-> None, create |-> LoginDto, update |-> None],
   password |-> [new |-> ResetPasswordForm, edit |-> None, create |-> ResetPasswordDto, update |-> None],
   reading  |-> [new |-> ReadingForm, edit |-> None, create |-> RecordReading, update |-> None],
   document |-> [new |-> AttachmentForm, edit |-> None, create |-> RequestUpload, update |-> None]]

Money(most) == Number(0, most, 3, TRUE)
Positive(most, places) == Number(0, most, places, FALSE)

ExpenseColumns ==
  [amount |-> Positive(BillionLess, 3), incurredAt |-> OrAbsent(Instant), odometerKm |-> OrNull(Whole(0, Unlimited)),
   description |-> OrNull(Text(0, 200)), vendor |-> OrNull(Text(0, 120)),
   notes |-> OrNull(Text(0, Unlimited))]

FuelColumns ==
  [filledAt |-> OrAbsent(Instant), odometerKm |-> Whole(0, Unlimited), volumeLiters |-> Positive(99999, 2),
   totalCost |-> Positive(BillionLess, 3), pricePerLiter |-> OrAbsent(Positive(99999, 3)),
   stationName |-> OrNull(Text(0, 120)), notes |-> OrNull(Text(0, Unlimited))]

RecordColumns ==
  [performedAt |-> OrAbsent(Instant), odometerKm |-> Whole(0, Unlimited), totalCost |-> Money(BillionLess),
   partsCost |-> OrNull(Money(BillionLess)), laborCost |-> OrNull(Money(BillionLess)),
   serviceProvider |-> OrNull(Text(0, 120)), description |-> OrNull(Text(0, 200)),
   notes |-> OrNull(Text(0, Unlimited))]

ScheduleColumns ==
  [name |-> OrAbsent(Text(0, 120)), intervalKm |-> OrNull(Whole(1, Unlimited)),
   intervalMonths |-> OrNull(Whole(1, 32767)),
   lastServiceOdometerKm |-> OrNull(Whole(0, Unlimited)), lastServiceAt |-> OrNull(Instant),
   notifyBeforeKm |-> OrAbsent(Whole(0, Unlimited)),
   notifyBeforeDays |-> OrAbsent(Whole(0, 32767))]

ReminderColumns ==
  [title |-> Text(0, 120), description |-> OrNull(Text(0, 500)), dueDate |-> OrNull(Day),
   dueOdometerKm |-> OrNull(Whole(0, Unlimited)), notifyBeforeDays |-> OrAbsent(Whole(0, 32767)),
   notifyBeforeKm |-> OrAbsent(Whole(0, Unlimited)),
   repeatEveryMonths |-> OrNull(Whole(1, 32767))]

VehicleColumns ==
  [make |-> Text(0, 64), model |-> Text(0, 64), year |-> Whole(0, 32767),
   licensePlate |-> Text(0, 32), engineSize |-> OrNull(Number(0, 99, 1, TRUE)),
   initialOdometerKm |-> OrAbsent(Whole(0, Unlimited)),
   purchasePrice |-> OrNull(Money(BillionLess)), color |-> OrNull(Text(0, 32))]

UserColumns ==
  [displayName |-> Text(0, 120), email |-> Text(0, 320)]

ReadingColumns ==
  [odometerKm |-> Whole(0, Unlimited)]

DocumentColumns ==
  [fileName |-> Text(0, 255), sizeBytes |-> Whole(1, Unlimited)]

Columns ==
  [expense  |-> ExpenseColumns,
   fuel     |-> FuelColumns,
   service  |-> RecordColumns,
   schedule |-> ScheduleColumns,
   reminder |-> ReminderColumns,
   vehicle  |-> VehicleColumns,
   account  |-> UserColumns,
   reading  |-> ReadingColumns,
   document |-> DocumentColumns,
   login    |-> None,
   password |-> None]

\* The moment a request is sent and handled: today, and later with each.
Now == Content(Instant, Today, desk.sent + 1)

\* What a column holds where a payload left it out.
Default ==
  [initialOdometerKm |-> Content(KmRule, 0, 0), name |-> Content(Text(1, 120), 9, 0),
   notifyBeforeKm |-> Content(KmRule, 1000, 0), notifyBeforeDays |-> Content(KmRule, 30, 0),
   incurredAt |-> Now, filledAt |-> Now, performedAt |-> Now]

-----------------------------------------------------------------------------
(* What the records' own checks add: a form's, the services' and, saying   *)
(* the same, the tables'.                                                  *)

Given(row, f) == f \in DOMAIN row /\ row[f] # Null

\* assertInterval.
HasInterval(row) == Given(row, "intervalKm") \/ Given(row, "intervalMonths")

\* assertDuePoint.
HasDuePoint(row) ==
  /\ Given(row, "dueDate") \/ Given(row, "dueOdometerKm")
  /\ Given(row, "repeatEveryMonths") => Given(row, "dueDate")

\* resolveCosts, which adds up two halves that are both known.
HasCost(row) == Given(row, "totalCost")

Coherent(form, row) ==
  /\ form = "schedule" => HasInterval(row)
  /\ form = "reminder" => HasDuePoint(row)
  /\ form = "service" => HasCost(row)

\* Null where the rule wants a value, or a value that breaks the rule.
Breaks(rule, content) == IF content = Null THEN rule.may # "null" ELSE ~Fits(rule, content)

\* The fields ValidationPipe refuses in a payload.
Refused(dto, payload) ==
  {f \in DOMAIN payload : f \notin DOMAIN dto \/ (f \in DOMAIN dto /\ Breaks(dto[f], payload[f]))}
    \cup {f \in DOMAIN dto \ DOMAIN payload : dto[f].may = "need"}

\* The columns a row does not fit.
Unstorable(form, row) == {f \in DOMAIN row : Breaks(Columns[form][f], row[f])}

TakesZeros(f, content) == f \in {"intervalKm", "intervalMonths"} /\ content = Zeros

FormAccepts(form, rules, boxes) ==
  /\ \A f \in DOMAIN rules : TakesZeros(f, boxes[f]) \/ ~Breaks(rules[f], boxes[f])
  /\ Coherent(form, boxes)

-----------------------------------------------------------------------------
(* A record nobody has stored is None.  says: what the last request or the *)
(* form answered; offends: the fields an answer is about; forgot: what an  *)
(* edit that touched nothing changed, with what was stored there.          *)

FormsInit ==
  \E form \in DOMAIN Form :
    desk = [kind |-> "form", form |-> form, row |-> None, open |-> "no", boxes |-> None, touched |-> 0,
            sent |-> 0, by |-> "nobody", says |-> "nothing", offends |-> {}, forgot |-> None]

Mine == Form[desk.form]

\* What is ordinarily given: all that must be, an interval, a day it is due,
\* a total.
Ordinary(rules) ==
  [f \in {g \in DOMAIN rules : rules[g].may = "need" \/ g \in {"intervalKm", "dueDate", "totalCost"}} |->
     Content(rules[f], IF rules[f].least > 1 THEN rules[f].least ELSE 1, 0)]

\* The form for a new record, ordinarily filled in.
OpenNew ==
  /\ On("form") /\ desk.open = "no" /\ desk.row = None
  /\ desk' = [desk EXCEPT !.open = "new", !.touched = 0, !.by = "nobody", !.says = "nothing",
                 !.offends = {}, !.forgot = None,
                 !.boxes = [f \in DOMAIN Mine.new |->
                              IF f \in DOMAIN Ordinary(Mine.new) THEN Ordinary(Mine.new)[f] ELSE Null]]

\* knowsLast: Boolean(lastServiceOdometerKm ?? lastServiceAt), false of zero.
KnowsLast(row) ==
  IF Given(row, "lastServiceOdometerKm") THEN row["lastServiceOdometerKm"].value # 0
  ELSE Given(row, "lastServiceAt")

\* When the thing recorded happened, and when the last one before it did.
Happened == {"incurredAt", "filledAt", "performedAt"}
Moments == Happened \cup {"lastServiceAt"}

\* toDateInputValue and incurredAtFromDate: a moment as a picker shows it, and
\* a picked day as it is sent, now for today and midday for any other.
DateInputValue(moment) == IF moment = Null THEN Null ELSE Content(Day, moment.value, 0)
IncurredAtFromDate(day) ==
  IF day = Null THEN Null ELSE IF day.value = Today THEN Now ELSE Content(Instant, day.value, 0)

Opened(row) ==
  [f \in DOMAIN Mine.edit |->
     IF f \in {"lastServiceOdometerKm", "lastServiceAt"} /\ ~KnowsLast(row) THEN Null
     ELSE IF f \in Moments THEN DateInputValue(row[f]) ELSE row[f]]

OpenEdit ==
  /\ On("form") /\ desk.open = "no" /\ desk.row # None /\ Mine.edit # None
  /\ desk' = [desk EXCEPT !.open = "edit", !.touched = 0, !.by = "nobody", !.says = "nothing",
                 !.offends = {}, !.forgot = None,
                 !.boxes = Opened(desk.row)]

\* The values at a rule's edges, and just past them.
Edges(rule) ==
  IF rule.is = "day" THEN {Content(rule, v, 0) : v \in rule.least .. rule.most}
  ELSE IF rule.is = "instant" THEN {Content(rule, v, p) : v \in rule.least .. rule.most, p \in {0, 1}}
  ELSE {Content(rule, v, 0) : v \in {w \in {rule.least - 1, rule.least, rule.most, rule.most + 1} :
                                       /\ w \in 0 .. Unlimited
                                       /\ rule.is = "text" => w > 0}}
       \cup {Content(rule, rule.least, p) : p \in {q \in {rule.places, rule.places + 1} : q > 0 /\ rule.places > 0}}

\* Chips offer these, and to repeat or not; a picker days; every other box
\* takes anything.
Chips == [repeatEveryMonths |-> {1, 12}, notifyBeforeDays |-> {7, 14, 30, 60}]

Typed(f) ==
  IF desk.form = "reminder" /\ f \in DOMAIN Chips
  THEN {Content(Mine.new[f], v, 0) : v \in Chips[f]} \cup (IF f = "repeatEveryMonths" THEN {Null} ELSE {})
  ELSE {Null} \cup Edges(Mine.new[f])
       \cup (IF f \in DOMAIN Mine.create \ Moments THEN Edges(Mine.create[f]) ELSE {})
       \cup (IF TakesZeros(f, Zeros) THEN {Zeros} ELSE {})

Touch ==
  /\ On("form") /\ desk.open # "no" /\ desk.touched < MaxTouched
  /\ \E f \in DOMAIN desk.boxes : \E content \in Typed(f) \ {desk.boxes[f]} :
       desk' = [desk EXCEPT !.boxes[f] = content, !.touched = @ + 1, !.says = "nothing", !.offends = {}]

LeaveForm ==
  /\ On("form") /\ desk.open # "no"
  /\ desk' = [desk EXCEPT !.open = "no", !.boxes = None, !.touched = 0, !.says = "nothing", !.offends = {}]

\* The price the figures work out to, a fill under a litre counting as one.
WholePrice(row) ==
  Content(Price, row["totalCost"].value \div (IF row["volumeLiters"].value = 0 THEN 1
                                             ELSE row["volumeLiters"].value), 0)

\* A null here is a value left out.
FilledIn == {"name"} \cup Happened

\* The row as a payload would leave it.
Merged(payload) ==
  LET row == [f \in DOMAIN Columns[desk.form] |->
                IF f \in DOMAIN payload /\ (f \in FilledIn => payload[f] # Null) THEN payload[f]
                ELSE IF f \in DOMAIN desk.row THEN desk.row[f]
                ELSE IF f \in DOMAIN Default /\ Columns[desk.form][f].may = "absent" THEN Default[f]
                ELSE Null]
  IN IF desk.form = "fuel" THEN [row EXCEPT !["pricePerLiter"] = WholePrice(row)] ELSE row

\* One request: ValidationPipe, the service's own check, the table.
Answers(by, payload, untouched) ==
  LET dto == IF desk.row = None THEN Mine.create ELSE Mine.update
      refused == Refused(dto, payload)
      row == Merged(payload)
  IN [desk EXCEPT !.by = by, !.sent = @ + 1,
        !.offends = IF refused # {} THEN refused ELSE IF Coherent(desk.form, row) THEN Unstorable(desk.form, row) ELSE {},
        !.says = IF refused # {} \/ ~Coherent(desk.form, row) THEN "400"
                 ELSE IF Unstorable(desk.form, row) # {} THEN "500" ELSE "saved",
        !.row = IF refused = {} /\ Coherent(desk.form, row) /\ Unstorable(desk.form, row) = {} THEN row ELSE @,
        !.forgot = IF ~untouched \/ refused # {} THEN None
                   ELSE [f \in {g \in DOMAIN desk.row : row[g] # desk.row[g]} |-> desk.row[f]]]

\* A box as it is sent: blank warnings as zero, a day as a moment.
Sent(f, content) ==
  IF content = Zeros \/ (content = Null /\ f \in {"notifyBeforeKm", "notifyBeforeDays"})
  THEN Content(KmRule, 0, 0)
  ELSE IF f \in Moments THEN IncurredAtFromDate(content) ELSE content

\* A new record's blanks are left out; of an edit, the day it happened if it
\* is still the day of the row.
LeftOut(f) ==
  IF desk.open = "new" THEN Sent(f, desk.boxes[f]) = Null
  ELSE f \in Happened /\ desk.boxes[f] = DateInputValue(desk.row[f])

Body == [f \in {g \in DOMAIN desk.boxes : ~LeftOut(g)} |-> Sent(f, desk.boxes[f])]

SubmitForm ==
  /\ On("form") /\ desk.open # "no" /\ desk.sent < MaxSent
  /\ IF FormAccepts(desk.form, IF desk.open = "new" THEN Mine.new ELSE Mine.edit, desk.boxes)
     THEN LET answered == Answers("form", Body, desk.open = "edit" /\ desk.touched = 0)
          IN desk' = IF answered.says = "saved" THEN [answered EXCEPT !.open = "no", !.boxes = None, !.touched = 0]
                     ELSE answered
     ELSE desk' = [desk EXCEPT !.by = "form", !.says = "told", !.offends = {}]

\* Figures whose interplay FuelForm and ServiceForm model.
Figures == {"pricePerLiter", "partsCost", "laborCost"}

\* A client of the API that is not the form: one field as it likes.
Ask ==
  /\ On("form") /\ desk.open = "no" /\ desk.sent < MaxSent
  /\ LET dto == IF desk.row = None THEN Mine.create ELSE Mine.update
         base == IF desk.row = None THEN Ordinary(dto) ELSE None
     IN \E f \in DOMAIN dto \ Figures : \E content \in {Null} \cup Edges(dto[f]) :
          desk' = Answers("client", [g \in {f} \cup DOMAIN base |-> IF g = f THEN content ELSE base[g]], FALSE)

FormsNext == OpenNew \/ OpenEdit \/ Touch \/ LeaveForm \/ SubmitForm \/ Ask

FormsSpec == FormsInit /\ [][FormsNext]_desk

-----------------------------------------------------------------------------
(* Where the three statements are known to differ. *)

\* Forms looser than the API.
Looser ==
  [fuel |-> {"volumeLiters"}, schedule |-> {"intervalKm", "intervalMonths"},
   reminder |-> {"dueOdometerKm"}, vehicle |-> {"engineSize"},
   login |-> {"email", "password"}, password |-> {"password"}, reading |-> {"odometerKm"}]

\* The API looser than the tables: nulls IsOptional lets through, and a price
\* nobody sent.
Unguarded ==
  [vehicle |-> {"make", "model", "year", "licensePlate", "initialOdometerKm"},
   schedule |-> {"notifyBeforeKm", "notifyBeforeDays"},
   reminder |-> {"notifyBeforeKm", "notifyBeforeDays"}, fuel |-> {"pricePerLiter"}]

\* The moment is another one of the same day, the old one not what a form sends.
Rederived(moment) ==
  /\ DateInputValue(desk.row["lastServiceAt"]) = DateInputValue(moment)
  /\ moment.value = Today \/ moment.places # 0

Among(fields, table) == desk.form \in DOMAIN table /\ fields # {} /\ fields \subseteq table[desk.form]

(* The form, the API and the table say the same of a record, "Mirrors the  *)
(* server's DTO" (expense-form.tsx:30): what a form accepts is never        *)
(* answered 400, what the API accepts never fails in the table, a record    *)
(* anyone stored can be opened and saved by the form, and saving an edit    *)
(* that touched nothing changes nothing: "Re-deriving it on every save      *)
(* would move the expense to midday" (expense-form.tsx:75).  But for the    *)
(* fields named above; a last service at zero kilometres, which an edit     *)
(* forgets; and the moment of a last service, which the schedule form does  *)
(* re-derive: of its day, unless it was midday of a day gone by.            *)
FormsAgree ==
  On("form") =>
    /\ desk.says = "400" /\ desk.by = "form" => Among(desk.offends, Looser)
    /\ desk.says = "500" => Among(desk.offends, Unguarded)
    /\ desk.row # None /\ Mine.edit # None => FormAccepts(desk.form, Mine.edit, Opened(desk.row))
    /\ desk.forgot # None =>
         /\ desk.form = "schedule"
         /\ \/ Given(desk.forgot, "lastServiceOdometerKm") /\ desk.forgot["lastServiceOdometerKm"].value = 0
            \/ DOMAIN desk.forgot = {"lastServiceAt"} /\ Rederived(desk.forgot["lastServiceAt"])
=============================================================================
