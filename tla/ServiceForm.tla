---------------------------- MODULE ServiceForm ----------------------------
(***************************************************************************)
(* The service form with MaintenanceService behind it: a total, and the    *)
(* parts and labour it may be split into.  Amounts are millimes; Empty is  *)
(* a box with nothing in it, and zero a service that was free.             *)
(***************************************************************************)
EXTENDS Desk

CONSTANTS
  Costs,      \* what a person may type into a box
  MaxSaved,   \* bound: services saved
  Empty, NoService

ASSUME ServiceFormAssumption == Costs \subseteq Nat /\ MaxSaved \in Nat /\ Empty \notin Nat

Amount == Costs \cup {Empty}

-----------------------------------------------------------------------------
(* The form. *)

ServiceDesk(record, saves) ==
  [kind |-> "service", record |-> record, saves |-> saves, open |-> FALSE, says |-> "saved"]

ServiceInit == desk = ServiceDesk(NoService, 0)

Known(cost) == cost # Empty

\* A saved record with both halves of the split had its total added up.
ServiceBoxes(edits, costs) ==
  [kind |-> "service", record |-> desk.record, saves |-> desk.saves, open |-> TRUE,
   says |-> "nothing", edits |-> edits, total |-> costs.total, parts |-> costs.parts,
   labor |-> costs.labor, split |-> Known(costs.parts) \/ Known(costs.labor),
   totalTyped |-> edits /\ ~(Known(costs.parts) /\ Known(costs.labor))]

OpenService ==
  /\ ~desk.open
  /\ desk.saves < MaxSaved
  /\ desk' = ServiceBoxes(FALSE, [total |-> Empty, parts |-> Empty, labor |-> Empty])

EditService ==
  /\ ~desk.open
  /\ desk.saves < MaxSaved
  /\ desk.record # NoService
  /\ desk' = ServiceBoxes(TRUE, desk.record)

TypeServiceTotal(v) ==
  /\ desk.open
  /\ desk' = [desk EXCEPT !.says = "nothing", !.total = v, !.totalTyped = Known(v)]

Sum(parts, labor) ==
  (IF Known(parts) THEN parts ELSE 0) + (IF Known(labor) THEN labor ELSE 0)

\* A total nobody typed follows the split.
Summed(form) ==
  IF form.totalTyped \/ ~(Known(form.parts) \/ Known(form.labor)) THEN form
  ELSE [form EXCEPT !.total = Sum(form.parts, form.labor)]

TypeSplit(parts, labor) ==
  /\ desk.open
  /\ desk.split
  /\ desk.parts = parts \/ desk.labor = labor
  /\ desk' = Summed([desk EXCEPT !.says = "nothing", !.parts = parts, !.labor = labor])

OpenSplit ==
  /\ desk.open
  /\ desk' = [desk EXCEPT !.says = "nothing", !.split = TRUE]

\* Free, under warranty.
ChooseFree ==
  /\ desk.open
  /\ desk' = [desk EXCEPT !.says = "nothing", !.totalTyped = TRUE, !.split = FALSE, !.total = 0,
                          !.parts = Empty, !.labor = Empty]

SplitGiven == desk.split /\ (Known(desk.parts) \/ Known(desk.labor))

\* validate.
ServiceValid == Known(desk.total) \/ (SplitGiven /\ ~desk.totalTyped)

-----------------------------------------------------------------------------
(* What is sent, and what is made of it. *)

Part(cost) == IF desk.split THEN cost ELSE Empty

\* Mutant: the total goes with every create, typed or worked out.
SendsAnyTotal == TRUE

\* buildCreate: a worked-out total is left to the API to add up.
CreateSendsTotal ==
  desk.totalTyped \/ ~(Known(Part(desk.parts)) \/ Known(Part(desk.labor)))

\* buildUpdate.
UpdateSendsTotal ==
  desk.totalTyped \/ ~(Known(Part(desk.parts)) /\ Known(Part(desk.labor)))

\* resolveCosts: what is given has to add up, to the millime.
AddsUp(parts, labor, total) ==
  /\ Known(parts) /\ Known(labor) => parts + labor = total
  /\ \A part \in {parts, labor} : Known(part) => part <= total

\* The total added up again when it is not sent and can be; the old one kept
\* when it cannot.
TotalTaken(parts, labor) ==
  IF Known(parts) /\ Known(labor) THEN Sum(parts, labor)
  ELSE IF desk.edits THEN desk.record.total ELSE Sum(parts, labor)

Store(parts, labor, total) ==
  desk' = IF AddsUp(parts, labor, total)
          THEN ServiceDesk([parts |-> parts, labor |-> labor, total |-> total], desk.saves + 1)
          ELSE [desk EXCEPT !.says = "contradicts"]

SubmitService ==
  /\ desk.open
  /\ ServiceValid
  /\ LET parts == Part(desk.parts)
         labor == Part(desk.labor)
     IN IF IF desk.edits THEN UpdateSendsTotal ELSE CreateSendsTotal
        THEN IF Known(desk.total) THEN Store(parts, labor, desk.total)
             ELSE desk' = [desk EXCEPT !.says = "malformed"]
        ELSE Store(parts, labor, TotalTaken(parts, labor))

ServiceNext ==
  \/ OpenService
  \/ EditService
  \/ \E v \in Amount : TypeServiceTotal(v)
  \/ \E p, l \in Amount : TypeSplit(p, l)
  \/ OpenSplit
  \/ ChooseFree
  \/ SubmitService

ServiceSpec == ServiceInit /\ [][ServiceNext]_desk

-----------------------------------------------------------------------------
\* A new service the form lets through is turned down only for a total the
\* person typed against the split they typed; never for one the form worked
\* out, whatever was typed, cleared and typed again.  (maintenance-form.tsx:178,
\* "the two can never disagree"; costs.ts resolveCosts)
NewCostsAreUnderstood ==
  On("service") =>
    /\ desk.says = "malformed" => desk.edits
    /\ desk.says = "contradicts" => desk.totalTyped
=============================================================================
