------------------------------- MODULE MCEntry -------------------------------
(* One person at one desk: whichever form, list, page or request it is. *)
EXTENDS FuelForm, ServiceForm, Access, Throttle, FuelLog, Mileage, Forms, Screens, TLC

MCOfficial == <<2525, 2205>>
MCByAddress == [limit |-> 2, window |-> 2]
MCByEmail == [limit |-> 2, window |-> 3]
MCPours ==
  {[cl |-> 4000, cost |-> 100, station |-> "agil", near |-> TRUE, metres |-> 20],
   [cl |-> 1990, cost |-> 50, station |-> "shell", near |-> TRUE, metres |-> 900]}
MCTypedRuns == {[len |-> 1, value |-> 5], [len |-> 2, value |-> 95], [len |-> 3, value |-> 105]}
MCNudges == {10, -10}
MCRowsAtFirst == {<<0, 0>>, <<1, 1>>, <<2, 1>>}
EntryInit ==
  \/ FuelInit \/ ServiceInit \/ AccessInit \/ ThrottleInit
  \/ FuelLogInit \/ MileageInit \/ FormsInit \/ ScreensInit

EntryNext ==
  \/ On("fuel") /\ FuelNext
  \/ On("service") /\ ServiceNext
  \/ On("access") /\ AccessNext
  \/ On("throttle") /\ ThrottleNext
  \/ On("log") /\ FuelLogNext
  \/ On("mileage") /\ MileageNext
  \/ On("form") /\ FormsNext
  \/ On("screen") /\ ScreensNext

EntrySpec == EntryInit /\ [][EntryNext]_desk
=============================================================================
