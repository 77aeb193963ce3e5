--------------------- MODULE MCAutomationScheduler ---------------------
(* One rule whose slots come every tick, every other one when degraded. *)
EXTENDS AutomationScheduler
CONSTANT r1
OneRule == {r1}
AllRequests == {"enable", "disable", "remove"}
Toggles == {"enable", "disable"}
Removal == {"remove"}
NoRequests == {}
=============================================================================
