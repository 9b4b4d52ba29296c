------------------------ MODULE MCSimulationService ------------------------
(* Instances of SimulationService for TLC.                                 *)
EXTENDS SimulationService, TLC

CONSTANTS r1, r2, r3, r4

Ask(route, kind, defects) == [route |-> route, kind |-> kind, defects |-> defects]

(* One kind of request for every way through the checks.                   *)
AllProfiles ==
  {Ask("run", "rays", {}), Ask("arrivals", "arrivals", {}), Ask("field", "rays", {}),
   Ask("validate", "rays", {}), Ask("validate", "rays", {"semantic"}),
   Ask("run", "rays", {"token", "media"}), Ask("run", "rays", {"size", "malformed"})}

(* A request of any other kind beside two simulations: on their routes, and *)
(* with them for the one slot.                                             *)
MixedInit ==
  /\ Init
  /\ profile[r2] = Ask("run", "rays", {}) /\ profile[r3] = Ask("arrivals", "arrivals", {})
  /\ profile[r1] \notin {profile[r2], profile[r3]}
MixedSpec == MixedInit /\ [][Next]_vars /\ Fairness

(* Identical simulations.                                                  *)
SimulationProfiles == {Ask("run", "rays", {})}

Symmetry == Permutations(Requests)
=============================================================================
