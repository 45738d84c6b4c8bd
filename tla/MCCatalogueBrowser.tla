------------------------- MODULE MCCatalogueBrowser -------------------------
(* The instance of CatalogueBrowser that TLC checks: two sources of one        *)
(* category; two datasets that are alike, each with a sampled file that has a  *)
(* placeholder of its own and a file that answered but was not the sampled     *)
(* one; a filter on either side and three entries of history.                  *)
EXTENDS CatalogueBrowser, TLC

CONSTANTS routes, fees, stops, fares, times, zones, stop, zone

MCCatalogueFilters == {<<"access", "live">>}

MCResources ==
  [rail |-> [text |-> {"bus"}, values |-> {}, categories |-> {"transport"}, mapped |-> "bus"],
   feed |-> [text |-> {}, values |-> MCCatalogueFilters, categories |-> {"transport"}, mapped |-> None]]

MCProviderFilters == {<<"evidence", "live-verified">>}

MCFiles ==
  [f \in {stops, fares, times, zones} |->
     [dataset |-> IF f \in {stops, times} THEN routes ELSE fees, values |-> {},
      text |-> IF f \in {stops, fares} THEN {"bus"} ELSE {},
      https |-> TRUE, direct |-> TRUE, attempt |-> "success",
      parameters |-> CASE f = stops -> {stop} [] f = fares -> {zone} [] OTHER -> {}]]

MCEvidence ==
  [d \in {routes, fees} |->
     [outcome |-> "success", selected |-> IF d = routes THEN stops ELSE fares]]

\* What belongs to one dataset can change places with what belongs to the other, all at once.
Twin ==
  [x \in {routes, fees, stops, fares, times, zones, stop, zone} |->
     CASE x = routes -> fees  [] x = fees  -> routes
       [] x = stops  -> fares [] x = fares -> stops
       [] x = times  -> zones [] x = zones -> times
       [] x = stop   -> zone  [] x = zone  -> stop]
Symmetry == {f \in Permutations(DOMAIN Twin) : f = Twin \/ \A x \in DOMAIN f : f[x] = x}
=============================================================================
