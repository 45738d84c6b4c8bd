SPECIFICATION Spec
SYMMETRY Symmetry
CONSTANTS
  routes = routes
  fees = fees
  stops = stops
  fares = fares
  times = times
  zones = zones
  stop = stop
  zone = zone
  None = None
  Queries = {"bus"}
  CatalogueFilters <- MCCatalogueFilters
  Resources <- MCResources
  ProviderFilters <- MCProviderFilters
  Files <- MCFiles
  Evidence <- MCEvidence
  MaxEntries = 3
INVARIANTS LocationShowsView NavigationRestores CommandIsProven
