SPECIFICATION Spec
CONSTANTS
  None = None
  SourceIds = {1, 2, 3}
  Restricted = {3}
  Project = {1}
  Monitors = {1, 2}
  SourceOf <- Source
  IncidentIds = {1, 2}
  RecordIds = {1, 2}
  EventIds = {1}
  RecipeIds = {1, 2, 3}
  ResourceIds = {1, 2}
  PageMax = 2
  MaxWrites = 2
INVARIANTS WalkIsExact BackendsAgree DetailIsCoherent SummaryIsCurrent
