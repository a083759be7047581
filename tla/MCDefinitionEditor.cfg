SPECIFICATION EditorSpec
CONSTANTS
  Definitions = {"d1"}
  Described = {}
  Nodes <- MCNodes
  Edges <- MCEdges
  FirstNodes <- MCFirstNodes
  FirstEdges <- MCFirstEdges
  Gateways <- MCGateways
  Attrs = {"absent", "broken"}
  CleanAttrs = {"absent"}
  FirstAttr = "absent"
  MaxDepth = 1
  MaxEdits = 2
  MaxMounts = 2
  MaxCalls = 1
INVARIANTS HistoryBounded UnsavedIsMarked
CHECK_DEADLOCK FALSE
