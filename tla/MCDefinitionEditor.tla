------------------------- MODULE MCDefinitionEditor -------------------------
EXTENDS DefinitionEditor

\* A gateway and a task, and an edge between them that can be removed and drawn again.
MCNodes == {"gate", "task"}
MCEdges == {<<"gate", "task">>}
MCGateways == {"gate"}
MCFirstNodes == {"gate", "task"}
MCFirstEdges == {<<"gate", "task">>}
=============================================================================
