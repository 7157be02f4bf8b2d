------------------------ MODULE MCPrf2FitsRefinement ------------------------
EXTENDS MCPrf2Fits, Prf2FitsRefinement
=============================================================================
