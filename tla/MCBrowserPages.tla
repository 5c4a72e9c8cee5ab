--------------------------- MODULE MCBrowserPages ---------------------------
EXTENDS BrowserPages, TLC

CONSTANTS t1, t2, h1, h2, earlier, foreign, k1, k2, old

Symmetry == Permutations(Tabs) \cup Permutations(Keys)

\* Bound: no payment an earlier release admitted where local storage fails.
MCPagesInit == PagesInit /\ (failing => status[old] /= "ADMITTED")
MCPagesSpec == MCPagesInit /\ [][PagesNext]_pagesVars
=============================================================================
