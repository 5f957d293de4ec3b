------------------------- MODULE MCSimulatedPortfolio -------------------------
EXTENDS SimulatedPortfolio
=============================================================================
