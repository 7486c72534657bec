--------------------------- MODULE MCSessionClients ---------------------------
EXTENDS SessionClients
===============================================================================
