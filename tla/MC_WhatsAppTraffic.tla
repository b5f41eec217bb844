------------------------- MODULE MC_WhatsAppTraffic -------------------------
EXTENDS WhatsAppTraffic
=============================================================================
