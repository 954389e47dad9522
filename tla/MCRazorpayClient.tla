--------------------------- MODULE MCRazorpayClient ---------------------------
EXTENDS RazorpayClient
=============================================================================
