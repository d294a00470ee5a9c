------------------------------ MODULE MCBurst ------------------------------
EXTENDS Burst
MCReference == <<6, 3>>
=============================================================================
