---------------------- MODULE MCIssuanceAdmissionQueue ----------------------
EXTENDS IssuanceAdmissionQueue
=============================================================================
