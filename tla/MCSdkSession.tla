---------------------------- MODULE MCSdkSession ----------------------------
\* One request of any kind.
EXTENDS SdkSession
=============================================================================
