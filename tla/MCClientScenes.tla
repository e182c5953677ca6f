--------------------------- MODULE MCClientScenes ---------------------------
EXTENDS ClientScenes
=============================================================================
