--------------------------- MODULE AttachEngineMC ---------------------------
EXTENDS AttachEngine
=============================================================================
