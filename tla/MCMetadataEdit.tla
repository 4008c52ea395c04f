-------------------------- MODULE MCMetadataEdit --------------------------
EXTENDS MetadataEdit
=============================================================================
