---------------------------- MODULE MCDescriptors ----------------------------
EXTENDS Descriptors, TLC
=============================================================================
