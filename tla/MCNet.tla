---------------------------------- MODULE MCNet ----------------------------------
EXTENDS Net
==================================================================================
