-------------------------------- MODULE Absent --------------------------------
\* What a variable of a page holds that has no value: null, undefined or an empty string
\* in the code.
CONSTANT None
=============================================================================
