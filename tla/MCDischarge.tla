----------------------------- MODULE MCDischarge -----------------------------
EXTENDS Discharge

NoInputs == <<>>
OneInput == <<"int">>
==============================================================================
