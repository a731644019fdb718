----------------------------- MODULE MCLogForm -----------------------------
\* Messages of two clients, one with a '#' in what it says, and a file that is no
\* saved log.
EXTENDS LogForm
C == [client |-> "c", content |-> <<{"x"}>>, type |-> "debug", line |-> 1]
D == [client |-> "d", content |-> <<{}, {"x"}>>, type |-> "warning", line |-> 2]
MCSays == <<D, C, C, D, D, Bad>>
MCFiles == {<<"other", "other", "other", "stack", "log">>}
=============================================================================
