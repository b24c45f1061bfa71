----------------------------- MODULE MCPlcBridge -----------------------------
EXTENDS PlcBridge

\* The budget that allows each event of S once.
Once(S) == [e \in Events |-> IF e \in S THEN 1 ELSE 0]
Buttons == {"pb2", "pb1", "start", "terminal"}

\* A crash and a failure of the transport; a garbled sample and the PLC page;
\* the GUI's stop and recovery; a recovery while an error waits to be synchronised.
Scenarios ==
    { Once(Buttons \cup {"gui_stop", "fault", "crash"}),
      Once(Buttons \cup {"garbled", "preflight", "disconnect"}),
      Once(Buttons \cup {"gui_stop", "gui_recovery"}),
      Once({"start", "terminal", "gui_recovery", "fault"}) }

\* One stop and one resume; one terminal error; a crash and a garbled sample.
OneStop == {Once({"pb2", "pb1", "start"})}
Errors == {Once({"pb1", "start", "terminal"})}
Restarts == {Once(Buttons \cup {"garbled", "crash"})}
=============================================================================
