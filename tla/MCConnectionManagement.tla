------------------------ MODULE MCConnectionManagement ------------------------
(* Instances of ConnectionManagement for TLC. *)
EXTENDS ConnectionManagement

Configured(timeout, reload) == [connectionTimeout |-> timeout, reloadOnReconnect |-> reload]

\* The defaults (frontendConnectionTimeout 0, reloadOnReconnect false), what
\* electron-app is configured with (-1 and true), and a browser application that keeps
\* contexts for a while and reloads.
Consistent == {Configured("zero", FALSE), Configured("never", TRUE), Configured("positive", TRUE)}

\* Contexts are kept for a while and the page is not reloaded.
KeptAndRestarted == {Configured("positive", FALSE)}
=============================================================================
