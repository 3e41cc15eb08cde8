------------------------------ MODULE MCMpInit ------------------------------
EXTENDS MpInit

MCLoopMode == {"hlt", "mwait"}

\* On all APs at once or one by one, or on one AP; waiting for the end or not;
\* with a timeout, or without one where the caller does not wait.
MCRequest(service, single, event, finite) ==
  [service |-> service, single |-> single, event |-> event, finite |-> finite]
MCRequests ==
  {MCRequest("startAll", FALSE, FALSE, TRUE),
   MCRequest("startAll", TRUE, TRUE, TRUE),
   MCRequest("startThis", FALSE, TRUE, FALSE),
   MCRequest("startThis", FALSE, FALSE, TRUE)}

\* What follows a reset that returned early is left out: OncePerCall and CallsEnd
\* exempt it anyway, the invariants are proved for it, and MpReset.cfg has the first.
\* What follows an abandoned lock is not left out.
NotRaced == ~raced
=============================================================================
