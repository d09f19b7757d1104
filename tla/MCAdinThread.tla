---------------------------- MODULE MCAdinThread ----------------------------
(* Constant values for model-checking AdinThread.                          *)
EXTENDS AdinThread

\* Nobody asks the engine to stop or reload, as in the scripts of HAS.
NoRequest == {0}

\* j_request_terminate and j_request_pause from another caller.
AnyRequest == {0, -1, -2}
=============================================================================
