--------------------------- MODULE MC_NvrRecorder ---------------------------
\* NvrRecorder with a handful of processes and calls.
EXTENDS NvrRecorder

MCOptions == {{}, {"finalize"}, {"finalize", "postroll"}}
=============================================================================
