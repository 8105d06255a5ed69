--------------------------- MODULE MCEpoDownload ---------------------------
(* Model checking EpoDownload: the environments of the runs. *)
EXTENDS EpoDownload

\* The thread by itself over several days, sessions within one day, and a
\* server and a disk that fail although the rest can be relied upon.
MCEnvs == {{"fails", "network", "timer_fails", "day", "stale", "preempt",
            "short"},
           {"fails", "network", "start"},
           {"fails", "day", "stale", "short", "merge_fails"}}

\* A session starts while a download goes on.
MCOverlap == {{"start", "stale"}}
=============================================================================
