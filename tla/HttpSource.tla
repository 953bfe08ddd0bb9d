------------------------------ MODULE HttpSource ------------------------------
(***************************************************************************)
(* What http_calendar_source::fetch makes of one answer to its GET:        *)
(*                                                                         *)
(*   ok            status 200 with a body                                  *)
(*   okEmpty       status 200 without one                                  *)
(*   clientError   a 4xx other than 429                                    *)
(*   transient     the error message matches a transient pattern           *)
(*   silent        anything else: a 429, a 5xx or a redirect has no error  *)
(*                 message, an unknown host has one that matches nothing   *)
(***************************************************************************)
Responses == {"ok", "okEmpty", "clientError", "transient", "silent"}

\* The content is returned, an empty string is returned, or the GET is tried
\* again if an attempt is left.
Verdict(r) ==
    CASE r = "ok"                                 -> "content"
      [] r \in {"okEmpty", "clientError", "silent"} -> "nothing"
      [] r = "transient"                          -> "retry"
=============================================================================
