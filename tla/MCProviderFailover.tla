-------------------------- MODULE MCProviderFailover --------------------------
(* Small instance of ProviderFailover: one configuration of each kind. *)
EXTENDS ProviderFailoverProperties

MCConfigs ==
  {[fallback |-> TRUE,  require_fallback |-> TRUE],
   [fallback |-> TRUE,  require_fallback |-> FALSE],
   [fallback |-> FALSE, require_fallback |-> FALSE]}

\* What the SDK raises: no answer, a full quota, a broken gateway, refusals
\* with a text that says more, and a timeout ("Request timed out.").
MCFailures ==
  {[status |-> 0,   os_error |-> FALSE, text |-> "connection"],
   [status |-> 0,   os_error |-> FALSE, text |-> "timed out"],
   [status |-> 429, os_error |-> FALSE, text |-> "quota"],
   [status |-> 503, os_error |-> FALSE, text |-> "other"],
   [status |-> 401, os_error |-> FALSE, text |-> "other"],
   [status |-> 404, os_error |-> FALSE, text |-> "unavailable"]}
=============================================================================
