-------------------------- MODULE IncidentRequests --------------------------
(***************************************************************************)
(* What the two views of the incident routes are about: Incidents, how     *)
(* alerts are linked to incidents, and IncidentDesk, what users do to an   *)
(* incident itself.                                                        *)
(***************************************************************************)
CONSTANTS Incident,   \* incidents, with resolve_on = "all"
          NoIncident,
          Client,     \* requests in progress
          MaxRequests      \* bound: requests per client
=============================================================================
