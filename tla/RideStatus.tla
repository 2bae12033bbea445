----------------------------- MODULE RideStatus -----------------------------
(***************************************************************************)
(* The ride state machine as the code declares it: the statuses of the     *)
(* entity, the table of allowed transitions and the two groups of statuses *)
(* that the repository's queries select; with what its modules share.      *)
(***************************************************************************)

CONSTANTS
    Drivers,    \* the accounts that call the accept endpoint
    Handlers,   \* the request handlers that can run at the same time
    None        \* SQL NULL

\* "absent" is a ride id that has no row yet; the others are enum RideStatus.
RideStatuses == {"absent", "pending", "searching", "accepted", "driver_en_route",
                 "arrived", "in_progress", "completed", "cancelled", "scheduled",
                 "no_driver"}

\* VALID_TRANSITIONS; a status that is not a key of the table has no successor.
ValidTransitions ==
    { <<"pending", "searching">>, <<"pending", "cancelled">>,
      <<"searching", "accepted">>, <<"searching", "cancelled">>,
      <<"searching", "no_driver">>,
      <<"accepted", "driver_en_route">>, <<"accepted", "cancelled">>,
      <<"driver_en_route", "arrived">>, <<"driver_en_route", "cancelled">>,
      <<"arrived", "in_progress">>, <<"arrived", "cancelled">>,
      <<"in_progress", "completed">>,
      <<"scheduled", "searching">>, <<"scheduled", "cancelled">> }

canTransitionTo(from, to) == <<from, to>> \in ValidTransitions

\* The statuses that stop a passenger from creating another ride.
BlocksCreate == {"pending", "searching", "in_progress"}

\* The statuses countActiveRidesByDriver selects; "arrived" is not among them.
CountedForDriver == {"accepted", "driver_en_route", "in_progress"}
=============================================================================
