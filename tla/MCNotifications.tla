-------------------------- MODULE MCNotifications --------------------------
(* Instances of Notifications for TLC. *)
EXTENDS Notifications

\* One KPI that is at risk or off track.
MCReviews == {{<<"kpi-atrisk", "k1">>}, {<<"kpi-offtrack", "k1">>}}
=============================================================================
