--------------------------- MODULE MCNotification ---------------------------
(***************************************************************************)
(* Notification for TLC: no geofence, a plain one and one named "80%";     *)
(* the battery at its limit and below it; each fact known or not.          *)
(***************************************************************************)
EXTENDS Notification

SomeGeofences == {None, <<0, "Home">>, Percent(80)}
SomeVersions == {None, <<0, "2026.1">>}
SomeFlags == {None, <<0, "true">>}
=============================================================================
