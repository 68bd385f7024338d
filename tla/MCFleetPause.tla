---- MODULE MCFleetPause ----
EXTENDS FleetPause
====
