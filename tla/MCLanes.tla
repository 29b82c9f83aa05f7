---- MODULE MCLanes ----
EXTENDS Lanes
====
