---- MODULE MCSnapshotStore ----
EXTENDS SnapshotStore
====
