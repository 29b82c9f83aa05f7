---- MODULE MCRequestPipeline ----
EXTENDS RequestPipeline

\* A create with and without its key, a cancel, and a read of another group.
MCCalls == {create_order(TRUE), create_order(FALSE), cancel_order, get("OrderHistory")}
====
