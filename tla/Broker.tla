---- MODULE Broker ----
(* The order as the broker keeps it, behind the REST API. It is not code of   *)
(* this repository: its moves are the status table the client is written      *)
(* against (OrderStatus's documentation, DESIGN.md 2.2). A broker record is   *)
(* [status, filled]; a cancel or modify the broker turns down sends the order *)
(* back to the working status its fill implies.                               *)
EXTENDS OrderStatus, Naturals

CONSTANT Qty    \* ordered quantity

BrokerRecords == [status : OrderStatuses \ {"UNKNOWN"}, filled : 0..Qty]

WorkingStatuses == {"PENDING", "PARTIAL_FILLED"}

WorkingAgain(filled) == IF filled = 0 THEN "PENDING" ELSE "PARTIAL_FILLED"

\* What the broker makes of a create it accepts: a working or a rejected order.
Entries == {[status |-> "PENDING", filled |-> 0], [status |-> "REJECTED", filled |-> 0]}

Fills(o) ==
    {[status |-> IF f = Qty THEN "FILLED" ELSE "PARTIAL_FILLED", filled |-> f] :
        f \in (o.filled + 1)..Qty}

\* The records the broker may move an order to of its own accord.
BrokerMoves(o) ==
    CASE o.status \in WorkingStatuses ->
            Fills(o) \cup {[o EXCEPT !.status = "CANCELED"]}
      [] o.status = "PENDING_CANCEL" ->
            {[o EXCEPT !.status = "CANCELED"], [o EXCEPT !.status = WorkingAgain(o.filled)],
             [status |-> "FILLED", filled |-> Qty]}
      [] o.status = "PENDING_REPLACE" ->
            {[o EXCEPT !.status = "REPLACED"], [o EXCEPT !.status = WorkingAgain(o.filled)]}
      [] OTHER -> {}

\* A cancel request is taken up while the order works, and refused otherwise.
TakesCancel(o) == o.status \in WorkingStatuses
CancelTaken(o) == [o EXCEPT !.status = "PENDING_CANCEL"]
====
