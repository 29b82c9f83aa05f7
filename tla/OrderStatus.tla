---- MODULE OrderStatus ----
(* The order-status vocabulary: the wire statuses of an order record, the    *)
(* predicates over them (tossinvest-model, order/status.rs) and the flat     *)
(* lifecycle a row of the projection derives from its status                 *)
(* (tossinvest-state, core/view.rs).                                         *)

OpenStatuses == {"PENDING", "PARTIAL_FILLED", "PENDING_CANCEL", "PENDING_REPLACE"}

TerminalStatuses ==
    {"FILLED", "CANCELED", "REJECTED", "REPLACED", "CANCEL_REJECTED", "REPLACE_REJECTED"}

\* "UNKNOWN" stands for every code the open enum keeps verbatim.
OrderStatuses == OpenStatuses \cup TerminalStatuses \cup {"UNKNOWN"}

is_open(status) == status \in OpenStatuses
is_terminal(status) == status \in TerminalStatuses

\* "Closing" carries the kind of the operation in flight. The reason a "Closed"
\* row carries is a function of its status and is left out.
Lifecycles == {"SubmittingPending", "Working", "ClosingCancel", "ClosingModify",
               "Closed", "UnknownStatus", "SubmitRejected"}

\* The lifecycle of a row that is not optimistic (no caller passes TRUE).
lifecycle_for(status) ==
    CASE status \in {"PENDING", "PARTIAL_FILLED"} -> "Working"
      [] status = "PENDING_CANCEL"                -> "ClosingCancel"
      [] status = "PENDING_REPLACE"               -> "ClosingModify"
      [] status \in {"FILLED", "CANCELED", "REJECTED", "REPLACED",
                     "CANCEL_REJECTED", "REPLACE_REJECTED"} -> "Closed"
      [] OTHER                                    -> "UnknownStatus"
====
