-------------------------- MODULE MCSolveDelivery ---------------------------
(* Small instances of SolveDelivery for TLC.                                *)
EXTENDS SolveDelivery

CONSTANTS p1, p2, p3

(* On SQLx: an HTTP and an SQS worker, which serves two queues in turn and   *)
(* finds the job in either of them; two SQS workers; the dispatchers of two  *)
(* replicas.  On DynamoDB: two SQS workers; both kinds of workers.           *)
TheFleets ==
    {[backend |-> "sqlx", http |-> {p2}, sqs |-> {p1}, dispatchers |-> {p3},
      weight |-> 1, favoured |-> {}, faults |-> 1, sends |-> 3],
     [backend |-> "sqlx", http |-> {}, sqs |-> {p1, p2}, dispatchers |-> {p3},
      weight |-> 0, favoured |-> {}, faults |-> 0, sends |-> 3],
     [backend |-> "sqlx", http |-> {}, sqs |-> {p1}, dispatchers |-> {p2, p3},
      weight |-> 1, favoured |-> Job, faults |-> 0, sends |-> 3],
     [backend |-> "dynamodb", http |-> {}, sqs |-> {p1, p2}, dispatchers |-> {p3},
      weight |-> 0, favoured |-> {}, faults |-> 1, sends |-> 3],
     [backend |-> "dynamodb", http |-> {p1}, sqs |-> {p2}, dispatchers |-> {p3},
      weight |-> 0, favoured |-> {}, faults |-> 1, sends |-> 3]}
=============================================================================
