----------------------------- MODULE MCRunQueue -----------------------------
(* Small instances of RunQueue: a webhook route, a cron route whose overlap *)
(* policy changes between its firings, and a webhook route that shares      *)
(* their workspace.                                                         *)
EXTENDS RunQueueImplements

CONSTANTS w1, w2, c1, c2, c3, v1, hook, job, other, ws

AllRouteOf == (w1 :> hook) @@ (w2 :> hook) @@ (v1 :> other)
              @@ (c1 :> job) @@ (c2 :> job) @@ (c3 :> job)
AllOverlap == (w1 :> "none") @@ (w2 :> "none") @@ (v1 :> "none")
              @@ (c1 :> "single_flight") @@ (c2 :> "queue_one") @@ (c3 :> "queue_one")

MCRouteOf == [r \in Runs |-> AllRouteOf[r]]
MCOverlap == [r \in Runs |-> AllOverlap[r]]
MCWorkspaceOf == [r \in Runs |-> ws]
=============================================================================
