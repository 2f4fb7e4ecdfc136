----------------------------- MODULE MCJobRunner -----------------------------
(***************************************************************************)
(* Instances of JobRunner for TLC.  The jobs: a periodic one that fans out  *)
(* (refresh-encora) and a manual one flagged OnStartup, which refresh-encora *)
(* enqueues and a request may run at the same time.                         *)
(***************************************************************************)
EXTENDS JobRunner, TLC

CONSTANTS encora, images,         \* job names
          noArgs,                 \* the argument blob of a job without any
          w1, w2, c1

TwoJobs == {encora, images}
TwoJobKeys == {<<encora, noArgs>>, <<images, noArgs>>}

MCJobOf == [k \in Keys |-> k[1]]
MCDefaultKey == [n \in Names |-> <<n, noArgs>>]
EveryTick == [n \in Names |-> IF n = images THEN 0 ELSE 1]
=============================================================================
