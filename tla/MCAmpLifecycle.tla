---------------------------- MODULE MCAmpLifecycle ----------------------------
(* AmpLifecycle for TLC: the builds and environments.                       *)
EXTENDS AmpLifecycle

\* The product, with all priorities in use.
Product == [stop_control |-> TRUE, self_off |-> FALSE, lag |-> FALSE,
            errors |-> FALSE, used |-> Priority]

\* The test build that refuses stops and switches itself off, on firmware that
\* lags and fails.
Hostile == [stop_control |-> FALSE, self_off |-> TRUE, lag |-> TRUE,
            errors |-> TRUE, used |-> {0}]

\* The product with users on p0, which carries the lifecycle frames as well, and
\* with users on the other priorities; the test build on firmware that only
\* lags, and on one that fails as well.
ProductAndHostile ==
  {[Product EXCEPT !.used = {0}], [Product EXCEPT !.used = Priority \ {0}],
   [Hostile EXCEPT !.errors = FALSE], Hostile}
ProductOnly == {Product}
=============================================================================
