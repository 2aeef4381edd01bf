----------------------------- MODULE MCZrosTopic -----------------------------
(* A small topic for TLC: every other subscriber is rate limited.          *)
EXTENDS ZrosTopic, TLC

CONSTANTS p1, p2, s1, s2, sh, r1, r2

TwoPublishers   == {p1, p2}
OneSubscriber   == {s1}
OnePublisher    == {p1}
TwoSubscribers  == {s1, s2}
OneShell        == {sh}
NoShell         == {}
TwoPermits      == {r1, r2}

\* s1 is told of every publication, s2 of one per two ticks.
Rates == [s \in Subscribers |-> IF s = s1 THEN 0 ELSE 2]
\* A single subscriber with a rate limit.
Limited == [s \in Subscribers |-> 1]

PermitSymmetry == Permutations(Permits)
PermitPublisherSymmetry == Permutations(Permits) \cup Permutations(Publishers)
=============================================================================
