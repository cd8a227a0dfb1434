------------------------------- MODULE MCPool -------------------------------
(* Instances of Pool for TLC. *)
EXTENDS Pool, TLC

CONSTANTS h1, h2, h3, s1, x1, x2, q1

TwoHandles == {h1, h2}
ThreeHandles == {h1, h2, h3}
NoHandles == {}
OnlySecond == {h2}
OneProvider == {"anthropic"}
TwoProviders == {"anthropic", "codex"}
AllAnthropic == [h \in Handle |-> "anthropic"]
LastIsCodex == [h \in Handle |-> IF h \in {h1, h2} THEN "anthropic" ELSE "codex"]

\* Reference literals, and who answers to which whatever its name.
Names == {"one", "two"}
NamesAndMail == {"one", "two", "mail"}
NoIdent == [h \in Handle |-> {}]

\* The configuration's reference stays on h1 whatever its name, so h1 is never removed.
FirstIsOne == [h \in Handle |-> IF h = h1 THEN {"one"} ELSE {}]

\* h2 and h3 carry the same email, one per provider.
SharedMail == [h \in Handle |-> IF h = h1 THEN {} ELSE {"mail"}]

OneRoute == {"haiku"}
OneSpelling == {"haiku"}
TwoSpellings == {"haiku", "Haiku"}

Route(configured, spelling, open, listed) ==
  [haiku |-> [configured |-> configured, spelling |-> spelling, open |-> open, listed |-> listed]]
Cfg(route, priorities, failover, distribute) ==
  [routes |-> route, priorities |-> priorities, failover |-> failover, distribute |-> distribute]

NoRoutes == Cfg(Route(FALSE, "haiku", TRUE, {}), <<>>, FALSE, FALSE)
OpenRoute == Cfg(Route(TRUE, "haiku", TRUE, {}), <<"one">>, FALSE, FALSE)
Respelled == Cfg(Route(TRUE, "Haiku", TRUE, {}), <<"one">>, FALSE, FALSE)
Listed == Cfg(Route(TRUE, "haiku", FALSE, {"mail"}), <<"one", "mail">>, FALSE, FALSE)

\* Two settings of the running configuration, the second with failover.
Fixed == Cfg(Route(TRUE, "haiku", FALSE, {"one"}), <<>>, FALSE, FALSE)
Failover == Cfg(Route(TRUE, "haiku", FALSE, {"one"}), <<>>, TRUE, TRUE)

ControlConfigs == {NoRoutes, OpenRoute, Listed}
Respellings == {OpenRoute, Respelled}
ExchangeConfigs == {Fixed, Failover}

PlainModel == {NoModel}
RoutedModel == {"haiku"}

TwoExchanges == {x1, x2}
NoExchanges == {}
OneSession == {s1}
NoSessions == {}
OneRequest == {q1}
NoRequests == {}

\* Exchanges of one instance are interchangeable.
Symmetry == Permutations(Exchange)
=============================================================================
