--------------------------- MODULE MCEnvelopeStore ---------------------------
(* A topic and a topic under it; the same payload posted as a durable and as an *)
(* ephemeral envelope (one key); one envelope of the lower topic that comes by  *)
(* catch-up and one over the TTL limit.  The feed publishes what is also posted. *)
EXTENDS EnvelopeStore, TLC

Env(topic, key, durableFlag, ttl, stamp) ==
  [topic |-> topic, key |-> key, durable |-> durableFlag, ttl |-> ttl, stamp |-> stamp,
   valid |-> TRUE, size |-> 1]

kept == Env("a", "k1", TRUE, 0, 1)
brief == Env("a", "k1", FALSE, 0, 2)
sub == Env("a:b", "k2", TRUE, 0, 3)
long == Env("a:b", "k3", FALSE, 2, 3)

MCEnvelopes == {kept, brief, sub, long}
MCTopics == {"a", "a:b"}
MCKeys == {"k1", "k2", "k3"}
MCUnder == [t \in MCTopics |-> IF t = "a" THEN MCTopics ELSE {t}]
MCQueries == {<<"a", 2, 1>>}
MCDeletes == {<<"a", "k1">>}
MCArrives == [r \in Routes |-> CASE r = "post" -> {kept, brief}
                                 [] r = "mesh" -> {brief, long}
                                 [] r = "catchup" -> {sub}
                                 [] r = "feed" -> {brief}]
==============================================================================
