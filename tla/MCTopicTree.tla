----------------------------- MODULE MCTopicTree -----------------------------
EXTENDS TopicTree, TLC

Filters == {<<"a">>, <<"a", "b">>, <<"+", "#">>}
Topics == {<<"a", "b">>}
Clients == Permutations(Client)

\* Among these filters and topics are none of those that the code takes otherwise.
ASSUME PlainFilters == Plain
=============================================================================
