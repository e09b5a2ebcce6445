----------------------------- MODULE MCDailyPush ----------------------------
EXTENDS DailyPush

CONSTANTS p1, p2, a, b

\* Two topics of one forum chat; the same and a second chat.
TwoTopics == {<<a, 0>>, <<a, 1>>}
TwoChats == {<<a, 0>>, <<b, 0>>}
ThreePairs == TwoTopics \cup TwoChats
=============================================================================
