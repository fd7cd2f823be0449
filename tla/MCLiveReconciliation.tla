------------------------- MODULE MCLiveReconciliation -------------------------
\* One limit order for two lots whose NEW command may be claimed before or after an
\* unknown outcome is reported; the broker then shows it open, filled, or unclearly.
EXTENDS LiveReconciliation, CapitalReply, TLC

CONSTANTS o1, c1, e1, e3, f1, s1, s2, s3

MCIntent == [o \in OrderIds |-> [quantity |-> 2, limit |-> 1]]

MCCommandSource ==
    [o \in OrderIds |-> {[id |-> c1, kind |-> "new", price |-> None, expectedTotal |-> None,
                          newTotal |-> None, boundAt |-> Now]}]

Reply(type, err, execution, leg) ==
    [Type |-> type, OrderErr |-> err, BuySell |-> "B", ComId |-> "TX", KeyNo |-> e1,
     SeqNo |-> NoId, OrderNo |-> NoId, MsgNo |-> NoId, Price |-> 1, Price1 |-> 1, Qty |-> 1,
     ExecutionNo |-> execution, OkSeq |-> NoId, ComId2 |-> leg, Time |-> None]

\* The broker times out on the order, reports it twice, and fills a lot all the same; a
\* fill of two legs and one without its identifier do not parse.
MCReplies ==
    {Reply("N", "T", NoId, FALSE), [Reply("N", "T", NoId, FALSE) EXCEPT !.MsgNo = e3],
     Reply("D", "N", f1, FALSE), Reply("D", "N", f1, TRUE), Reply("D", "N", NoId, FALSE)}

MCEvidence == {Parse(r, "TX") : r \in {x \in MCReplies : Parses(x, Now)}}

OpenOrder(remaining, confirmed, fresh) ==
    [observation |-> e1, order |-> o1, confirmed |-> confirmed, mine |-> TRUE, total |-> 2,
     remaining |-> remaining, limit |-> 1, fresh |-> fresh]

Fill == [observation |-> e3, order |-> o1, confirmed |-> TRUE, mine |-> TRUE, ids |-> {f1},
         quantity |-> 1, price |-> 1]

Answer(id, open, filled, cut) ==
    [id |-> id, open |-> open, fills |-> filled, incomplete |-> cut,
     positions |-> IF filled = {} THEN {} ELSE {1}]

MCBrokerSnapshots ==
    {Answer(s1, {OpenOrder(2, TRUE, TRUE)}, {}, {}),
     Answer(s2, {OpenOrder(2, TRUE, TRUE)}, {}, {}),
     Answer(s2, {OpenOrder(1, TRUE, TRUE)}, {Fill}, {}),
     Answer(s3, {OpenOrder(2, FALSE, TRUE)}, {}, {}),
     Answer(s3, {OpenOrder(2, TRUE, FALSE)}, {}, {}),
     Answer(s3, {}, {}, {"fills"})}

Symmetry == Permutations(RawIds) \cup Permutations(CommitIds) \cup Permutations(AuthorizationIds)
=============================================================================
