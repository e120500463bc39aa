---------------------------- MODULE MCCredentials ----------------------------
(* A user and the signed-out user on a device; the user issues more writes than *)
(* are sent at once.                                                            *)
EXTENDS Credentials

CONSTANTS ann, nobody, w1, w2, w3, w4

MCUser == {ann, nobody}
MCWrite == {w1, w2, w3, w4}
MCAuthor == [w \in MCWrite |-> IF w = w3 THEN nobody ELSE ann]

MCWriteAnn == {w1, w2, w3}
MCAuthorAnn == [w \in MCWriteAnn |-> ann]

\* The third write issued is the other user's, or it is the user's own, on a device
\* that has one fault at most.
OneThird ==
  answer[w4] # "new" =>
    /\ answer[w1] # "new" /\ answer[w2] # "new" /\ answer[w3] = "new"
    /\ faults < MaxFaults
=============================================================================
