--------------------------- MODULE MCMadsAgent ---------------------------
(***************************************************************************)
(* MadsAgent for TLC: the calls of a sketch, and topics that fit.          *)
(***************************************************************************)
EXTENDS MadsAgent, TLC

CONSTANTS t1, t2

PublishOps == {"json", "raw"}
BlobOps == {"json", "blob"}
PollOps == {"poll", "subscribe"}
BothOps == {"raw", "poll", "connect_sub", "subscribe"}

\* Every topic fits.
CutNothing == [t \in Topics |-> t]

TopicSymmetry == Permutations(Topics)
=============================================================================
