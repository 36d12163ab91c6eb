---------------------------- MODULE MCIBCNetwork ----------------------------
(***************************************************************************)
(* Small instances of IBCNetwork for TLC.                                   *)
(***************************************************************************)
EXTENDS IBCNetwork

CONSTANTS chainA, chainB, chainC

\* Traffic leaves from channel-A and arrives at channel-B of another chain.
Route(src, dst) == [src |-> src, srcEnd |-> "A", dst |-> dst, dstEnd |-> "B"]

OneWay == {Route(chainA, chainB)}
TwoSources == {Route(chainA, chainC), Route(chainB, chainC)}

\* The receiving end may be bound and unbound, or no end is.
Receiving == {<<chainB, "B">>}
Nothing == {}

\* Every relayer, or all but one, is reliable.
AllReliable == [r \in Relayers |-> 0]
OneReliable == [r \in Relayers |-> IF r = CHOOSE q \in Relayers : TRUE THEN 0 ELSE 50]
=============================================================================
