------------------------------- MODULE MCBilling -------------------------------
(***************************************************************************)
(* Instances of Billing for TLC.                                           *)
(***************************************************************************)
EXTENDS BillingLive

CONSTANTS u1, n1, n2, t1, t2, c1, c2

\* One transaction carries two transfers, any other one.
MCParts == [t \in Tx |-> IF t = t1 THEN 2 ELSE 1]

\* Credits by hand beside edits of the assets; choices of a network beside wallets
\* that come and go.  MCPartModes: an edit of the assets while a payment is known
\* in part, and nothing else.
MCModes == {[calls |-> {"confirm"}, assets |-> {"full"}, walletsGo |-> FALSE],
            [calls |-> {"choose"}, assets |-> {}, walletsGo |-> TRUE]}
MCPartModes == {[calls |-> {}, assets |-> {"part"}, walletsGo |-> FALSE]}
MCLiveModes == {[calls |-> {"confirm"}, assets |-> {}, walletsGo |-> FALSE]}

=============================================================================
