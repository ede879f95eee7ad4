-------------------------- MODULE MCInboundStation --------------------------
\* Small instances of InboundStation for TLC: one trusted route, which governance
\* may leave by setting another OFT.
EXTENDS InboundStation, TLC

CONSTANTS a, b, endpoint, oft, otherOft, base

MCRoute == [composeCaller |-> endpoint, zenOft |-> oft, srcEid |-> base]

Msg(kind, owner, assets, nonce, deadline) ==
  [kind |-> kind, owner |-> owner, assets |-> assets, nonce |-> nonce, deadline |-> deadline]

\* One owner signs two credits, which may arrive in either order; one credit and
\* the withdrawal have little time left; one credit and one withdrawal are forged.
MCSigned == {Msg("credit", a, 2, 0, 2), Msg("credit", a, 1, 1, 2), Msg("credit", b, 1, 0, 1),
             Msg("stake", a, 1, 0, 2), Msg("withdraw", b, 1, 0, 1)}

MCMessages == MCSigned \cup {Msg("credit", b, 2, 0, 2), Msg("withdraw", a, 1, 0, 2)}
=============================================================================
