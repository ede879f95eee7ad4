--------------------------- MODULE MCEgressStation ---------------------------
\* Small instances of EgressStation for TLC: one bridge that sends at once and one
\* that reports later, and a rate of 2 so that odd amounts leave dust.
EXTENDS EgressStation, TLC

CONSTANTS a, b

Msg(kind, owner, assets, maxFee, nonce, deadline) ==
  [kind |-> kind, owner |-> owner, assets |-> assets, maxFee |-> maxFee, nonce |-> nonce,
   deadline |-> deadline]

\* One owner redeems, and bridges twice or withdraws; the other redeems and may
\* bridge; one bridge message allows a fee beyond the cap, one is forged.
MCSigned == {Msg("redeem", a, 5, 1, 0, 2), Msg("redeem", b, 3, 0, 0, 2),
             Msg("bridge", a, 4, 1, 0, 2), Msg("bridge", a, 3, 1, 1, 2),
             Msg("withdraw", a, 2, 0, 1, 2), Msg("bridge", b, 3, 0, 0, 1),
             Msg("bridge", a, 4, 2, 0, 2)}

MCMessages == MCSigned \cup {Msg("bridge", b, 2, 0, 1, 2)}
=============================================================================
