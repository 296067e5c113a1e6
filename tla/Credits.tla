------------------------------- MODULE Credits -------------------------------
(***************************************************************************)
(* The credit pools of omnixtend-rs/src/credits.rs: one non-negative       *)
(* counter per TileLink channel.  A pool is a function from channel number *)
(* (A = 1 .. E = 5, OmnixtendChannel) to Nat.  Channel 0 is INVALID: the   *)
(* code ignores it in add() and refuses it in take().                      *)
(***************************************************************************)
EXTENDS Naturals

CONSTANT Chans             \* the channel numbers in use, a subset of 1..5

ASSUME Chans \subseteq 1 .. 5 /\ Chans # {}

\* Credits::new(n): every pool starts at n.
CreditsNew(n) == [c \in Chans |-> n]

\* Credits::add(): increase a pool, no-op for the INVALID channel (and for
\* a channel outside the model).
CreditsAdd(pool, c, n) ==
    IF c \in Chans THEN [pool EXCEPT ![c] = @ + n] ELSE pool

\* Credits::take() succeeds iff the pool holds at least n ...
CanTake(pool, c, n) == c \in Chans /\ pool[c] >= n

\* ... and then deducts n.
CreditsTake(pool, c, n) == [pool EXCEPT ![c] = @ - n]

\* Credits::any()
CreditsAny(pool) == \E c \in Chans : pool[c] # 0

\* 31 - (v as u32).leading_zeros(): the position of the highest set bit.
RECURSIVE Log2Floor(_)
Log2Floor(v) == IF v < 2 THEN 0 ELSE 1 + Log2Floor(v \div 2)

\* The loop of Credits::get_highest() keeps the first channel whose pool is
\* strictly larger than every earlier one: the lowest channel holding the
\* maximum.
HighestChan(pool) ==
    CHOOSE c \in Chans : \A d \in Chans : pool[d] < pool[c] \/ (pool[d] = pool[c] /\ c <= d)

\* A plausible bug: the log2 taken as 32 - leading_zeros(), one too high.
GrantOfOffByOne(pool) ==
    LET c == HighestChan(pool) IN
    IF pool[c] = 0 THEN <<0, 0>> ELSE <<c, Log2Floor(pool[c]) + 1>>

\* Credits::get_highest(): the (channel, log2) grant it returns; (0, 0) when
\* every pool is empty.
GrantOf(pool) ==
    LET c == HighestChan(pool) IN
    IF pool[c] = 0 THEN <<0, 0>> ELSE <<c, Log2Floor(pool[c])>>

\* ... and the pool after it deducted 2^log2 from that channel.
AfterGrant(pool) ==
    LET g == GrantOf(pool) IN
    IF g[1] = 0 THEN pool ELSE [pool EXCEPT ![g[1]] = @ - 2 ^ g[2]]

\* A plausible bug: the credit field read as a count, not as log2.
GrantValueLinear(g) == IF g[1] = 0 THEN 0 ELSE g[2]

\* The number of credits a header grant (chan, log2) stands for, as
\* Connection::update_send_credits() decodes it: 2^credit.
GrantValue(g) == IF g[1] = 0 THEN 0 ELSE 2 ^ g[2]

=============================================================================
