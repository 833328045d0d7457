----------------------------- MODULE MCListing -----------------------------
(* Small instances of Listing for TLC. *)
EXTENDS Listing

CONSTANTS r1, r2, r3

\* The last row is of another channel.
TheChannels == [r \in Rows |-> IF r = r3 THEN "email" ELSE "sms"]

NoFilter == [status |-> NotGiven, channel |-> NotGiven, from |-> NotGiven, to |-> NotGiven]

TheFilters == {NoFilter,
               [NoFilter EXCEPT !.status = "pending"],
               [NoFilter EXCEPT !.channel = "sms", !.from = 2]}

TheLimits == {0, 1, 4, Unparsed}

TheOffsets == {-1}
=============================================================================
