---------------------------- MODULE MCFeedPaging -----------------------------
(* TLC instance of FeedPaging for the recently read list: three contents,   *)
(* pages of one row.                                                        *)
EXTENDS FeedPaging

CONSTANTS q1, q2

Stamps == <<1, 2, 2>>
=============================================================================
