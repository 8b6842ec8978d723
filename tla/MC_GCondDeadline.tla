------------------------- MODULE MC_GCondDeadline --------------------------
EXTENDS GCondDeadline

(* Deadlines on both sides of the epoch and of Now, and tv_usec at and    *)
(* beyond both ends of 0..999999.                                          *)
MCTimeVals ==
    [sec : -3..5, usec : {-1, 0, 1, 500000, 999999, 1000000}]

(* Only canonical GTimeVals, so that a violation comes from the gint64 form.*)
MCCanonTimeVals ==
    [sec : -3..5, usec : {0, 1, 500000, 999999}]

MCAbsTimes ==
    {-1500000, -1000000, -999999, -1, 0, 1, 999999, 1000000, 1500000, 2000001}
=============================================================================
