----------------------------- MODULE MCMapPath -----------------------------
(* Small instances of MapPath.                                             *)
EXTENDS MapPathProps, TLC

CONSTANTS t1, t2, p1, p2, p3

MCBdvd == <<"bdvd">>
Mapped(old, new, flags) ==
  [old |-> old, lead |-> FALSE, new |-> new, flags |-> flags, dot |-> FALSE]
Unmapped(old) == Mapped(old, NoPath, {})

\* A game mounted on the disc drive, and a cycle of mappings through it.
Mount == Mapped(MCBdvd, <<"hdd0", "game">>, {"protect"})
Home == Mapped(<<"hdd0">>, <<"usb">>, {"priority"})
Back == Mapped(<<"usb">>, MCBdvd, {})
Dotted == [Mount EXCEPT !.flags = {}, !.dot = TRUE]
\* The same disc, mapped as "//dev_bdvd".
Slashed == [Mount EXCEPT !.flags = {}, !.lead = TRUE]

MCJobs == {Mount, Home, Unmapped(MCBdvd)}
MCCalls == {<<[Mount EXCEPT !.flags = {"table"}]>>,
            <<[Slashed EXCEPT !.flags = {"table"}], [Back EXCEPT !.flags = {"table"}]>>}
MCOpens == {<<"bdvd", "f">>}

FewJobs == {Mapped(MCBdvd, <<"hdd0", "game">>, {}), Unmapped(MCBdvd)}
DotJobs == {Dotted}
LeadJobs == {Slashed, Mapped(MCBdvd, <<"hdd0", "game">>, {})}

\* A cycle of two mappings.
RoundJobs == {Mapped(MCBdvd, <<"usb">>, {})}
RoundCalls == {<<[Back EXCEPT !.flags = {"table"}]>>}
ShortCalls == {<<[Mount EXCEPT !.flags = {"table"}]>>}
OneOpen == {<<"bdvd", "f">>}
TwoOpens == {<<"bdvd", "f">>, <<"bdvd", "g">>}

Addresses == Permutations(Ptr)
=============================================================================
